------------------------- MODULE LabContractProofs --------------------------
(***************************************************************************)
(* For commands that run one at a time: what is gone when the state file   *)
(* goes, and LabLifecycle implements LabContract; then, no veth pair       *)
(* outlives a lab whose state file is gone, and up publishes only labs     *)
(* that are whole.                                                         *)
(***************************************************************************)
EXTENDS LabLifecycleProofs

-----------------------------------------------------------------------------
(* GoneInv, for the one command there is.                                  *)

GoneOf(p) == TypeOK /\ AccountOf(p) /\ GoneOK(proc[p])

LEMMA GoneOne ==
  ASSUME OneCommand, NEW p \in Procs
  PROVE  GoneInv <=> GoneOf(p)
  BY AccountOne DEF OneCommand, GoneInv, GoneOf

LEMMA GoneOneNext ==
  ASSUME OneCommand, NEW p \in Procs
  PROVE  GoneInv' <=> GoneOf(p)'
  BY AccountOneNext DEF OneCommand, GoneInv, GoneOf

LEMMA EndGone ==
  ASSUME TypeOK, NEW p \in Procs, End(p),
         stateFile' = None => containers' \subseteq lost'.containers
  PROVE  GoneOK(proc[p])'
  BY EndFact, IdleFacts DEF GoneOK

\* While a lab is built or rolled back, its containers may come and stay.
Building(p) ==
  \/ proc[p].pc \in {"create", "boot", "links", "commit", "save"}
  \/ proc[p].pc = "list" /\ proc[p].rollback

LEMMA BuildGone == ASSUME NEW p \in Procs, Building(p)' PROVE GoneOK(proc[p])'
  BY DEF Building, GoneOK

LEMMA RollBackBuilding ==
  ASSUME TypeOK, NEW p \in Procs, NEW s, RollBack(p, s)
  PROVE  proc'[p].pc = "list" /\ proc'[p].rollback
  <1>1. proc'[p] = [proc[p] EXCEPT !.pc = "list", !.rollback = TRUE, !.snapshot = s]
    BY BecomeFact DEF RollBack
  <1> QED BY <1>1 DEF TypeOK, ProcsOK, Process

LEMMA NextMemberBuilding ==
  ASSUME TypeOK, NEW p \in Procs, At(p, "links"), NextMember(p)
  PROVE  proc'[p].pc = "links"
  BY BecomeFact DEF NextMember, At, TypeOK, ProcsOK, Process

\* The steps that build the lab go on building it, roll it back or publish it.
LEMMA BuildStepsBuild ==
  ASSUME TypeOK, NEW p \in Procs,
         \/ CreateContainer(p) \/ BootContainer(p) \/ EnsureBridge(p)
         \/ AttachMember(p) \/ AttachP2P(p) \/ ConfigureRouters(p) \/ Commit(p)
  PROVE  \/ Building(p)'
         \/ Commit(p) /\ End(p) /\ stateFile' = proc[p].snapshot
  <1>1. TypeOK /\ proc[p] \in Process BY DEF TypeOK, ProcsOK
  <1>2. CASE CreateContainer(p)
    <2>1. \/ RollBack(p, proc[p].snapshot)
          \/ \E s : Become(p, [proc[p] EXCEPT !.pc = "boot", !.snapshot = s])
      BY <1>2 DEF CreateContainer
    <2>2. ASSUME NEW s, Become(p, [proc[p] EXCEPT !.pc = "boot", !.snapshot = s])
          PROVE  Building(p)'
      <3>1. proc'[p] = [proc[p] EXCEPT !.pc = "boot", !.snapshot = s]
        BY <1>1, <2>2, BecomeFact
      <3> QED BY <1>1, <3>1 DEF Building, Process
    <2> QED BY <1>1, <2>1, <2>2, RollBackBuilding DEF Building
  <1>3. CASE BootContainer(p)
    <2>1. \/ RollBack(p, proc[p].snapshot)
          \/ proc'[p] = [proc[p] EXCEPT !.pc = "create", !.r = @ + 1]
          \/ proc'[p] = [proc[p] EXCEPT !.pc = "links"]
      BY <1>1, <1>3, BecomeFact DEF BootContainer, Goto
    <2> QED BY <1>1, <2>1, RollBackBuilding DEF Building, Process
  <1>4. CASE EnsureBridge(p)
    <2>1. proc[p].pc = "links" BY <1>4 DEF EnsureBridge, At
    <2>2. \E s : \/ RollBack(p, s)
                 \/ Become(p, [proc[p] EXCEPT !.snapshot = s, !.m = 1])
      BY <1>4 DEF EnsureBridge
    <2>3. ASSUME NEW s, Become(p, [proc[p] EXCEPT !.snapshot = s, !.m = 1])
          PROVE  Building(p)'
      <3>1. proc'[p] = [proc[p] EXCEPT !.snapshot = s, !.m = 1]
        BY <1>1, <2>3, BecomeFact
      <3> QED BY <1>1, <2>1, <3>1 DEF Building, Process
    <2> QED BY <1>1, <2>2, <2>3, RollBackBuilding DEF Building
  <1>5. CASE AttachMember(p) \/ AttachP2P(p)
    BY <1>1, <1>5, RollBackBuilding, NextMemberBuilding
       DEF AttachMember, AttachP2P, Attach, Building
  <1>6. CASE ConfigureRouters(p)
    <2>1. \/ RollBack(p, proc[p].snapshot)
          \/ proc'[p] = [proc[p] EXCEPT !.pc = "commit"]
      BY <1>1, <1>6, BecomeFact DEF ConfigureRouters, Goto
    <2> QED BY <1>1, <2>1, RollBackBuilding DEF Building, Process
  <1>7. CASE Commit(p)
    BY <1>1, <1>7, RollBackBuilding DEF Commit, Building
  <1> QED BY <1>2, <1>3, <1>4, <1>5, <1>6, <1>7

LEMMA BuildStepsGone ==
  ASSUME NEW p \in Procs, GoneOf(p),
         \/ CreateContainer(p) \/ BootContainer(p) \/ EnsureBridge(p)
         \/ AttachMember(p) \/ AttachP2P(p) \/ ConfigureRouters(p) \/ Commit(p)
  PROVE  GoneOK(proc[p])'
  <1>1. TypeOK /\ HoldsOK(proc[p]) BY DEF GoneOf, TypeOK, ProcsOK
  <1>2. CASE Building(p)' BY <1>2, BuildGone
  <1>3. CASE Commit(p) /\ End(p) /\ stateFile' = proc[p].snapshot
    <2>1. stateFile' # None BY <1>1, <1>3, NoneAssumption DEF Commit, At, HoldsOK
    <2> QED BY <1>1, <1>3, <2>1, EndGone
  <1> QED BY <1>1, <1>2, <1>3, BuildStepsBuild

\* The calls before a cleanup or a build, and those of a migration.
OuterStep(p) ==
  \/ StatState(p) \/ ListExisting(p) \/ OpenSnapshot(p) \/ ReadState(p)
  \/ ReadLegacy(p) \/ WriteMigrated(p) \/ Purge(p)
  \/ \E cmd \in Commands : Begin(p, cmd)

LEMMA OuterFacts ==
  ASSUME NEW p \in Procs, GoneOf(p), OuterStep(p)
  PROVE  /\ containers' = containers /\ veths' = veths /\ lost' = lost
         /\ proc[p].pc \in {"idle", "stat", "exists", "mkdir", "read", "migrate",
                            "write", "purge"}
         /\ ~proc[p].rollback
         /\ stateFile' = None => stateFile = None
         /\ proc'[p].pc \notin {"boot", "links", "commit", "remove", "bridges", "save", "purge"}
         /\ proc'[p].pc = "create" => OpenSnapshot(p)
  <1>1. /\ TypeOK /\ AccountOf(p) /\ GoneOK(proc[p]) /\ CommandOK(proc[p])
        /\ KnowsOK(proc[p]) /\ proc[p] \in Process /\ HoldsOK(proc[p])
    BY DEF GoneOf, AccountOf, TypeOK, ProcsOK
  <1>2. containers' = containers /\ veths' = veths /\ lost' = lost
    BY DEF OuterStep, StatState, ListExisting, OpenSnapshot, ReadState, ReadLegacy,
           WriteMigrated, Purge, Begin, host
  <1>3. proc[p].pc \in {"idle", "stat", "exists", "mkdir", "read", "migrate", "write", "purge"}
    BY DEF OuterStep, StatState, ListExisting, OpenSnapshot, ReadState, ReadLegacy,
           WriteMigrated, Purge, Begin, At
  <1>4. ~proc[p].rollback BY <1>1, <1>3 DEF HoldsOK
  <1>5. stateFile' = None => stateFile = None
    <2>1. CASE Purge(p) BY <1>1, <2>1 DEF Purge, disk, At, KnowsOK
    <2>2. CASE WriteMigrated(p)
      BY <1>1, <2>2, NoneAssumption DEF WriteMigrated, disk, At, HoldsOK
    <2> QED BY <2>1, <2>2 DEF OuterStep, StatState, ListExisting, OpenSnapshot,
                              ReadState, ReadLegacy, Begin, disk
  <1>6. /\ proc'[p].pc \notin {"boot", "links", "commit", "remove", "bridges", "save", "purge"}
        /\ proc'[p].pc = "create" => OpenSnapshot(p)
    <2>1. CASE End(p) BY <1>1, <2>1, EndFact, IdleFacts
    <2>2. CASE \E cmd \in Commands : Begin(p, cmd)
      <3>1. PICK cmd \in Commands : Begin(p, cmd) BY <2>2
      <3>2. proc'[p] = [Idle EXCEPT !.pc = FirstStep(cmd), !.cmd = cmd, !.topo = yaml]
        BY <1>1, <3>1, BecomeFact DEF Begin
      <3>3. proc'[p].pc = FirstStep(cmd) BY <3>2 DEF Idle
      <3>4. FirstStep(cmd) \in {"stat", "migrate", "read"} BY DEF FirstStep
      <3> QED BY <3>3, <3>4
    <2>3. CASE Goto(p, "exists") \/ Goto(p, "mkdir")
      BY <1>1, <2>3, BecomeFact DEF Goto, Process
    <2>4. CASE OpenSnapshot(p) /\ ~End(p)
      <3>1. \E s : proc'[p] = [proc[p] EXCEPT !.pc = "create", !.r = 1, !.l = 1, !.m = 0,
                                              !.snapshot = s]
        BY <1>1, <2>4, BecomeFact DEF OpenSnapshot
      <3> QED BY <1>1, <2>4, <3>1 DEF Process
    <2>5. CASE ReadState(p) /\ ~End(p)
      <3>1. proc'[p] = [proc[p] EXCEPT !.pc = "list", !.snapshot = stateFile]
        BY <1>1, <2>5, BecomeFact DEF ReadState
      <3> QED BY <1>1, <3>1 DEF Process
    <2>6. CASE ReadLegacy(p) /\ ~End(p)
      <3>1. \E s : proc'[p] = [proc[p] EXCEPT !.pc = "write", !.snapshot = s]
        BY <1>1, <2>6, BecomeFact DEF ReadLegacy
      <3> QED BY <1>1, <3>1 DEF Process
    <2> QED BY <2>1, <2>2, <2>3, <2>4, <2>5, <2>6
            DEF OuterStep, StatState, ListExisting, WriteMigrated, Purge
  <1> QED BY <1>2, <1>3, <1>4, <1>5, <1>6

LEMMA OuterStepsGone ==
  ASSUME NEW p \in Procs, GoneOf(p), OuterStep(p) PROVE GoneOK(proc[p])'
  <1>1. GoneOK(proc[p]) BY DEF GoneOf
  <1> QED BY <1>1, OuterFacts DEF GoneOK

\* The steps of a cleanup.
LEMMA ListLabelledGone ==
  ASSUME NEW p \in Procs, GoneOf(p), ListLabelled(p) PROVE GoneOK(proc[p])'
  <1> DEFINE known == proc[p].snapshot # None
             recorded == IF known THEN proc[p].snapshot.containers ELSE {}
             s == [proc[p] EXCEPT !.pc = "remove", !.todo = recorded \cup containers]
             t == [proc[p] EXCEPT !.pc = "remove", !.err = TRUE, !.todo = recorded]
  <1>1. /\ TypeOK /\ AccountOf(p) /\ proc[p] \in Process /\ GoneOK(proc[p])
    BY DEF GoneOf, TypeOK, ProcsOK
  <1>2. containers' = containers /\ lost' = lost /\ stateFile' = stateFile
    BY DEF ListLabelled, host, disk
  <1>3. proc[p].pc = "list" BY DEF ListLabelled, At
  <1>4. ~proc[p].rollback /\ stateFile = None => containers \subseteq lost.containers
    BY <1>1, <1>3 DEF GoneOK
  <1>5. CASE ~known /\ End(p)
    <2>1. ~proc[p].rollback BY <1>1, <1>3, <1>5, CleanupFacts
    <2> QED BY <1>1, <1>2, <1>4, <1>5, <2>1, EndGone
  <1>6. CASE Become(p, s) \/ Become(p, t)
    <2>1. proc'[p] = s \/ proc'[p] = t BY <1>1, <1>6, BecomeFact
    <2>2. /\ proc'[p].pc = "remove" /\ proc'[p].rollback = proc[p].rollback
          /\ proc'[p].err \/ proc'[p].todo = recorded \cup containers
      <3> HIDE DEF recorded
      <3> QED BY <1>1, <2>1 DEF Process
    <2> HIDE DEF recorded
    <2> QED BY <1>2, <1>4, <2>2 DEF GoneOK
  <1> QED BY <1>5, <1>6 DEF ListLabelled

LEMMA RemoveContainerGone ==
  ASSUME NEW p \in Procs, GoneOf(p), RemoveContainer(p) PROVE GoneOK(proc[p])'
  <1>1. /\ TypeOK /\ AccountOf(p) /\ proc[p] \in Process /\ GoneOK(proc[p])
    BY DEF GoneOf, TypeOK, ProcsOK
  <1>2. lost' = lost /\ stateFile' = stateFile /\ containers' \subseteq containers
    BY DEF RemoveContainer, disk
  <1>3. proc[p].pc = "remove" BY DEF RemoveContainer, At
  <1>4. PICK c \in proc[p].todo :
          \/ /\ containers' = containers \ {c}
             /\ Become(p, [proc[p] EXCEPT !.todo = @ \ {c}])
          \/ Become(p, [[proc[p] EXCEPT !.todo = @ \ {c}] EXCEPT !.err = TRUE])
    BY DEF RemoveContainer
  <1>5. \/ /\ containers' = containers \ {c}
           /\ proc'[p] = [proc[p] EXCEPT !.todo = @ \ {c}]
        \/ proc'[p] = [[proc[p] EXCEPT !.todo = @ \ {c}] EXCEPT !.err = TRUE]
    BY <1>1, <1>4, BecomeFact
  <1>6. /\ proc'[p].pc = "remove" /\ proc'[p].rollback = proc[p].rollback
        /\ \/ proc'[p].err = TRUE
           \/ /\ proc'[p].err = proc[p].err /\ proc'[p].todo = proc[p].todo \ {c}
              /\ containers' = containers \ {c}
    BY <1>1, <1>3, <1>5 DEF Process
  <1>7. /\ ~proc[p].rollback /\ stateFile = None => containers \subseteq lost.containers
        /\ ~proc[p].err => containers \subseteq proc[p].todo
    BY <1>1, <1>3 DEF GoneOK
  <1> QED BY <1>2, <1>6, <1>7 DEF GoneOK

LEMMA DeleteVethsGone ==
  ASSUME NEW p \in Procs, GoneOf(p), DeleteVeths(p) PROVE GoneOK(proc[p])'
  <1> DEFINE owned == IF proc[p].snapshot = None THEN {} ELSE proc[p].snapshot.bridges
             s == [proc[p] EXCEPT !.pc = "bridges", !.todoBridges = owned]
             t == [s EXCEPT !.err = TRUE]
  <1>1. /\ TypeOK /\ proc[p] \in Process /\ GoneOK(proc[p])
    BY DEF GoneOf, TypeOK, ProcsOK
  <1>2. lost' = lost /\ stateFile' = stateFile /\ containers' = containers
    BY DEF DeleteVeths, disk
  <1>3. proc[p].pc = "remove" /\ proc[p].todo = {} BY DEF DeleteVeths, At
  <1>4. proc'[p] = s \/ proc'[p] = t BY <1>1, BecomeFact DEF DeleteVeths
  <1>5. /\ proc'[p].pc = "bridges" /\ proc'[p].rollback = proc[p].rollback
        /\ proc'[p].err = TRUE \/ proc'[p].err = proc[p].err
    <2> HIDE DEF owned
    <2> QED BY <1>1, <1>4 DEF Process
  <1> QED BY <1>1, <1>2, <1>3, <1>5 DEF GoneOK

LEMMA DeleteBridgeGone ==
  ASSUME NEW p \in Procs, GoneOf(p), DeleteBridge(p) PROVE GoneOK(proc[p])'
  <1>1. /\ TypeOK /\ proc[p] \in Process /\ GoneOK(proc[p])
    BY DEF GoneOf, TypeOK, ProcsOK
  <1>2. lost' = lost /\ stateFile' = stateFile /\ containers' = containers
    BY DEF DeleteBridge, disk
  <1>3. proc[p].pc = "bridges" BY DEF DeleteBridge, At
  <1>4. PICK name \in proc[p].todoBridges :
          \/ Become(p, [proc[p] EXCEPT !.todoBridges = @ \ {name}])
          \/ Become(p, [[proc[p] EXCEPT !.todoBridges = @ \ {name}] EXCEPT !.err = TRUE])
    BY DEF DeleteBridge
  <1>5. \/ proc'[p] = [proc[p] EXCEPT !.todoBridges = @ \ {name}]
        \/ proc'[p] = [[proc[p] EXCEPT !.todoBridges = @ \ {name}] EXCEPT !.err = TRUE]
    BY <1>1, <1>4, BecomeFact
  <1>6. /\ proc'[p].pc = "bridges" /\ proc'[p].rollback = proc[p].rollback
        /\ proc'[p].err = TRUE \/ proc'[p].err = proc[p].err
    BY <1>1, <1>3, <1>5 DEF Process
  <1> QED BY <1>1, <1>2, <1>3, <1>6 DEF GoneOK

LEMMA EraseStateGone ==
  ASSUME NEW p \in Procs, GoneOf(p), EraseState(p) PROVE GoneOK(proc[p])'
  <1>1. /\ TypeOK /\ AccountOf(p) /\ proc[p] \in Process /\ GoneOK(proc[p])
    BY DEF GoneOf, TypeOK, ProcsOK
  <1>2. lost' = lost /\ containers' = containers BY DEF EraseState, host
  <1>3. proc[p].pc = "bridges" BY DEF EraseState, At
  <1>4. lost.containers = {} BY <1>1, <1>3, CleanupFacts
  <1>5. CASE ~proc[p].err /\ stateFile' = None /\ AfterCleanup(p)
    <2>1. containers = {} BY <1>1, <1>3, <1>5 DEF GoneOK
    <2>2. CASE End(p) BY <1>1, <1>2, <2>1, <2>2, EndGone
    <2>3. ASSUME NEW step \in {"mkdir", "purge"}, Resume(p, step)
          PROVE  GoneOK(proc[p])'
      <3>1. proc'[p] = [Idle EXCEPT !.pc = step, !.cmd = proc[p].cmd,
                          !.topo = proc[p].topo, !.cancelled = proc[p].cancelled]
        BY <1>1, <2>3, BecomeFact DEF Resume
      <3>2. proc'[p].pc = step BY <3>1 DEF Idle
      <3> QED BY <1>2, <1>4, <2>1, <3>2 DEF GoneOK
    <2> QED BY <1>5, <2>2, <2>3 DEF AfterCleanup
  <1>6. CASE KeepInventory(p) /\ stateFile' = stateFile
    <2>1. CASE proc[p].rollback
      <3>1. proc'[p] = [proc[p] EXCEPT !.pc = "save"]
        BY <1>1, <1>6, <2>1, BecomeFact DEF KeepInventory, Goto
      <3> QED BY <1>1, <3>1, BuildGone DEF Building, Process
    <2>2. CASE ~proc[p].rollback
      <3>1. stateFile = None => containers \subseteq lost.containers
        BY <1>1, <1>3, <2>2 DEF GoneOK
      <3> QED BY <1>1, <1>2, <1>6, <2>2, <3>1, EndGone DEF KeepInventory
    <2> QED BY <2>1, <2>2
  <1> QED BY <1>5, <1>6 DEF EraseState

\* Where the inventory vanishes, what exists becomes unknown.
LEMMA LosingStepsGone ==
  ASSUME NEW p \in Procs, GoneOf(p), SaveInventory(p) \/ Kill(p) PROVE GoneOK(proc[p])'
  <1>1. TypeOK /\ HoldsOK(proc[p]) BY DEF GoneOf, TypeOK, ProcsOK
  <1>2. containers' = containers BY DEF SaveInventory, Kill, host
  <1>3. CASE Forget /\ stateFile' = stateFile /\ End(p)
    BY <1>1, <1>2, <1>3, EndGone DEF Forget
  <1>4. CASE SaveInventory(p) /\ stateFile' = proc[p].snapshot /\ End(p)
    <2>1. stateFile' # None BY <1>1, <1>4, NoneAssumption DEF SaveInventory, At, HoldsOK
    <2> QED BY <1>1, <1>4, <2>1, EndGone
  <1> QED BY <1>3, <1>4 DEF SaveInventory, Kill, disk

LEMMA CancelGone ==
  ASSUME NEW p \in Procs, GoneOf(p), Cancel(p) PROVE GoneOK(proc[p])'
  <1>1. /\ TypeOK /\ proc[p] \in Process /\ GoneOK(proc[p])
    BY DEF GoneOf, TypeOK, ProcsOK
  <1>2. containers' = containers /\ lost' = lost /\ stateFile' = stateFile
    BY DEF Cancel, host, disk
  <1>3. proc'[p] = [proc[p] EXCEPT !.cancelled = TRUE] BY <1>1, BecomeFact DEF Cancel
  <1>4. /\ proc'[p].pc = proc[p].pc /\ proc'[p].rollback = proc[p].rollback
        /\ proc'[p].err = proc[p].err /\ proc'[p].todo = proc[p].todo
    BY <1>1, <1>3 DEF Process
  <1> QED BY <1>1, <1>2, <1>4 DEF GoneOK

LEMMA UserGone ==
  ASSUME NEW p \in Procs, GoneOf(p), EditYaml \/ OperatorRemove PROVE GoneOK(proc[p])'
  <1>1. /\ TypeOK /\ HoldsOK(proc[p]) /\ GoneOK(proc[p])
    BY DEF GoneOf, TypeOK, ProcsOK
  <1>2. stateFile' = stateFile /\ proc' = proc /\ proc[p].pc = "idle"
    BY DEF EditYaml, OperatorRemove, disk, Quiescent, At
  <1>3. ~proc[p].rollback BY <1>1, <1>2 DEF HoldsOK
  <1>4. stateFile = None => containers \subseteq lost.containers
    BY <1>1, <1>2, <1>3 DEF GoneOK
  <1>5. stateFile = None => containers' \subseteq lost'.containers
    <2>1. CASE EditYaml BY <1>4, <2>1 DEF EditYaml, host
    <2>2. CASE OperatorRemove
      BY <1>1, <1>4, <2>2 DEF OperatorRemove, TypeOK, SharedTypeOK
    <2> QED BY <2>1, <2>2
  <1> QED BY <1>2, <1>5 DEF GoneOK

-----------------------------------------------------------------------------
(* The invariant, and what follows from it.                                *)

LEMMA InitGone == ASSUME Init PROVE GoneInv
  <1>1. \A p \in Procs : proc[p] = Idle BY DEF Init
  <1>2. stateFile = None => containers \subseteq lost.containers
    <2>1. CASE Fresh BY <2>1 DEF Fresh
    <2>2. ASSUME NEW legacy \in BOOLEAN, Running(legacy) PROVE stateFile # None
      BY <2>2, RunningStateFile, NoneAssumption DEF Init
    <2> QED BY <2>1, <2>2 DEF Init
  <1> QED BY <1>1, <1>2, InitAccount, IdleFacts DEF GoneInv, GoneOK

LEMMA NextGone ==
  ASSUME OneCommand, GoneInv, [Next]_vars PROVE GoneInv'
  <1>1. AccountInv' BY NextAccount DEF GoneInv
  <1>2. ASSUME NEW p \in Procs,
               \/ Step(p) \/ Cancel(p) \/ Kill(p)
               \/ \E cmd \in Commands : Begin(p, cmd)
        PROVE  GoneInv'
    <2>1. GoneOf(p) BY GoneOne
    <2>2. GoneOK(proc[p])'
      BY <1>2, <2>1, BuildStepsGone, OuterStepsGone, ListLabelledGone,
         RemoveContainerGone, DeleteVethsGone, DeleteBridgeGone, EraseStateGone,
         LosingStepsGone, CancelGone
      DEF Step, OuterStep
    <2> QED BY <1>1, <2>2, AccountOneNext, GoneOneNext DEF GoneOf
  <1>3. CASE EditYaml \/ OperatorRemove
    <2>1. PICK p \in Procs : Procs = {p} BY DEF OneCommand
    <2>2. GoneOK(proc[p])' BY <1>3, UserGone, GoneOne
    <2> QED BY <1>1, <2>1, <2>2, AccountOneNext, GoneOneNext DEF GoneOf
  <1>4. CASE UNCHANGED vars
    BY <1>1, <1>4 DEF vars, GoneInv, GoneOK
  <1> QED BY <1>2, <1>3, <1>4 DEF Next

\* What is gone, while commands run one at a time.
THEOREM GoneHolds == OneCommand => (Spec => []GoneInv)
  <1> SUFFICES ASSUME OneCommand PROVE Spec => []GoneInv OBVIOUS
  <1>1. Init => GoneInv BY InitGone
  <1>2. GoneInv /\ [Next]_vars => GoneInv' BY NextGone
  <1> QED BY <1>1, <1>2, PTL DEF Spec

\* A lab without a state file has no container and no bridge left that a
\* command could have known: up's rollback and down leave all or nothing.
THEOREM ForgottenLabsAreEmpty == OneCommand => (Spec => []ForgottenLabIsEmpty)
  <1> SUFFICES ASSUME OneCommand PROVE Spec => []ForgottenLabIsEmpty OBVIOUS
  <1>1. GoneInv => ForgottenLabIsEmpty
    <2> SUFFICES ASSUME GoneInv, Quiescent, stateFile = None
                 PROVE  containers \subseteq lost.containers /\ bridges \subseteq lost.bridges
      BY DEF ForgottenLabIsEmpty
    <2>1. PICK p \in Procs : Procs = {p} BY DEF OneCommand
    <2>2. /\ AccountOf(p) /\ GoneOK(proc[p]) /\ HoldsOK(proc[p])
          /\ proc[p].pc = "idle"
      BY GoneOne DEF GoneOf, TypeOK, ProcsOK, Quiescent, At
    <2>3. bridges \subseteq lost.bridges
      BY <2>2, NoSnapshot DEF Recorded, IsLegacy
    <2> QED BY <2>2, <2>3 DEF GoneOK, HoldsOK
  <1> QED BY <1>1, GoneHolds, PTL

\* The state file goes only by state.Remove after a cleanup that saw no error.
LEMMA OnlyEraseForgets ==
  ASSUME OneCommand, GoneInv, [Next]_vars, stateFile # None, stateFile' = None
  PROVE  \E p \in Procs : /\ GoneOf(p) /\ EraseState(p) /\ ~proc[p].err
                          /\ ~proc[p].rollback /\ AfterCleanup(p)
  <1>1. PICK p \in Procs : Step(p)
    BY DEF Next, vars, Cancel, Kill, Begin, EditYaml, OperatorRemove, disk
  <1>2. GoneOf(p) BY GoneOne
  <1>3. HoldsOK(proc[p]) /\ KnowsOK(proc[p])
    BY <1>2 DEF GoneOf, AccountOf, TypeOK, ProcsOK
  <1>4. ~Purge(p) BY <1>3 DEF Purge, At, KnowsOK
  <1>5. ~Commit(p) /\ ~SaveInventory(p) /\ ~WriteMigrated(p)
    BY <1>3, NoneAssumption DEF Commit, SaveInventory, WriteMigrated, At, HoldsOK, disk
  <1>6. EraseState(p)
    BY <1>1, <1>4, <1>5
    DEF Step, StatState, ListExisting, OpenSnapshot, CreateContainer, BootContainer,
        EnsureBridge, AttachMember, AttachP2P, Attach, ConfigureRouters, ReadState,
        ListLabelled, RemoveContainer, DeleteVeths, DeleteBridge, ReadLegacy, disk
  <1>7. ~proc[p].err /\ AfterCleanup(p) BY <1>6 DEF EraseState
  <1>8. ~proc[p].rollback BY <1>3 DEF KnowsOK
  <1> QED BY <1>2, <1>6, <1>7, <1>8

\* A failed cleanup keeps its inventory: the file goes only with the lab.
THEOREM ErasedLabsAreClean == OneCommand => (Spec => StateErasedOnlyWhenClean)
  <1> SUFFICES ASSUME OneCommand PROVE Spec => StateErasedOnlyWhenClean OBVIOUS
  <1>1. ASSUME GoneInv, [Next]_vars, stateFile # None, stateFile' = None
        PROVE  containers' = {} /\ Recorded(stateFile) \cap bridges' = {}
    <2>1. PICK p \in Procs : /\ GoneOf(p) /\ EraseState(p) /\ ~proc[p].err
                             /\ ~proc[p].rollback
      BY <1>1, OnlyEraseForgets
    <2>2. /\ containers' = containers /\ bridges' = bridges
          /\ proc[p].pc = "bridges" /\ proc[p].todoBridges = {}
      BY <2>1 DEF EraseState, At, host
    <2>3. containers = {} BY <2>1, <2>2 DEF GoneOf, GoneOK
    <2>4. proc[p].snapshot = stateFile /\ Recorded(stateFile) = stateFile.bridges
      BY <1>1, <2>1, <2>2, CleanupFacts DEF GoneOf
    <2>5. stateFile.bridges \cap bridges = {}
      BY <1>1, <2>1, <2>2, <2>4 DEF GoneOf, AccountOf, KnowsOK
    <2> QED BY <2>2, <2>3, <2>4, <2>5
  <1> QED BY <1>1, GoneHolds, PTL DEF Spec, StateErasedOnlyWhenClean

\* The generated configuration goes only after the containers that mount it.
THEOREM PurgesAreLate == OneCommand => (Spec => PurgeOnlyWhenStopped)
  <1> SUFFICES ASSUME OneCommand PROVE Spec => PurgeOnlyWhenStopped OBVIOUS
  <1>1. ASSUME GoneInv, [Next]_vars, labDir, ~labDir'
        PROVE  containers = {} /\ stateFile = None
    <2>1. PICK p \in Procs : Step(p)
      BY <1>1 DEF Next, vars, Cancel, Kill, Begin, EditYaml, OperatorRemove, disk
    <2>2. Purge(p)
      BY <1>1, <2>1
      DEF Step, StatState, ListExisting, OpenSnapshot, CreateContainer, BootContainer,
          EnsureBridge, AttachMember, AttachP2P, Attach, ConfigureRouters, Commit,
          ReadState, ListLabelled, RemoveContainer, DeleteVeths, DeleteBridge,
          EraseState, SaveInventory, ReadLegacy, WriteMigrated, disk
    <2>3. /\ proc[p].pc = "purge" /\ KnowsOK(proc[p]) /\ GoneOK(proc[p])
          /\ HoldsOK(proc[p])
      BY <1>1, <2>2, GoneOne DEF GoneOf, AccountOf, TypeOK, ProcsOK, Purge, At
    <2>4. ~proc[p].rollback BY <2>3 DEF HoldsOK
    <2> QED BY <2>3, <2>4 DEF KnowsOK, GoneOK
  <1> QED BY <1>1, GoneHolds, PTL DEF Spec, PurgeOnlyWhenStopped

-----------------------------------------------------------------------------
(* The contract.                                                           *)

LEMMA TheCommandFact ==
  ASSUME OneCommand, NEW p \in Procs
  PROVE  TheCommand = proc[p].cmd /\ TheCommand' = proc'[p].cmd
  BY DEF OneCommand, TheCommand

\* The status is a matter of the state file and the unknown containers.
LEMMA StatusFacts ==
  LabStatus = IF stateFile = None
              THEN IF lost.containers = {} THEN "absent" ELSE "unknown"
              ELSE IF stateFile.legacy THEN "legacy" ELSE "recorded"
  BY DEF LabStatus, IsLegacy

LEMMA StatusFactsNext ==
  LabStatus' = IF stateFile' = None
               THEN IF lost'.containers = {} THEN "absent" ELSE "unknown"
               ELSE IF stateFile'.legacy THEN "legacy" ELSE "recorded"
  BY DEF LabStatus, IsLegacy

\* A step keeps the command and the topology it was given, or ends it.
SameCommand(p) == proc'[p].cmd = proc[p].cmd /\ proc'[p].topo = proc[p].topo

LEMMA StepKeepsCommand ==
  ASSUME TypeOK, NEW p \in Procs, Step(p)
  PROVE  proc'[p] = Idle \/ SameCommand(p)
  <1>1. proc[p] \in Process BY DEF TypeOK, ProcsOK
  <1>2. CASE End(p) BY <1>2, EndFact
  <1>3. ASSUME NEW step, Goto(p, step) PROVE SameCommand(p)
    BY <1>1, <1>3, BecomeFact DEF Goto, SameCommand, Process
  <1>4. ASSUME NEW s, RollBack(p, s) PROVE SameCommand(p)
    BY <1>1, <1>4, BecomeFact, ZenonT(60) DEF RollBack, SameCommand, Process
  <1>5. ASSUME NEW step, Resume(p, step) PROVE SameCommand(p)
    BY <1>1, <1>5, BecomeFact, ZenonT(60) DEF Resume, Idle, SameCommand
  <1>6. CASE StatState(p) \/ ListExisting(p) \/ ConfigureRouters(p) \/ Commit(p)
             \/ SaveInventory(p) \/ Purge(p) \/ WriteMigrated(p)
    BY <1>2, <1>3, <1>4, <1>6
       DEF StatState, ListExisting, ConfigureRouters, Commit, SaveInventory, Purge,
           WriteMigrated
  <1>7. CASE OpenSnapshot(p) /\ ~End(p)
    <2>1. \E s : proc'[p] = [proc[p] EXCEPT !.pc = "create", !.r = 1, !.l = 1, !.m = 0,
                                            !.snapshot = s]
      BY <1>7, BecomeFact DEF OpenSnapshot
    <2> QED BY <1>1, <2>1 DEF SameCommand, Process
  <1>8. CASE CreateContainer(p)
    <2>1. \/ RollBack(p, proc[p].snapshot)
          \/ \E s : Become(p, [proc[p] EXCEPT !.pc = "boot", !.snapshot = s])
      BY <1>8 DEF CreateContainer
    <2>2. ASSUME NEW s, Become(p, [proc[p] EXCEPT !.pc = "boot", !.snapshot = s])
          PROVE  SameCommand(p)
      BY <1>1, <2>2, BecomeFact, ZenonT(60) DEF SameCommand, Process
    <2> QED BY <1>4, <2>1, <2>2
  <1>9. CASE BootContainer(p)
    <2>1. \/ RollBack(p, proc[p].snapshot)
          \/ proc'[p] = [proc[p] EXCEPT !.pc = "create", !.r = @ + 1]
          \/ Goto(p, "links")
      BY <1>9, BecomeFact DEF BootContainer
    <2> QED BY <1>1, <1>3, <1>4, <2>1 DEF SameCommand, Process
  <1>10. CASE EnsureBridge(p)
    <2>1. \E s : \/ RollBack(p, s)
                 \/ Become(p, [proc[p] EXCEPT !.snapshot = s, !.m = 1])
      BY <1>10 DEF EnsureBridge
    <2>2. ASSUME NEW s, Become(p, [proc[p] EXCEPT !.snapshot = s, !.m = 1])
          PROVE  SameCommand(p)
      BY <1>1, <2>2, BecomeFact, ZenonT(60) DEF SameCommand, Process
    <2> QED BY <1>4, <2>1, <2>2
  <1>11. CASE AttachMember(p) \/ AttachP2P(p)
    <2>1. RollBack(p, proc[p].snapshot) \/ NextMember(p)
      BY <1>11 DEF AttachMember, AttachP2P, Attach
    <2>2. ASSUME NextMember(p) PROVE SameCommand(p)
      BY <1>1, <2>2, BecomeFact, ZenonT(60) DEF NextMember, SameCommand, Process
    <2> QED BY <1>4, <2>1, <2>2
  <1>12. CASE ReadState(p) /\ ~End(p)
    <2>1. proc'[p] = [proc[p] EXCEPT !.pc = "list", !.snapshot = stateFile]
      BY <1>12, BecomeFact DEF ReadState
    <2> QED BY <1>1, <2>1 DEF SameCommand, Process
  <1>13. CASE ListLabelled(p) /\ ~End(p)
    <2>1. \E s, e : Become(p, [proc[p] EXCEPT !.pc = "remove", !.err = e, !.todo = s])
      <3>1. \E s : \/ Become(p, [proc[p] EXCEPT !.pc = "remove", !.todo = s])
                   \/ Become(p, [proc[p] EXCEPT !.pc = "remove", !.err = TRUE, !.todo = s])
        BY <1>13 DEF ListLabelled
      <3>2. \A s : [proc[p] EXCEPT !.pc = "remove", !.todo = s]
                     = [proc[p] EXCEPT !.pc = "remove", !.err = proc[p].err, !.todo = s]
        BY <1>1 DEF Process
      <3> QED BY <3>1, <3>2
    <2>2. ASSUME NEW s, NEW e,
                 Become(p, [proc[p] EXCEPT !.pc = "remove", !.err = e, !.todo = s])
          PROVE  SameCommand(p)
      BY <1>1, <2>2, BecomeFact, ZenonT(60) DEF SameCommand, Process
    <2> QED BY <2>1, <2>2
  <1>14. CASE RemoveContainer(p)
    <2>1. PICK c \in proc[p].todo :
            \/ Become(p, [proc[p] EXCEPT !.todo = @ \ {c}])
            \/ Become(p, [[proc[p] EXCEPT !.todo = @ \ {c}] EXCEPT !.err = TRUE])
      BY <1>14 DEF RemoveContainer
    <2>2. \/ proc'[p] = [proc[p] EXCEPT !.todo = @ \ {c}]
          \/ proc'[p] = [[proc[p] EXCEPT !.todo = @ \ {c}] EXCEPT !.err = TRUE]
      BY <2>1, BecomeFact
    <2> QED BY <1>1, <2>2 DEF SameCommand, Process
  <1>15. CASE DeleteVeths(p)
    <2>1. \E s : \/ Become(p, [proc[p] EXCEPT !.pc = "bridges", !.todoBridges = s])
                 \/ Become(p, [[proc[p] EXCEPT !.pc = "bridges", !.todoBridges = s]
                                 EXCEPT !.err = TRUE])
      BY <1>15 DEF DeleteVeths
    <2>2. ASSUME NEW s, \/ Become(p, [proc[p] EXCEPT !.pc = "bridges", !.todoBridges = s])
                        \/ Become(p, [[proc[p] EXCEPT !.pc = "bridges", !.todoBridges = s]
                                        EXCEPT !.err = TRUE])
          PROVE  SameCommand(p)
      BY <1>1, <2>2, BecomeFact, ZenonT(60) DEF SameCommand, Process
    <2> QED BY <2>1, <2>2
  <1>16. CASE DeleteBridge(p)
    <2>1. PICK name \in proc[p].todoBridges :
            \/ Become(p, [proc[p] EXCEPT !.todoBridges = @ \ {name}])
            \/ Become(p, [[proc[p] EXCEPT !.todoBridges = @ \ {name}] EXCEPT !.err = TRUE])
      BY <1>16 DEF DeleteBridge
    <2> QED BY <1>1, <2>1, BecomeFact, ZenonT(60) DEF SameCommand, Process
  <1>17. CASE EraseState(p)
    <2>1. AfterCleanup(p) \/ KeepInventory(p) BY <1>17 DEF EraseState
    <2> QED BY <1>2, <1>3, <1>5, <2>1 DEF AfterCleanup, KeepInventory
  <1>18. CASE ReadLegacy(p) /\ ~End(p)
    <2>1. \E s : Become(p, [proc[p] EXCEPT !.pc = "write", !.snapshot = s])
      BY <1>18 DEF ReadLegacy
    <2>2. ASSUME NEW s, Become(p, [proc[p] EXCEPT !.pc = "write", !.snapshot = s])
          PROVE  SameCommand(p)
      BY <1>1, <2>2, BecomeFact, ZenonT(60) DEF SameCommand, Process
    <2> QED BY <2>1, <2>2
  <1> QED BY <1>2, <1>6, <1>7, <1>8, <1>9, <1>10, <1>11, <1>12, <1>13, <1>14, <1>15,
             <1>16, <1>17, <1>18 DEF Step

LEMMA StepEndsOrKeeps ==
  ASSUME TypeOK, NEW p \in Procs, Step(p)
  PROVE  proc'[p].cmd \in {proc[p].cmd, "none"}
  BY StepKeepsCommand, IdleFacts DEF SameCommand

\* A step that changes neither the state file nor what is unknown.
LEMMA QuietStep ==
  ASSUME OneCommand, NEW p \in Procs,
         stateFile' = stateFile, lost'.containers = lost.containers,
         proc'[p].cmd \in {proc[p].cmd, "none"}
  PROVE  [Lab!ContractNext]_(Lab!contractVars)
  <1>1. LabStatus' = LabStatus BY DEF LabStatus, IsLegacy
  <1>2. TheCommand' \in {TheCommand, "none"} BY TheCommandFact
  <1> QED BY <1>1, <1>2 DEF Lab!ContractNext, Lab!Quit, Lab!contractVars

LEMMA CommitIsPublish ==
  ASSUME OneCommand, NEW p \in Procs, GoneOf(p), Commit(p) \/ SaveInventory(p)
  PROVE  [Lab!ContractNext]_(Lab!contractVars)
  <1>1. /\ TypeOK /\ CommandOK(proc[p]) /\ KnowsOK(proc[p]) /\ HoldsOK(proc[p])
    BY DEF GoneOf, AccountOf, TypeOK, ProcsOK
  <1>2. /\ proc[p].pc \in {"commit", "save"} /\ proc[p].snapshot \in Inventory
        /\ proc[p].cmd \in {"up", "recreate"}
        /\ stateFile = None /\ lost.containers = {} /\ proc[p].snapshot # None
        /\ ~proc[p].snapshot.legacy
    BY <1>1, NoneAssumption DEF Commit, SaveInventory, At, HoldsOK, KnowsOK, CommandOK, UpSteps
  <1>3. LabStatus = "absent" BY <1>2, StatusFacts
  <1>4. TheCommand = proc[p].cmd /\ TheCommand' = proc'[p].cmd BY TheCommandFact
  <1>5. CASE stateFile' = proc[p].snapshot /\ End(p)
    <2>1. LabStatus' = "recorded" BY <1>2, <1>5, StatusFactsNext
    <2>2. TheCommand' = "none" BY <1>1, <1>4, <1>5, EndFact, IdleFacts
    <2> QED BY <1>2, <1>3, <1>4, <2>1, <2>2 DEF Lab!ContractNext, Lab!Publish
  <1>6. CASE Commit(p) /\ stateFile' = stateFile
    <2>1. lost' = lost BY <1>6 DEF Commit
    <2>2. Step(p) BY DEF Step
    <2> QED BY <1>1, <1>6, <2>1, <2>2, StepEndsOrKeeps, QuietStep
  <1>7. CASE SaveInventory(p) /\ stateFile' = stateFile /\ End(p)
    <2>1. LabStatus' \in {"absent", "unknown"} BY <1>2, <1>7, StatusFactsNext
    <2>2. TheCommand' = "none" BY <1>1, <1>4, <1>7, EndFact, IdleFacts
    <2> QED BY <1>2, <1>3, <1>4, <2>1, <2>2 DEF Lab!ContractNext, Lab!Lose, Lab!Quit
  <1> QED BY <1>5, <1>6, <1>7 DEF Commit, SaveInventory, disk

LEMMA EraseIsErase ==
  ASSUME OneCommand, NEW p \in Procs, GoneOf(p), EraseState(p)
  PROVE  [Lab!ContractNext]_(Lab!contractVars)
  <1>1. TypeOK /\ AccountOf(p) /\ proc[p].pc = "bridges"
    BY DEF GoneOf, EraseState, At
  <1>2. Step(p) /\ lost' = lost BY DEF Step, EraseState
  <1>3. CASE stateFile' = stateFile
    BY <1>1, <1>2, <1>3, StepEndsOrKeeps, QuietStep
  <1>4. CASE stateFile' # stateFile
    <2>1. stateFile # None /\ stateFile' = None /\ AfterCleanup(p)
      BY <1>4 DEF EraseState
    <2>2. /\ ~proc[p].rollback /\ proc[p].snapshot = stateFile /\ ~stateFile.legacy
          /\ proc[p].cmd \in {"recreate", "down", "purge"} /\ lost.containers = {}
      BY <1>1, <2>1, CleanupFacts
    <2>3. LabStatus = "recorded" /\ LabStatus' = "absent"
      BY <1>2, <2>1, <2>2, StatusFacts, StatusFactsNext
    <2>4. proc'[p].cmd = IF proc[p].cmd = "down" THEN "none" ELSE proc[p].cmd
      <3>1. CASE proc[p].cmd = "down"
        BY <1>1, <2>1, <2>2, <3>1, EndFact, IdleFacts DEF AfterCleanup
      <3>2. CASE proc[p].cmd \in {"recreate", "purge"}
        <4>1. Resume(p, "mkdir") \/ Resume(p, "purge")
          BY <2>1, <2>2, <3>2 DEF AfterCleanup
        <4>2. \E step : proc'[p] = [Idle EXCEPT !.pc = step, !.cmd = proc[p].cmd,
                          !.topo = proc[p].topo, !.cancelled = proc[p].cancelled]
          BY <1>1, <4>1, BecomeFact DEF Resume
        <4> QED BY <3>2, <4>2 DEF Idle
      <3> QED BY <2>2, <3>1, <3>2
    <2> QED BY <2>2, <2>3, <2>4, TheCommandFact DEF Lab!ContractNext, Lab!Erase
  <1> QED BY <1>3, <1>4

LEMMA WriteIsMigrate ==
  ASSUME OneCommand, NEW p \in Procs, GoneOf(p), WriteMigrated(p)
  PROVE  [Lab!ContractNext]_(Lab!contractVars)
  <1>1. /\ TypeOK /\ CommandOK(proc[p]) /\ KnowsOK(proc[p]) /\ HoldsOK(proc[p])
        /\ proc[p].pc = "write"
    BY DEF GoneOf, AccountOf, TypeOK, ProcsOK, WriteMigrated, At
  <1>2. /\ proc[p].snapshot # None /\ ~proc[p].snapshot.legacy
        /\ IsLegacy(stateFile) /\ proc[p].cmd = "migrate"
    BY <1>1, NoneAssumption DEF HoldsOK, KnowsOK, CommandOK
  <1>3. Step(p) /\ lost' = lost BY DEF Step, WriteMigrated
  <1>4. CASE stateFile' = stateFile
    BY <1>1, <1>3, <1>4, StepEndsOrKeeps, QuietStep
  <1>5. CASE stateFile' = proc[p].snapshot /\ End(p)
    <2>1. LabStatus = "legacy" BY <1>2, StatusFacts DEF IsLegacy
    <2>2. LabStatus' = "recorded" BY <1>2, <1>5, StatusFactsNext
    <2>3. TheCommand = "migrate" /\ TheCommand' = "none"
      BY <1>1, <1>2, <1>5, TheCommandFact, EndFact, IdleFacts
    <2> QED BY <2>1, <2>2, <2>3 DEF Lab!ContractNext, Lab!Migrate
  <1> QED BY <1>4, <1>5 DEF WriteMigrated, disk

LEMMA KillIsLose ==
  ASSUME OneCommand, NEW p \in Procs, GoneOf(p), Kill(p)
  PROVE  [Lab!ContractNext]_(Lab!contractVars)
  <1>1. /\ TypeOK /\ AccountOf(p) /\ GoneOK(proc[p]) /\ CommandOK(proc[p])
        /\ KnowsOK(proc[p]) /\ proc[p].pc # "idle"
    BY DEF GoneOf, AccountOf, Kill, At
  <1>2. /\ stateFile' = stateFile /\ containers' = containers /\ End(p) /\ Forget
    BY DEF Kill, host, disk
  <1>3. proc'[p].cmd = "none" BY <1>1, <1>2, EndFact, IdleFacts
  <1>4. CASE stateFile # None
    BY <1>2, <1>3, <1>4, QuietStep DEF Forget
  <1>5. CASE stateFile = None
    <2>1. lost'.containers = containers BY <1>2, <1>5 DEF Forget
    <2>2. CASE \/ proc[p].rollback
               \/ proc[p].pc \in {"create", "boot", "links", "commit", "save"}
      <3>1. /\ proc[p].cmd \in {"up", "recreate"} /\ lost.containers = {}
        BY <1>1, <2>2 DEF CommandOK, KnowsOK, UpSteps
      <3>2. LabStatus = "absent" /\ LabStatus' \in {"absent", "unknown"}
        BY <1>2, <1>5, <3>1, StatusFacts, StatusFactsNext
      <3> QED BY <1>3, <3>1, <3>2, TheCommandFact
              DEF Lab!ContractNext, Lab!Lose, Lab!Quit
    <2>3. CASE /\ ~proc[p].rollback
               /\ proc[p].pc \notin {"create", "boot", "links", "commit", "save"}
      <3>1. containers = lost.containers
        BY <1>1, <1>5, <2>3 DEF GoneOK, AccountOf
      <3> QED BY <1>2, <1>3, <2>1, <3>1, QuietStep
    <2> QED BY <2>2, <2>3
  <1> QED BY <1>4, <1>5

LEMMA BeginIsGive ==
  ASSUME OneCommand, NEW p \in Procs, NEW cmd \in Commands, GoneOf(p), Begin(p, cmd)
  PROVE  [Lab!ContractNext]_(Lab!contractVars)
  <1>1. TypeOK /\ CommandOK(proc[p]) /\ proc[p].pc = "idle"
    BY DEF GoneOf, AccountOf, Begin, At
  <1>2. proc'[p] = [Idle EXCEPT !.pc = FirstStep(cmd), !.cmd = cmd, !.topo = yaml]
    BY <1>1, BecomeFact DEF Begin
  <1>3. proc'[p].cmd = cmd /\ proc[p].cmd = "none" BY <1>1, <1>2 DEF Idle, CommandOK
  <1>4. LabStatus' = LabStatus BY DEF Begin, disk, LabStatus, IsLegacy
  <1> QED BY <1>3, <1>4, TheCommandFact DEF Lab!ContractNext, Lab!Give

LEMMA UserIsClean ==
  ASSUME OneCommand, NEW p \in Procs, GoneOf(p), EditYaml \/ OperatorRemove
  PROVE  [Lab!ContractNext]_(Lab!contractVars)
  <1>1. /\ TypeOK /\ AccountOf(p) /\ proc[p].pc = "idle" /\ CommandOK(proc[p])
    BY DEF GoneOf, AccountOf, EditYaml, OperatorRemove, Quiescent, At
  <1>2. stateFile' = stateFile /\ proc'[p].cmd = "none" /\ proc[p].cmd = "none"
    BY <1>1 DEF EditYaml, OperatorRemove, disk, CommandOK
  <1>3. CASE EditYaml BY <1>2, <1>3, QuietStep DEF EditYaml
  <1>4. CASE OperatorRemove
    <2>1. lost.containers # {} BY <1>4 DEF OperatorRemove
    <2>2. stateFile = None BY <1>1, <2>1 DEF AccountOf
    <2>3. LabStatus = "unknown" /\ LabStatus' \in {"absent", "unknown"}
      BY <1>2, <2>1, <2>2, StatusFacts, StatusFactsNext
    <2> QED BY <1>2, <2>3, TheCommandFact
            DEF Lab!ContractNext, Lab!Clean, Lab!contractVars
  <1> QED BY <1>3, <1>4

LEMMA NextIsContract ==
  ASSUME OneCommand, GoneInv, [Next]_vars
  PROVE  [Lab!ContractNext]_(Lab!contractVars)
  <1>1. PICK p \in Procs : Procs = {p} BY DEF OneCommand
  <1>2. GoneOf(p) /\ TypeOK BY GoneOne DEF GoneOf
  <1>3. CASE Step(p)
    <2>1. CASE \/ Commit(p) \/ SaveInventory(p) \/ EraseState(p) \/ WriteMigrated(p)
      BY <1>2, <2>1, CommitIsPublish, EraseIsErase, WriteIsMigrate
    <2>2. CASE ~(\/ Commit(p) \/ SaveInventory(p) \/ EraseState(p) \/ WriteMigrated(p))
      <3>1. stateFile' = stateFile
        <4>1. CASE Purge(p)
          BY <1>2, <4>1 DEF Purge, At, GoneOf, AccountOf, KnowsOK, disk
        <4> QED BY <1>3, <2>2, <4>1
              DEF Step, StatState, ListExisting, OpenSnapshot, CreateContainer,
                  BootContainer, EnsureBridge, AttachMember, AttachP2P, Attach,
                  ConfigureRouters, ReadState, ListLabelled, RemoveContainer,
                  DeleteVeths, DeleteBridge, ReadLegacy, disk
      <3>2. \/ lost' = lost
            \/ \E s : lost' = [lost EXCEPT !.bridges = s]
            \/ \E s : lost' = [lost EXCEPT !.pairs = s]
        BY <1>3, <2>2
           DEF Step, StatState, ListExisting, OpenSnapshot, CreateContainer,
               BootContainer, EnsureBridge, AttachMember, AttachP2P, Attach,
               ConfigureRouters, ReadState, ListLabelled, RemoveContainer,
               DeleteVeths, DeleteBridge, Purge, ReadLegacy
      <3>3. lost'.containers = lost.containers
        BY <1>2, <3>2 DEF TypeOK, SharedTypeOK
      <3> QED BY <1>2, <1>3, <3>1, <3>3, StepEndsOrKeeps, QuietStep
    <2> QED BY <2>1, <2>2
  <1>4. CASE Kill(p) BY <1>2, <1>4, KillIsLose
  <1>5. CASE Cancel(p)
    <2>1. proc'[p] = [proc[p] EXCEPT !.cancelled = TRUE] BY <1>2, <1>5, BecomeFact DEF Cancel
    <2>2. proc'[p].cmd = proc[p].cmd BY <1>2, <2>1 DEF TypeOK, ProcsOK, Process
    <2> QED BY <1>5, <2>2, QuietStep DEF Cancel, disk
  <1>6. CASE \E cmd \in Commands : Begin(p, cmd) BY <1>2, <1>6, BeginIsGive
  <1>7. CASE EditYaml \/ OperatorRemove BY <1>2, <1>7, UserIsClean
  <1>8. CASE UNCHANGED vars
    BY <1>8 DEF vars, Lab!contractVars, LabStatus, IsLegacy, TheCommand
  <1> QED BY <1>1, <1>3, <1>4, <1>5, <1>6, <1>7, <1>8 DEF Next

\* Every step of the commands, one at a time, is a step of the contract or
\* none, whatever fails and whenever a command is cancelled or killed.
THEOREM LabImplementsContract == OneCommand => (Spec => KeepsContract)
  <1> SUFFICES ASSUME OneCommand PROVE Spec => KeepsContract OBVIOUS
  <1>1. Init => Lab!Start
    <2> SUFFICES ASSUME Init PROVE Lab!Start OBVIOUS
    <2>1. PICK p \in Procs : Procs = {p} BY DEF OneCommand
    <2>2. GoneOf(p) /\ AccountOf(p) BY InitGone, GoneOne DEF GoneOf
    <2>3. TheCommand = "none" BY <2>1, TheCommandFact, IdleFacts DEF Init
    <2>4. LabStatus \in {"absent", "recorded", "legacy"}
      BY StatusFacts DEF Init
    <2> QED BY <2>3, <2>4 DEF Lab!Start
  <1>2. GoneInv /\ [Next]_vars => [Lab!ContractNext]_(Lab!contractVars)
    BY NextIsContract
  <1> QED BY <1>1, <1>2, GoneHolds, PTL DEF Spec, KeepsContract, Lab!Contract

-----------------------------------------------------------------------------
(* NetworkInv, for the one command there is.                               *)

PairsAreOfTopology == edits = 0 => HostPairs \subseteq TopologyPairs(yaml)

NetOf(p) == /\ GoneOf(p) /\ PairsAreOfTopology
            /\ PairsOK(proc[p]) /\ BuiltOK(proc[p])

LEMMA NetOne ==
  ASSUME OneCommand, NEW p \in Procs PROVE NetworkInv <=> NetOf(p)
  BY GoneOne DEF OneCommand, NetworkInv, NetOf, PairsAreOfTopology

LEMMA NetOneNext ==
  ASSUME OneCommand, NEW p \in Procs PROVE NetworkInv' <=> NetOf(p)'
  BY GoneOneNext DEF OneCommand, NetworkInv, NetOf, PairsAreOfTopology

-----------------------------------------------------------------------------
(* Veth pairs in the host's namespace.                                     *)

\* Pairs only vanish where no veth pair is made.
LEMMA FewerPairs ==
  ASSUME veths' \subseteq veths PROVE HostPairs' \subseteq HostPairs
  BY DEF HostPairs, InHost

\* What up attaches is a pair of the topology it was given.
LEMMA PairIsOfTopology ==
  ASSUME NEW t \in Topologies, NEW i \in 1..Len(t.links)
  PROVE  PairsOf(t.links[i]) \subseteq TopologyPairs(t)
  <1>1. i \in DOMAIN t.links BY TopologyFacts
  <1> QED BY <1>1 DEF TopologyPairs, Links

LEMMA AttachedPairs ==
  ASSUME TypeOK, NEW p \in Procs, AttachMember(p) \/ AttachP2P(p)
  PROVE  HostPairs' \subseteq HostPairs \cup TopologyPairs(proc[p].topo)
  <1>1. At(p, "links") /\ MoreLinks(p) BY DEF AttachMember, AttachP2P
  <1>2. proc[p].topo \in Topologies /\ proc[p].l \in 1..Len(proc[p].topo.links)
    BY <1>1, LinksFacts
  <1>3. proc[p].m > 0 => proc[p].m \in DOMAIN Link(p).members
    BY <1>1, LinksFacts DEF Process
  <1>4. ASSUME NEW pair \in PairsOf(Link(p)), NEW stages, NEW ready,
               Attach(p, pair, stages, ready)
        PROVE  HostPairs' \subseteq HostPairs \cup TopologyPairs(proc[p].topo)
    <2>1. \/ veths' = veths
          \/ \E v : v.pair = pair /\ veths' = veths \cup {v}
      BY <1>4 DEF Attach
    <2>2. pair \in TopologyPairs(proc[p].topo) BY <1>2, PairIsOfTopology DEF Link
    <2> QED BY <2>1, <2>2 DEF HostPairs, InHost
  <1>5. CASE AttachMember(p)
    <2>1. <<Link(p).name, Link(p).members[proc[p].m]>> \in PairsOf(Link(p))
      BY <1>3, <1>5 DEF AttachMember, PairsOf
    <2> QED BY <1>4, <1>5, <2>1 DEF AttachMember
  <1>6. CASE AttachP2P(p)
    <2>1. <<Link(p).name, "p2p">> \in PairsOf(Link(p)) BY <1>6 DEF AttachP2P, PairsOf
    <2> QED BY <1>4, <1>6, <2>1 DEF AttachP2P
  <1> QED BY <1>5, <1>6

-----------------------------------------------------------------------------
(* Each action keeps what is known of the pairs.                           *)

\* Only up's attachments make pairs, and no command changes the YAML.
LEMMA StepPairs ==
  ASSUME TypeOK, NEW p \in Procs, Step(p)
  PROVE  /\ yaml' = yaml /\ edits' = edits
         /\ HostPairs' \subseteq HostPairs \cup TopologyPairs(proc[p].topo)
  <1>1. yaml' = yaml /\ edits' = edits
    BY DEF Step, StatState, ListExisting, OpenSnapshot, CreateContainer, BootContainer,
           EnsureBridge, AttachMember, AttachP2P, Attach, ConfigureRouters, Commit,
           ReadState, ListLabelled, RemoveContainer, DeleteVeths, DeleteBridge,
           EraseState, SaveInventory, Purge, ReadLegacy, WriteMigrated, user
  <1>2. veths' \subseteq veths \/ AttachMember(p) \/ AttachP2P(p)
    BY DEF Step, StatState, ListExisting, OpenSnapshot, CreateContainer, BootContainer,
           EnsureBridge, ConfigureRouters, Commit, ReadState, ListLabelled,
           RemoveContainer, WithoutContainer, DeleteVeths, DeleteBridge, EraseState,
           SaveInventory, Purge, ReadLegacy, WriteMigrated, host
  <1> QED BY <1>1, <1>2, FewerPairs, AttachedPairs

LEMMA EndPairs ==
  ASSUME TypeOK, NEW p \in Procs, End(p),
         edits' = 0 /\ stateFile' = None => HostPairs' \subseteq lost'.pairs
  PROVE  PairsOK(proc[p])' /\ BuiltOK(proc[p])'
  BY EndFact, IdleFacts DEF PairsOK, BuiltOK

\* A step of a command that goes on with the topology it was given.
LEMMA SamePairs ==
  ASSUME NEW p \in Procs, PairsOK(proc[p]), proc[p].pc # "idle",
         SameCommand(p) \/ proc'[p] = Idle, yaml' = yaml, edits' = edits,
         edits = 0 /\ stateFile' = None /\ ~proc'[p].rollback
           /\ proc'[p].pc \notin {"create", "boot", "links", "commit", "save"}
           => HostPairs' \subseteq lost'.pairs,
         edits = 0 /\ proc'[p].pc = "bridges" /\ proc'[p].snapshot # None /\ ~proc'[p].err
           => HostPairs' = {}
  PROVE  PairsOK(proc[p])'
  BY IdleFacts DEF PairsOK, SameCommand

LEMMA SameCleanup ==
  ASSUME NEW p \in Procs, PairsOK(proc[p]), proc[p].pc # "idle",
         SameCommand(p) \/ proc'[p] = Idle, yaml' = yaml, edits' = edits,
         proc'[p].pc \in {"idle", "remove", "bridges", "save", "mkdir", "purge"},
         proc'[p].pc = "save" => proc'[p].rollback,
         edits = 0 /\ stateFile' = None /\ ~proc'[p].rollback /\ proc'[p].pc # "save"
           => HostPairs' \subseteq lost'.pairs,
         edits = 0 /\ proc'[p].pc = "bridges" /\ proc'[p].snapshot # None /\ ~proc'[p].err
           => HostPairs' = {}
  PROVE  PairsOK(proc[p])' /\ BuiltOK(proc[p])'
  BY SamePairs DEF BuiltOK

LEMMA BuildStepsPairs ==
  ASSUME NEW p \in Procs, NetOf(p),
         \/ CreateContainer(p) \/ BootContainer(p) \/ EnsureBridge(p)
         \/ AttachMember(p) \/ AttachP2P(p) \/ ConfigureRouters(p) \/ Commit(p)
  PROVE  PairsOK(proc[p])'
  <1>1. TypeOK /\ HoldsOK(proc[p]) /\ PairsOK(proc[p]) /\ Step(p)
    BY DEF NetOf, GoneOf, TypeOK, ProcsOK, Step
  <1>2. proc[p].pc # "idle"
    BY DEF CreateContainer, BootContainer, EnsureBridge, AttachMember, AttachP2P,
           ConfigureRouters, Commit, At
  <1>3. CASE Building(p)'
    BY <1>1, <1>2, <1>3, StepPairs, StepKeepsCommand, SamePairs DEF Building
  <1>4. CASE Commit(p) /\ End(p) /\ stateFile' = proc[p].snapshot
    <2>1. stateFile' # None BY <1>1, <1>4, NoneAssumption DEF Commit, At, HoldsOK
    <2> QED BY <1>1, <1>4, <2>1, EndPairs
  <1> QED BY <1>1, <1>3, <1>4, BuildStepsBuild

LEMMA OuterStepsPairs ==
  ASSUME NEW p \in Procs, NetOf(p), OuterStep(p) PROVE PairsOK(proc[p])'
  <1>1. GoneOf(p) /\ TypeOK /\ PairsOK(proc[p]) BY DEF NetOf, GoneOf
  <1>2. HostPairs' = HostPairs BY <1>1, OuterFacts DEF HostPairs, InHost
  <1>3. edits = 0 /\ stateFile = None => HostPairs \subseteq lost.pairs
    BY <1>1, OuterFacts DEF PairsOK
  <1>4. ASSUME NEW cmd \in Commands, Begin(p, cmd) PROVE PairsOK(proc[p])'
    <2>1. proc'[p] = [Idle EXCEPT !.pc = FirstStep(cmd), !.cmd = cmd, !.topo = yaml]
      BY <1>1, <1>4, BecomeFact DEF Begin
    <2>2. proc'[p].topo = yaml BY <2>1 DEF Idle
    <2>3. yaml' = yaml /\ edits' = edits BY <1>4 DEF Begin
    <2> QED BY <1>1, <1>2, <1>3, <2>2, <2>3, OuterFacts DEF PairsOK
  <1>5. CASE ~\E cmd \in Commands : Begin(p, cmd)
    <2>1. Step(p) BY <1>5 DEF OuterStep, Step
    <2>2. proc[p].pc # "idle"
      BY <1>5 DEF OuterStep, StatState, ListExisting, OpenSnapshot, ReadState, ReadLegacy,
                  WriteMigrated, Purge, At
    <2> QED BY <1>1, <1>2, <1>3, <2>1, <2>2, OuterFacts, StepPairs, StepKeepsCommand,
               SamePairs
  <1> QED BY <1>4, <1>5

\* What a cleanup that is no rollback finds where there is no state file.
LEMMA CleanupPairs ==
  ASSUME NEW p \in Procs, NetOf(p), proc[p].pc \in {"list", "remove", "bridges"}
  PROVE  /\ TypeOK /\ AccountOf(p) /\ PairsOK(proc[p]) /\ proc[p] \in Process
         /\ proc[p].snapshot = None => ~proc[p].rollback /\ stateFile = None
         /\ edits = 0 => proc[p].topo = yaml
         /\ edits = 0 /\ stateFile = None /\ ~proc[p].rollback =>
              HostPairs \subseteq lost.pairs
         /\ edits = 0 /\ proc[p].pc = "bridges" /\ proc[p].snapshot # None /\ ~proc[p].err
              => HostPairs = {}
  <1>1. TypeOK /\ AccountOf(p) /\ PairsOK(proc[p]) /\ proc[p] \in Process
    BY DEF NetOf, GoneOf, TypeOK, ProcsOK
  <1>2. proc[p].snapshot = None => ~proc[p].rollback /\ stateFile = None
    BY <1>1, CleanupFacts
  <1> QED BY <1>1, <1>2 DEF PairsOK

LEMMA ListLabelledPairs ==
  ASSUME NEW p \in Procs, NetOf(p), ListLabelled(p)
  PROVE  PairsOK(proc[p])' /\ BuiltOK(proc[p])'
  <1>1. proc[p].pc = "list" /\ Step(p) BY DEF ListLabelled, At, Step
  <1>2. stateFile' = stateFile /\ lost' = lost /\ HostPairs' = HostPairs
    BY DEF ListLabelled, host, disk, HostPairs, InHost
  <1>3. \/ proc[p].snapshot = None /\ End(p)
        \/ \E s : Become(p, [proc[p] EXCEPT !.pc = "remove", !.todo = s])
        \/ \E s : Become(p, [proc[p] EXCEPT !.pc = "remove", !.err = TRUE, !.todo = s])
    BY DEF ListLabelled
  <1>4. CASE proc[p].snapshot = None /\ End(p)
    <2>1. edits' = edits BY <1>1, <1>4, CleanupPairs, StepPairs
    <2> QED BY <1>1, <1>2, <1>4, <2>1, CleanupPairs, EndPairs
  <1>5. ASSUME NEW s,
               \/ Become(p, [proc[p] EXCEPT !.pc = "remove", !.todo = s])
               \/ Become(p, [proc[p] EXCEPT !.pc = "remove", !.err = TRUE, !.todo = s])
        PROVE  PairsOK(proc[p])' /\ BuiltOK(proc[p])'
    <2>1. \/ proc'[p] = [proc[p] EXCEPT !.pc = "remove", !.todo = s]
          \/ proc'[p] = [proc[p] EXCEPT !.pc = "remove", !.err = TRUE, !.todo = s]
      BY <1>1, <1>5, CleanupPairs, BecomeFact
    <2>2. proc'[p].pc = "remove" /\ proc'[p].rollback = proc[p].rollback
      BY <1>1, <2>1, CleanupPairs DEF Process
    <2> QED BY <1>1, <1>2, <2>2, CleanupPairs, StepPairs, StepKeepsCommand, SameCleanup
  <1> QED BY <1>3, <1>4, <1>5

LEMMA RemoveContainerPairs ==
  ASSUME NEW p \in Procs, NetOf(p), RemoveContainer(p)
  PROVE  PairsOK(proc[p])' /\ BuiltOK(proc[p])'
  <1>1. proc[p].pc = "remove" /\ Step(p)
    <2>1. At(p, "remove") BY Zenon DEF RemoveContainer
    <2> QED BY <2>1 DEF At, Step
  <1>2. stateFile' = stateFile /\ lost' = lost BY DEF RemoveContainer, disk
  <1>3. HostPairs' \subseteq HostPairs
    <2>1. veths' \subseteq veths BY DEF RemoveContainer, WithoutContainer
    <2> QED BY <2>1, FewerPairs
  <1>4. PICK c \in proc[p].todo :
          \/ Become(p, [proc[p] EXCEPT !.todo = @ \ {c}])
          \/ Become(p, [[proc[p] EXCEPT !.todo = @ \ {c}] EXCEPT !.err = TRUE])
    BY DEF RemoveContainer
  <1>5. \/ proc'[p] = [proc[p] EXCEPT !.todo = @ \ {c}]
        \/ proc'[p] = [[proc[p] EXCEPT !.todo = @ \ {c}] EXCEPT !.err = TRUE]
    BY <1>1, <1>4, CleanupPairs, BecomeFact
  <1>6. proc'[p].pc = "remove" /\ proc'[p].rollback = proc[p].rollback
    BY <1>1, <1>5, CleanupPairs DEF Process
  <1> QED BY <1>1, <1>2, <1>3, <1>6, CleanupPairs, StepPairs, StepKeepsCommand, SameCleanup

\* Unless a delete fails, every pair in the host's namespace goes: all of them
\* are of the topology in hand.
LEMMA DeleteVethsPairs ==
  ASSUME NEW p \in Procs, NetOf(p), DeleteVeths(p)
  PROVE  PairsOK(proc[p])' /\ BuiltOK(proc[p])'
  <1> DEFINE owned == IF proc[p].snapshot = None THEN {} ELSE proc[p].snapshot.bridges
             found == IF proc[p].snapshot = None THEN {}
                      ELSE {v \in veths : InHost(v) /\
                                          v.pair \in TopologyPairs(proc[p].topo)}
             s == [proc[p] EXCEPT !.pc = "bridges", !.todoBridges = owned]
             t == [s EXCEPT !.err = TRUE]
  <1>1. proc[p].pc = "remove" /\ Step(p) BY DEF DeleteVeths, At, Step
  <1>2. stateFile' = stateFile /\ lost' = lost BY DEF DeleteVeths, disk
  <1>3. HostPairs' \subseteq HostPairs
    <2>1. veths' \subseteq veths BY DEF DeleteVeths
    <2> QED BY <2>1, FewerPairs
  <1>4. \/ veths' = veths \ found /\ Become(p, s)
        \/ Become(p, t)
    BY DEF DeleteVeths
  <1>5. \/ veths' = veths \ found /\ proc'[p] = s
        \/ proc'[p] = t
    BY <1>1, <1>4, CleanupPairs, BecomeFact
  <1>6. /\ proc'[p].pc = "bridges" /\ proc'[p].rollback = proc[p].rollback
        /\ proc'[p].snapshot = proc[p].snapshot
        /\ proc'[p].err = TRUE \/ veths' = veths \ found
    <2> HIDE DEF owned, found
    <2> QED BY <1>1, <1>5, CleanupPairs DEF Process
  <1>7. ASSUME edits = 0, proc[p].snapshot # None, veths' = veths \ found
        PROVE  HostPairs' = {}
    <2>1. HostPairs \subseteq TopologyPairs(proc[p].topo)
      BY <1>1, <1>7, CleanupPairs DEF NetOf, PairsAreOfTopology
    <2>2. \A v \in veths : InHost(v) => v \in found BY <1>7, <2>1 DEF HostPairs
    <2> QED BY <1>7, <2>2 DEF HostPairs, InHost
  <1> HIDE DEF owned, found
  <1> QED BY <1>1, <1>2, <1>3, <1>6, <1>7, CleanupPairs, StepPairs, StepKeepsCommand,
             SameCleanup

LEMMA DeleteBridgePairs ==
  ASSUME NEW p \in Procs, NetOf(p), DeleteBridge(p)
  PROVE  PairsOK(proc[p])' /\ BuiltOK(proc[p])'
  <1>1. proc[p].pc = "bridges" /\ Step(p)
    <2>1. At(p, "bridges") BY Zenon DEF DeleteBridge
    <2> QED BY <2>1 DEF At, Step
  <1>2. stateFile' = stateFile /\ lost' = lost /\ HostPairs' = HostPairs
    BY DEF DeleteBridge, disk, HostPairs, InHost
  <1>3. PICK name \in proc[p].todoBridges :
          \/ Become(p, [proc[p] EXCEPT !.todoBridges = @ \ {name}])
          \/ Become(p, [[proc[p] EXCEPT !.todoBridges = @ \ {name}] EXCEPT !.err = TRUE])
    BY DEF DeleteBridge
  <1>4. \/ proc'[p] = [proc[p] EXCEPT !.todoBridges = @ \ {name}]
        \/ proc'[p] = [[proc[p] EXCEPT !.todoBridges = @ \ {name}] EXCEPT !.err = TRUE]
    BY <1>1, <1>3, CleanupPairs, BecomeFact
  <1>5. /\ proc'[p].pc = "bridges" /\ proc'[p].rollback = proc[p].rollback
        /\ proc'[p].snapshot = proc[p].snapshot
        /\ proc'[p].err = TRUE \/ proc'[p].err = proc[p].err
    BY <1>1, <1>4, CleanupPairs DEF Process
  <1> QED BY <1>1, <1>2, <1>5, CleanupPairs, StepPairs, StepKeepsCommand, SameCleanup

LEMMA EraseStatePairs ==
  ASSUME NEW p \in Procs, NetOf(p), EraseState(p)
  PROVE  PairsOK(proc[p])' /\ BuiltOK(proc[p])'
  <1>1. proc[p].pc = "bridges" /\ Step(p) BY DEF EraseState, At, Step
  <1>2. lost' = lost /\ HostPairs' = HostPairs
    BY DEF EraseState, host, HostPairs, InHost
  <1>3. CASE ~proc[p].err /\ stateFile' = None /\ AfterCleanup(p)
    <2>1. edits = 0 => HostPairs \subseteq lost.pairs
      BY <1>1, <1>3, CleanupPairs
    <2>2. proc'[p].pc \in {"idle", "mkdir", "purge"}
      <3>1. CASE End(p) BY <1>1, <3>1, CleanupPairs, EndFact, IdleFacts
      <3>2. ASSUME NEW step \in {"mkdir", "purge"}, Resume(p, step)
            PROVE  proc'[p].pc \in {"idle", "mkdir", "purge"}
        <4>1. proc'[p] = [Idle EXCEPT !.pc = step, !.cmd = proc[p].cmd,
                            !.topo = proc[p].topo, !.cancelled = proc[p].cancelled]
          BY <1>1, <3>2, CleanupPairs, BecomeFact DEF Resume
        <4> QED BY <4>1 DEF Idle
      <3> QED BY <1>3, <3>1, <3>2 DEF AfterCleanup
    <2> QED BY <1>1, <1>2, <2>1, <2>2, CleanupPairs, StepPairs, StepKeepsCommand, SameCleanup
  <1>4. CASE KeepInventory(p) /\ stateFile' = stateFile
    <2>1. CASE proc[p].rollback
      <3>1. proc'[p] = [proc[p] EXCEPT !.pc = "save"]
        BY <1>1, <1>4, <2>1, CleanupPairs, BecomeFact DEF KeepInventory, Goto
      <3>2. proc'[p].pc = "save" /\ proc'[p].rollback
        BY <1>1, <2>1, <3>1, CleanupPairs DEF Process
      <3> QED BY <1>1, <3>2, CleanupPairs, StepPairs, StepKeepsCommand, SameCleanup
    <2>2. CASE ~proc[p].rollback
      <3>1. End(p) /\ edits' = edits
        BY <1>1, <1>4, <2>2, CleanupPairs, StepPairs DEF KeepInventory
      <3> QED BY <1>1, <1>2, <1>4, <2>2, <3>1, CleanupPairs, EndPairs
    <2> QED BY <2>1, <2>2
  <1> QED BY <1>3, <1>4 DEF EraseState

LEMMA LosingStepsPairs ==
  ASSUME NEW p \in Procs, NetOf(p), SaveInventory(p) \/ Kill(p)
  PROVE  PairsOK(proc[p])' /\ BuiltOK(proc[p])'
  <1>1. TypeOK /\ HoldsOK(proc[p]) BY DEF NetOf, GoneOf, TypeOK, ProcsOK
  <1>2. HostPairs' = HostPairs BY DEF SaveInventory, Kill, host, HostPairs, InHost
  <1>3. CASE Forget /\ stateFile' = stateFile /\ End(p)
    BY <1>1, <1>2, <1>3, EndPairs DEF Forget
  <1>4. CASE SaveInventory(p) /\ stateFile' = proc[p].snapshot /\ End(p)
    <2>1. stateFile' # None BY <1>1, <1>4, NoneAssumption DEF SaveInventory, At, HoldsOK
    <2> QED BY <1>1, <1>4, <2>1, EndPairs
  <1> QED BY <1>3, <1>4 DEF SaveInventory, Kill, disk

LEMMA UserPairs ==
  ASSUME NEW p \in Procs, NetOf(p), Cancel(p) \/ EditYaml \/ OperatorRemove
  PROVE  PairsOK(proc[p])' /\ PairsAreOfTopology'
  <1>1. /\ TypeOK /\ HoldsOK(proc[p]) /\ PairsOK(proc[p]) /\ proc[p] \in Process
        /\ PairsAreOfTopology /\ edits \in Nat
    BY DEF NetOf, GoneOf, TypeOK, ProcsOK, SharedTypeOK
  <1>2. CASE Cancel(p)
    <2>1. /\ yaml' = yaml /\ edits' = edits /\ HostPairs' = HostPairs
          /\ lost' = lost /\ stateFile' = stateFile
      BY <1>2 DEF Cancel, user, host, disk, HostPairs, InHost
    <2>2. proc'[p] = [proc[p] EXCEPT !.cancelled = TRUE] BY <1>1, <1>2, BecomeFact DEF Cancel
    <2>3. /\ proc'[p].pc = proc[p].pc /\ proc'[p].topo = proc[p].topo
          /\ proc'[p].rollback = proc[p].rollback /\ proc'[p].err = proc[p].err
          /\ proc'[p].snapshot = proc[p].snapshot
      BY <1>1, <2>2 DEF Process
    <2> QED BY <1>1, <2>1, <2>3 DEF PairsOK, PairsAreOfTopology, TopologyPairs, Links, PairsOf
  <1>3. CASE EditYaml
    <2>1. edits' # 0 BY <1>1, <1>3 DEF EditYaml
    <2> QED BY <2>1 DEF PairsOK, PairsAreOfTopology
  <1>4. CASE OperatorRemove
    <2>1. /\ yaml' = yaml /\ edits' = edits /\ proc' = proc /\ proc[p].pc = "idle"
          /\ stateFile' = stateFile /\ veths' \subseteq veths
      BY <1>4 DEF OperatorRemove, user, disk, Quiescent, At, WithoutContainer
    <2>2. lost'.pairs = lost.pairs
      BY <1>1, <1>4 DEF OperatorRemove, TypeOK, SharedTypeOK
    <2>3. HostPairs' \subseteq HostPairs BY <2>1, FewerPairs
    <2> QED BY <1>1, <2>1, <2>2, <2>3
            DEF PairsOK, PairsAreOfTopology, TopologyPairs, Links, PairsOf
  <1> QED BY <1>2, <1>3, <1>4

-----------------------------------------------------------------------------
(* Each action keeps what is known of the lab that is being built.         *)

\* What up holds at its calls.
LEMMA BuiltFacts ==
  ASSUME NEW p \in Procs, NetOf(p),
         proc[p].pc \in {"create", "boot", "links", "commit"}
  PROVE  /\ TypeOK /\ proc[p] \in Process /\ HoldsOK(proc[p]) /\ BuiltOK(proc[p])
         /\ proc[p].topo \in Topologies /\ proc[p].snapshot \in Inventory
         /\ proc[p].r \in Nat /\ proc[p].l \in Nat /\ proc[p].m \in Nat
         /\ proc[p].topo.routers \in Seq(Router) /\ proc[p].topo.links \in Seq(LinkDef)
  <1>1. TypeOK /\ proc[p] \in Process /\ HoldsOK(proc[p]) /\ BuiltOK(proc[p])
    BY DEF NetOf, GoneOf, TypeOK, ProcsOK
  <1>2. proc[p].topo \in Topologies /\ proc[p].snapshot \in Inventory
    BY <1>1 DEF HoldsOK
  <1> QED BY <1>1, <1>2, TopologyFacts DEF Process

\* Of a lab's parts, those that a call leaves as they are.
LEMMA SameRouters ==
  ASSUME NEW p \in Procs, RoutersBuilt(proc[p]), containers' = containers,
         proc'[p].snapshot.containers = proc[p].snapshot.containers,
         RoutersMade(proc'[p]) = RoutersMade(proc[p])
  PROVE  RoutersBuilt(proc[p])'
  BY DEF RoutersBuilt

LEMMA SameBridges ==
  ASSUME NEW p \in Procs, BridgesBuilt(proc[p]), bridges' = bridges,
         proc'[p].snapshot.bridges = proc[p].snapshot.bridges,
         BridgesMade(proc'[p]) = BridgesMade(proc[p])
  PROVE  BridgesBuilt(proc[p])'
  BY DEF BridgesBuilt

LEMMA SamePlace ==
  ASSUME NEW s, NEW t, s.topo = t.topo, s.l = t.l, s.m = t.m
  PROVE  BridgesMade(s) = BridgesMade(t)
  BY DEF BridgesMade, Passed

LEMMA SameVeths ==
  ASSUME NEW p \in Procs, PairsBuilt(proc[p]), veths' = veths,
         proc'[p].snapshot.containers = proc[p].snapshot.containers,
         proc'[p].topo = proc[p].topo, proc'[p].l = proc[p].l, proc'[p].m = proc[p].m
  PROVE  PairsBuilt(proc[p])'
  BY DEF PairsBuilt

\* Before the first link nothing of the network is needed.
LEMMA NoLinkYet ==
  ASSUME NEW s, s.topo \in Topologies, s.l = 1, s.m = 0
  PROVE  /\ BridgesMade(s) = {}
         /\ \A i \in DOMAIN s.topo.links :
              /\ ~(i < s.l)
              /\ \A j \in DOMAIN s.topo.links[i].members : ~(j < s.m)
  <1>1. DOMAIN s.topo.links = 1..Len(s.topo.links) /\ Len(s.topo.links) \in Nat
    BY TopologyFacts
  <1>2. BridgesMade(s) = {} BY <1>1 DEF BridgesMade, Passed
  <1>3. \A i \in DOMAIN s.topo.links : ~(i < s.l) BY <1>1
  <1>4. ASSUME NEW i \in DOMAIN s.topo.links
        PROVE  \A j \in DOMAIN s.topo.links[i].members : ~(j < s.m)
    <2>1. /\ s.topo.links[i] \in LinkDef /\ Len(s.topo.links[i].members) \in Nat
      BY <1>1, TopologyFacts
    <2>2. DOMAIN s.topo.links[i].members = 1..Len(s.topo.links[i].members)
      BY <2>1 DEF LinkDef
    <2> QED BY <2>1, <2>2
  <1> QED BY <1>2, <1>3, <1>4

LEMMA OpenSnapshotBuilt ==
  ASSUME NEW p \in Procs, NetOf(p), OpenSnapshot(p) PROVE BuiltOK(proc[p])'
  <1> DEFINE empty == [containers |-> {}, bridges |-> {}, legacy |-> FALSE,
                       digest |-> proc[p].topo]
  <1>1. /\ TypeOK /\ proc[p] \in Process /\ HoldsOK(proc[p]) /\ KnowsOK(proc[p])
        /\ GoneOK(proc[p]) /\ proc[p].pc = "mkdir"
    BY DEF NetOf, GoneOf, AccountOf, TypeOK, ProcsOK, OpenSnapshot, At
  <1>2. CASE End(p)
    <2>1. proc'[p].pc = "idle" BY <1>1, <1>2, EndFact, IdleFacts
    <2> QED BY <2>1 DEF BuiltOK
  <1>3. CASE Become(p, [proc[p] EXCEPT !.pc = "create", !.r = 1, !.l = 1, !.m = 0,
                                       !.snapshot = empty])
    <2>1. containers' = {}
      BY <1>1 DEF GoneOK, KnowsOK, UpSteps, HoldsOK, OpenSnapshot, host
    <2>2. proc'[p] = [proc[p] EXCEPT !.pc = "create", !.r = 1, !.l = 1, !.m = 0,
                                     !.snapshot = empty]
      BY <1>1, <1>3, BecomeFact
    <2>3. /\ proc'[p].pc = "create" /\ proc'[p].r = 1 /\ proc'[p].l = 1 /\ proc'[p].m = 0
          /\ proc'[p].snapshot = empty /\ proc'[p].topo = proc[p].topo
      BY <1>1, <2>2 DEF Process
    <2>4. proc[p].topo \in Topologies BY <1>1 DEF HoldsOK
    <2>5. BridgesMade(proc'[p]) = {} /\ PairsBuilt(proc[p])'
      BY <2>3, <2>4, NoLinkYet DEF PairsBuilt
    <2>6. RoutersMade(proc'[p]) = {} BY <2>3 DEF RoutersMade
    <2> QED BY <2>1, <2>3, <2>5, <2>6 DEF BuiltOK, RoutersBuilt, BridgesBuilt
  <1> QED BY <1>2, <1>3 DEF OpenSnapshot

LEMMA CreateContainerBuilt ==
  ASSUME NEW p \in Procs, NetOf(p), CreateContainer(p) PROVE BuiltOK(proc[p])'
  <1> DEFINE new == [id |-> nextId, router |-> proc[p].topo.routers[proc[p].r]]
             recorded == [proc[p].snapshot EXCEPT !.containers = @ \cup {new}]
  <1>1. proc[p].pc = "create" BY DEF CreateContainer, At
  <1>2. TypeOK BY <1>1, BuiltFacts
  <1>3. CASE RollBack(p, proc[p].snapshot)
    BY <1>2, <1>3, RollBackBuilding DEF BuiltOK
  <1>4. CASE /\ Become(p, [proc[p] EXCEPT !.pc = "boot", !.snapshot = recorded])
             /\ containers' = containers \cup {new}
    <2>1. proc'[p] = [proc[p] EXCEPT !.pc = "boot", !.snapshot = recorded]
      BY <1>2, <1>4, BecomeFact
    <2>2. /\ proc'[p].pc = "boot" /\ proc'[p].topo = proc[p].topo
          /\ proc'[p].r = proc[p].r /\ proc'[p].l = proc[p].l /\ proc'[p].m = proc[p].m
          /\ proc'[p].snapshot = recorded
      <3> HIDE DEF recorded
      <3> QED BY <1>1, <2>1, BuiltFacts DEF Process
    <2>3. /\ recorded.containers = proc[p].snapshot.containers \cup {new}
          /\ recorded.bridges = proc[p].snapshot.bridges
          /\ recorded.digest = proc[p].snapshot.digest
      BY <1>1, BuiltFacts DEF Inventory
    <2>4. bridges' = bridges /\ veths' = veths BY DEF CreateContainer
    <2>5. /\ proc[p].r \in Nat /\ proc[p].r >= 1 /\ proc[p].l = 1 /\ proc[p].m = 0
          /\ proc[p].topo \in Topologies
          /\ proc[p].snapshot.digest = proc[p].topo /\ RoutersBuilt(proc[p])
          /\ BridgesBuilt(proc[p])
      BY <1>1, BuiltFacts DEF BuiltOK, HoldsOK
    <2>6. RoutersBuilt(proc[p])'
      <3>1. /\ containers = proc[p].snapshot.containers
            /\ {c.router : c \in proc[p].snapshot.containers}
                 = {proc[p].topo.routers[i] : i \in 1..(proc[p].r - 1)}
        BY <1>1, <2>5 DEF RoutersBuilt, RoutersMade
      <3>2. 1..proc[p].r = (1..(proc[p].r - 1)) \cup {proc[p].r} BY <2>5
      <3>3. new.router = proc[p].topo.routers[proc[p].r] OBVIOUS
      <3>4. RoutersMade(proc'[p]) = {proc[p].topo.routers[i] : i \in 1..proc[p].r}
        BY <2>2 DEF RoutersMade
      <3> HIDE DEF new, recorded
      <3>5. {c.router : c \in proc[p].snapshot.containers \cup {new}}
              = {proc[p].topo.routers[i] : i \in 1..proc[p].r}
        <4>1. {c.router : c \in proc[p].snapshot.containers \cup {new}}
                = {c.router : c \in proc[p].snapshot.containers} \cup {new.router}
          OBVIOUS
        <4>2. {proc[p].topo.routers[i] : i \in (1..(proc[p].r - 1)) \cup {proc[p].r}}
                = {proc[p].topo.routers[i] : i \in 1..(proc[p].r - 1)}
                    \cup {proc[p].topo.routers[proc[p].r]}
          OBVIOUS
        <4> QED BY <3>1, <3>2, <3>3, <4>1, <4>2
      <3> QED BY <1>4, <2>2, <2>3, <3>1, <3>4, <3>5 DEF RoutersBuilt
    <2>7. BridgesBuilt(proc[p])'
      <3> HIDE DEF recorded
      <3> QED BY <2>2, <2>3, <2>4, <2>5, SamePlace, SameBridges
    <2>8. PairsBuilt(proc[p])' BY <2>2, <2>5, NoLinkYet DEF PairsBuilt
    <2> HIDE DEF recorded
    <2> QED BY <2>2, <2>3, <2>5, <2>6, <2>7, <2>8 DEF BuiltOK
  <1> QED BY <1>3, <1>4 DEF CreateContainer

LEMMA BootContainerBuilt ==
  ASSUME NEW p \in Procs, NetOf(p), BootContainer(p) PROVE BuiltOK(proc[p])'
  <1>1. proc[p].pc = "boot" BY DEF BootContainer, At
  <1>2. TypeOK BY <1>1, BuiltFacts
  <1>3. /\ proc[p].r \in Nat /\ proc[p].r >= 1 /\ proc[p].l = 1 /\ proc[p].m = 0
        /\ proc[p].r <= Len(proc[p].topo.routers)
        /\ proc[p].topo \in Topologies /\ proc[p].topo.routers \in Seq(Router)
        /\ proc[p].snapshot.digest = proc[p].topo /\ RoutersBuilt(proc[p])
        /\ BridgesBuilt(proc[p])
    BY <1>1, BuiltFacts DEF BuiltOK, HoldsOK
  <1>4. UNCHANGED <<containers, bridges, veths>> BY DEF BootContainer, host
  <1>5. CASE RollBack(p, proc[p].snapshot)
    BY <1>2, <1>5, RollBackBuilding DEF BuiltOK
  <1>6. CASE \/ Become(p, [proc[p] EXCEPT !.pc = "create", !.r = @ + 1])
             \/ /\ Become(p, [proc[p] EXCEPT !.pc = "links"])
                /\ ~(proc[p].r < Len(proc[p].topo.routers))
    <2>1. \/ proc'[p] = [proc[p] EXCEPT !.pc = "create", !.r = @ + 1]
          \/ /\ proc'[p] = [proc[p] EXCEPT !.pc = "links"]
             /\ ~(proc[p].r < Len(proc[p].topo.routers))
      BY <1>2, <1>6, BecomeFact
    <2>2. /\ proc'[p].topo = proc[p].topo /\ proc'[p].snapshot = proc[p].snapshot
          /\ proc'[p].l = proc[p].l /\ proc'[p].m = proc[p].m
          /\ \/ proc'[p].pc = "create" /\ proc'[p].r = proc[p].r + 1
             \/ proc'[p].pc = "links" /\ ~(proc[p].r < Len(proc[p].topo.routers))
      BY <1>1, <2>1, BuiltFacts DEF Process
    <2>3. RoutersMade(proc'[p]) = RoutersMade(proc[p])
      <3>1. RoutersMade(proc[p]) = {proc[p].topo.routers[i] : i \in 1..proc[p].r}
        BY <1>1 DEF RoutersMade
      <3>2. CASE proc'[p].pc = "create"
        <4>1. (proc[p].r + 1) - 1 = proc[p].r BY <1>3
        <4> QED BY <2>2, <3>1, <3>2, <4>1 DEF RoutersMade
      <3>3. CASE proc'[p].pc = "links"
        <4>1. DOMAIN proc[p].topo.routers = 1..proc[p].r BY <1>3, <2>2, <3>3
        <4> QED BY <2>2, <3>1, <3>3, <4>1 DEF RoutersMade
      <3> QED BY <2>2, <3>2, <3>3
    <2>4. RoutersBuilt(proc[p])' /\ BridgesBuilt(proc[p])'
      BY <1>3, <1>4, <2>2, <2>3, SamePlace, SameRouters, SameBridges
    <2>5. PairsBuilt(proc[p])' BY <1>3, <2>2, NoLinkYet DEF PairsBuilt
    <2> QED BY <1>3, <2>2, <2>4, <2>5 DEF BuiltOK
  <1> QED BY <1>5, <1>6 DEF BootContainer, Goto

\* At the links: where the loops are, and what is built.
LEMMA LinksBuilt ==
  ASSUME NEW p \in Procs, NetOf(p), proc[p].pc = "links"
  PROVE  /\ TypeOK /\ proc[p] \in Process /\ proc[p].snapshot \in Inventory
         /\ proc[p].snapshot.digest = proc[p].topo
         /\ RoutersBuilt(proc[p]) /\ BridgesBuilt(proc[p]) /\ PairsBuilt(proc[p])
         /\ proc[p].l \in Nat /\ proc[p].l >= 1 /\ proc[p].m \in Nat
         /\ proc[p].topo \in Topologies
         /\ DOMAIN proc[p].topo.links = 1..Len(proc[p].topo.links)
         /\ Len(proc[p].topo.links) \in Nat
  <1>1. proc[p].l >= 1 BY BuiltFacts DEF HoldsOK
  <1> QED BY <1>1, BuiltFacts DEF BuiltOK

LEMMA EnsureBridgeBuilt ==
  ASSUME NEW p \in Procs, NetOf(p), EnsureBridge(p) PROVE BuiltOK(proc[p])'
  <1> DEFINE name == Link(p).name
             recorded == [proc[p].snapshot EXCEPT !.bridges = @ \cup {name}]
  <1>1. /\ proc[p].pc = "links" /\ proc[p].m = 0 /\ Link(p).type = "bridge" /\ MoreLinks(p)
    BY DEF EnsureBridge, At
  <1>2. TypeOK BY <1>1, LinksBuilt
  <1>3. CASE \E s : RollBack(p, s) BY <1>2, <1>3, RollBackBuilding DEF BuiltOK
  <1>4. CASE /\ bridges' = bridges \cup {name}
             /\ Become(p, [proc[p] EXCEPT !.snapshot = recorded, !.m = 1])
    <2>1. containers' = containers /\ veths' = veths BY DEF EnsureBridge
    <2>2. proc'[p] = [proc[p] EXCEPT !.snapshot = recorded, !.m = 1]
      BY <1>2, <1>4, BecomeFact
    <2>3. /\ proc'[p].pc = "links" /\ proc'[p].topo = proc[p].topo
          /\ proc'[p].l = proc[p].l /\ proc'[p].m = 1 /\ proc'[p].snapshot = recorded
      <3> HIDE DEF recorded
      <3> QED BY <1>1, <2>2, LinksBuilt DEF Process
    <2>4. /\ recorded.containers = proc[p].snapshot.containers
          /\ recorded.bridges = proc[p].snapshot.bridges \cup {name}
          /\ recorded.digest = proc[p].snapshot.digest
      BY <1>1, LinksBuilt DEF Inventory
    <2> HIDE DEF recorded
    <2>5. RoutersBuilt(proc[p])'
      <3>1. RoutersMade(proc'[p]) = RoutersMade(proc[p]) BY <1>1, <2>3 DEF RoutersMade
      <3> QED BY <1>1, <2>1, <2>3, <2>4, <3>1, LinksBuilt, SameRouters
    <2>6. BridgesBuilt(proc[p])'
      <3>1. proc[p].l \in DOMAIN proc[p].topo.links BY <1>1, LinksBuilt DEF MoreLinks
      <3>2. BridgesMade(proc'[p]) = BridgesMade(proc[p]) \cup {name}
        <4>1. \A k \in DOMAIN proc[p].topo.links :
                Passed(proc'[p], k) <=> Passed(proc[p], k) \/ k = proc[p].l
          BY <1>1, <2>3, LinksBuilt DEF Passed
        <4> QED BY <1>1, <2>3, <3>1, <4>1 DEF BridgesMade, Link
      <3> HIDE DEF name
      <3> QED BY <1>1, <1>4, <2>3, <2>4, <3>2, LinksBuilt DEF BridgesBuilt
    <2>7. PairsBuilt(proc[p])'
      <3>1. ASSUME NEW i \in DOMAIN proc[p].topo.links
            PROVE  \A j \in DOMAIN proc[p].topo.links[i].members : ~(j < 1)
        <4>1. proc[p].topo.links[i] \in LinkDef BY <1>1, LinksBuilt, TopologyFacts
        <4> QED BY <4>1 DEF LinkDef
      <3> QED BY <1>1, <2>1, <2>3, <2>4, <3>1, LinksBuilt DEF PairsBuilt
    <2> QED BY <1>1, <2>3, <2>4, <2>5, <2>6, <2>7, LinksBuilt DEF BuiltOK
  <1> QED BY <1>3, <1>4 DEF EnsureBridge

\* Making a pair either makes it whole, and goes on, or rolls back.
LEMMA AttachMakes ==
  ASSUME NEW p \in Procs, NEW pair, NEW stages, NEW ready, Attach(p, pair, stages, ready)
  PROVE  /\ containers' = containers /\ bridges' = bridges
         /\ \/ RollBack(p, proc[p].snapshot)
            \/ /\ NextMember(p)
               /\ veths' = veths \cup {[pair |-> pair, left |-> stages[Len(stages)][1],
                                       right |-> stages[Len(stages)][2]]}
  BY DEF Attach

\* The next member or link: what is new is in place, and the loops move on.
LEMMA NextMemberBuilt ==
  ASSUME NEW p \in Procs, NetOf(p), proc[p].pc = "links", MoreLinks(p), NextMember(p),
         containers' = containers, bridges' = bridges, NEW v, veths' = veths \cup {v},
         \/ /\ Link(p).type = "bridge" /\ proc[p].m > 0
            /\ v = MemberVeth(Link(p), proc[p].m, proc[p].snapshot.containers)
         \/ /\ Link(p).type # "bridge"
            /\ UpVeths(Link(p), proc[p].snapshot.containers) = {v}
  PROVE  BuiltOK(proc[p])'
  <1> DEFINE cs == proc[p].snapshot.containers
             more == Link(p).type = "bridge" /\ proc[p].m < Len(Link(p).members)
  <1>1. TypeOK /\ At(p, "links") BY LinksBuilt DEF At
  <1>2. /\ proc[p].l \in DOMAIN proc[p].topo.links /\ Link(p) \in LinkDef
        /\ DOMAIN Link(p).members = 1..Len(Link(p).members)
        /\ Len(Link(p).members) \in Nat /\ proc[p].m <= Len(Link(p).members)
        /\ Link(p) = proc[p].topo.links[proc[p].l]
    <2>1. /\ proc[p].l \in 1..Len(proc[p].topo.links) /\ Link(p) \in LinkDef
          /\ Len(Link(p).members) \in Nat /\ proc[p].m <= Len(Link(p).members)
      BY <1>1, LinksFacts
    <2>2. DOMAIN Link(p).members = 1..Len(Link(p).members) BY <2>1 DEF LinkDef
    <2>3. DOMAIN proc[p].topo.links = 1..Len(proc[p].topo.links) BY LinksBuilt
    <2> QED BY <2>1, <2>2, <2>3 DEF Link
  <1>3. /\ proc'[p].pc = "links" /\ proc'[p].topo = proc[p].topo
        /\ proc'[p].snapshot = proc[p].snapshot
        /\ IF more THEN proc'[p].l = proc[p].l /\ proc'[p].m = proc[p].m + 1
                   ELSE proc'[p].l = proc[p].l + 1 /\ proc'[p].m = 0
    <2>1. \/ more /\ proc'[p] = [proc[p] EXCEPT !.m = @ + 1]
          \/ ~more /\ proc'[p] = [proc[p] EXCEPT !.m = 0, !.l = @ + 1]
      BY <1>1, BecomeFact DEF NextMember
    <2> HIDE DEF more
    <2> QED BY <2>1, LinksBuilt DEF Process
  <1>num. proc[p].l \in Nat /\ proc[p].m \in Nat /\ Len(proc[p].topo.links) \in Nat
        /\ DOMAIN proc[p].topo.links = 1..Len(proc[p].topo.links)
    BY LinksBuilt
  <1>pos. Link(p).type = "bridge" => proc[p].m > 0 OBVIOUS
  <1>4. RoutersBuilt(proc[p])'
    <2>1. RoutersMade(proc'[p]) = RoutersMade(proc[p]) BY <1>3 DEF RoutersMade
    <2> QED BY <1>3, <2>1, LinksBuilt, SameRouters
  <1>5. BridgesBuilt(proc[p])'
    <2>1. \A k \in DOMAIN proc[p].topo.links :
            proc[p].topo.links[k].type = "bridge" =>
              (Passed(proc'[p], k) <=> Passed(proc[p], k))
      <3> TAKE k \in DOMAIN proc[p].topo.links
      <3> HAVE proc[p].topo.links[k].type = "bridge"
      <3>0. k \in Nat BY <1>num
      <3>1. /\ k \in Nat /\ proc[p].l \in Nat /\ proc[p].m \in Nat
            /\ k = proc[p].l => Link(p).type = "bridge" /\ proc[p].m > 0
        <4>1. k = proc[p].l => Link(p).type = "bridge" /\ proc[p].m > 0
          BY <1>2, <1>pos, Zenon
        <4> QED BY <3>0, <1>num, <4>1
      <3>2. CASE more BY <1>3, <3>1, <3>2 DEF Passed
      <3>3. CASE ~more
        <4>1. proc'[p].l = proc[p].l + 1 /\ proc'[p].m = 0 BY <1>3, <3>3
        <4> QED BY <3>1, <4>1 DEF Passed
      <3> QED BY <3>2, <3>3
    <2>2. BridgesMade(proc'[p]) = BridgesMade(proc[p]) BY <1>3, <2>1 DEF BridgesMade
    <2> QED BY <1>3, <2>2, LinksBuilt, SameBridges
  <1>6. PairsBuilt(proc[p])'
    <2>1. \A i \in DOMAIN proc[p].topo.links :
            i < proc[p].l => UpVeths(proc[p].topo.links[i], cs) \subseteq veths
      BY LinksBuilt DEF PairsBuilt
    <2>2. Link(p).type = "bridge" => \A j \in DOMAIN Link(p).members :
            j <= proc[p].m => MemberVeth(Link(p), j, cs) \in veths'
      <3>1. Link(p).type = "bridge" => \A j \in DOMAIN Link(p).members :
              j < proc[p].m => MemberVeth(Link(p), j, cs) \in veths
        BY <1>2, LinksBuilt DEF PairsBuilt
      <3>2. DOMAIN Link(p).members = 1..Len(Link(p).members) /\ Len(Link(p).members) \in Nat
        BY <1>2, LinksBuilt
      <3>3. proc[p].m \in Nat BY <1>num
      <3>4. \A j \in DOMAIN Link(p).members : j <= proc[p].m => j < proc[p].m \/ j = proc[p].m
        <4> DEFINE mm == proc[p].m
                   ll == Len(Link(p).members)
        <4>1. mm \in Nat /\ ll \in Nat BY <3>2, <3>3
        <4>2. \A j \in 1..ll : j <= mm => j < mm \/ j = mm
          <5> HIDE DEF mm, ll
          <5> QED BY <4>1
        <4> QED BY <3>2, <4>2
      <3> QED BY <3>1, <3>4
    <2>3. CASE more
      <3>1. \A j \in DOMAIN Link(p).members : j < proc[p].m + 1 => j <= proc[p].m
        BY <1>2, <1>num, SMTT(60)
      <3> QED BY <1>2, <1>3, <2>1, <2>2, <2>3, <3>1 DEF PairsBuilt
    <2>4. CASE ~more
      <3>1. UpVeths(Link(p), cs) \subseteq veths'
        <4>1. CASE Link(p).type = "bridge"
          <5>1. \A j \in DOMAIN Link(p).members : j <= proc[p].m
            <6>1. /\ ~(proc[p].m < Len(Link(p).members)) /\ proc[p].m \in Nat
                  /\ proc[p].m <= Len(Link(p).members)
              BY <1>2, <2>4, <4>1, LinksBuilt
            <6> HIDE DEF more
            <6> QED BY <1>2, <6>1
          <5> QED BY <2>2, <4>1, <5>1 DEF UpVeths
        <4>2. CASE Link(p).type # "bridge" BY <4>2
        <4> QED BY <4>1, <4>2
      <3>2. \A i \in DOMAIN proc[p].topo.links :
              i < proc[p].l + 1 => i < proc[p].l \/ i = proc[p].l
        BY LinksBuilt
      <3>3. ASSUME NEW i \in DOMAIN proc[p].topo.links
            PROVE  \A j \in DOMAIN proc[p].topo.links[i].members : ~(j < 0)
        <4>1. proc[p].topo.links[i] \in LinkDef BY LinksBuilt, TopologyFacts
        <4> QED BY <4>1 DEF LinkDef
      <3> HIDE DEF more
      <3> QED BY <1>2, <1>3, <2>1, <2>4, <3>1, <3>2, <3>3 DEF PairsBuilt
    <2> QED BY <2>3, <2>4
  <1> QED BY <1>3, <1>4, <1>5, <1>6, LinksBuilt DEF BuiltOK

LEMMA AttachBuilt ==
  ASSUME NEW p \in Procs, NetOf(p), AttachMember(p) \/ AttachP2P(p)
  PROVE  BuiltOK(proc[p])'
  <1>1. proc[p].pc = "links" /\ MoreLinks(p) BY DEF AttachMember, AttachP2P, At
  <1>2. TypeOK BY <1>1, LinksBuilt
  <1>3. CASE RollBack(p, proc[p].snapshot)
    BY <1>2, <1>3, RollBackBuilding DEF BuiltOK
  <1>4. CASE AttachMember(p) /\ ~RollBack(p, proc[p].snapshot)
    <2> DEFINE pair == <<Link(p).name, Link(p).members[proc[p].m]>>
               stages == <<<<Host, Host>>, <<Host, MemberId(p, proc[p].m)>>>>
               v == [pair |-> pair, left |-> stages[Len(stages)][1],
                     right |-> stages[Len(stages)][2]]
    <2>1. /\ Link(p).type = "bridge" /\ proc[p].m > 0
          /\ Attach(p, pair, stages, Link(p).name \in bridges)
      BY <1>4 DEF AttachMember
    <2>2. v = MemberVeth(Link(p), proc[p].m, proc[p].snapshot.containers)
      BY DEF MemberVeth, MemberId
    <2>3. /\ containers' = containers /\ bridges' = bridges /\ NextMember(p)
          /\ veths' = veths \cup {v}
      BY <1>4, <2>1, AttachMakes
    <2> HIDE DEF v
    <2> QED BY <1>1, <2>1, <2>2, <2>3, NextMemberBuilt
  <1>5. CASE AttachP2P(p) /\ ~RollBack(p, proc[p].snapshot)
    <2> DEFINE pair == <<Link(p).name, "p2p">>
               stages == <<<<Host, Host>>, <<MemberId(p, 1), Host>>,
                           <<MemberId(p, 1), MemberId(p, 2)>>>>
               v == [pair |-> pair, left |-> stages[Len(stages)][1],
                     right |-> stages[Len(stages)][2]]
    <2>1. Link(p).type = "p2p" /\ Attach(p, pair, stages, TRUE)
      BY <1>5 DEF AttachP2P
    <2>2. UpVeths(Link(p), proc[p].snapshot.containers) = {v}
      BY <2>1 DEF UpVeths, MemberId
    <2>3. /\ containers' = containers /\ bridges' = bridges /\ NextMember(p)
          /\ veths' = veths \cup {v}
      BY <1>5, <2>1, AttachMakes
    <2> HIDE DEF v
    <2> QED BY <1>1, <2>1, <2>2, <2>3, NextMemberBuilt
  <1> QED BY <1>3, <1>4, <1>5

LEMMA ConfigureRoutersBuilt ==
  ASSUME NEW p \in Procs, NetOf(p), ConfigureRouters(p) PROVE BuiltOK(proc[p])'
  <1>1. proc[p].pc = "links" /\ ~MoreLinks(p) BY DEF ConfigureRouters, At
  <1>2. TypeOK BY <1>1, LinksBuilt
  <1>3. CASE RollBack(p, proc[p].snapshot)
    BY <1>2, <1>3, RollBackBuilding DEF BuiltOK
  <1>4. CASE Become(p, [proc[p] EXCEPT !.pc = "commit"])
    <2>1. proc'[p] = [proc[p] EXCEPT !.pc = "commit"] BY <1>2, <1>4, BecomeFact
    <2>2. /\ proc'[p].pc = "commit" /\ proc'[p].topo = proc[p].topo
          /\ proc'[p].l = proc[p].l /\ proc'[p].m = proc[p].m
          /\ proc'[p].snapshot = proc[p].snapshot
      BY <1>1, <2>1, LinksBuilt DEF Process
    <2>3. UNCHANGED <<containers, bridges, veths>> BY DEF ConfigureRouters, host
    <2>4. RoutersMade(proc'[p]) = RoutersMade(proc[p]) BY <1>1, <2>2 DEF RoutersMade
    <2>5. RoutersBuilt(proc[p])' /\ BridgesBuilt(proc[p])' /\ PairsBuilt(proc[p])'
      BY <1>1, <2>2, <2>3, <2>4, LinksBuilt, SamePlace, SameRouters, SameBridges, SameVeths
    <2>6. proc[p].l > Len(proc[p].topo.links) BY <1>1, LinksBuilt DEF MoreLinks
    <2> QED BY <1>1, <2>2, <2>5, <2>6, LinksBuilt DEF BuiltOK
  <1> QED BY <1>3, <1>4 DEF ConfigureRouters, Goto

LEMMA BuildStepsBuilt ==
  ASSUME NEW p \in Procs, NetOf(p),
         \/ CreateContainer(p) \/ BootContainer(p) \/ EnsureBridge(p)
         \/ AttachMember(p) \/ AttachP2P(p) \/ ConfigureRouters(p) \/ Commit(p)
  PROVE  BuiltOK(proc[p])'
  <1>1. CASE Commit(p)
    <2>1. TypeOK BY DEF NetOf, GoneOf
    <2>2. CASE End(p) BY <2>1, <2>2, EndFact, IdleFacts DEF BuiltOK
    <2>3. CASE RollBack(p, proc[p].snapshot)
      BY <2>1, <2>3, RollBackBuilding DEF BuiltOK
    <2> QED BY <1>1, <2>2, <2>3 DEF Commit
  <1> QED BY <1>1, CreateContainerBuilt, BootContainerBuilt, EnsureBridgeBuilt, AttachBuilt,
             ConfigureRoutersBuilt

LEMMA OuterStepsBuilt ==
  ASSUME NEW p \in Procs, NetOf(p), OuterStep(p) PROVE BuiltOK(proc[p])'
  <1>1. GoneOf(p) BY DEF NetOf
  <1> QED BY <1>1, OuterFacts, OpenSnapshotBuilt DEF BuiltOK

LEMMA UserBuilt ==
  ASSUME NEW p \in Procs, NetOf(p), Cancel(p) \/ EditYaml \/ OperatorRemove
  PROVE  BuiltOK(proc[p])'
  <1>1. TypeOK /\ proc[p] \in Process /\ BuiltOK(proc[p])
    BY DEF NetOf, GoneOf, TypeOK, ProcsOK
  <1>2. CASE Cancel(p)
    <2>1. proc'[p] = [proc[p] EXCEPT !.cancelled = TRUE] BY <1>1, <1>2, BecomeFact DEF Cancel
    <2>2. /\ proc'[p].pc = proc[p].pc /\ proc'[p].topo = proc[p].topo
          /\ proc'[p].snapshot = proc[p].snapshot /\ proc'[p].r = proc[p].r
          /\ proc'[p].l = proc[p].l /\ proc'[p].m = proc[p].m
          /\ proc'[p].rollback = proc[p].rollback
      BY <1>1, <2>1 DEF Process
    <2>3. UNCHANGED <<containers, bridges, veths>> BY <1>2 DEF Cancel, host
    <2>4. RoutersMade(proc'[p]) = RoutersMade(proc[p]) BY <2>2 DEF RoutersMade
    <2>5. RoutersBuilt(proc[p]) => RoutersBuilt(proc[p])' BY <2>2, <2>3, <2>4, SameRouters
    <2>6. BridgesBuilt(proc[p]) => BridgesBuilt(proc[p])'
      BY <2>2, <2>3, SamePlace, SameBridges
    <2>7. PairsBuilt(proc[p]) => PairsBuilt(proc[p])' BY <2>2, <2>3, SameVeths
    <2> QED BY <1>1, <2>2, <2>5, <2>6, <2>7 DEF BuiltOK
  <1>3. CASE EditYaml \/ OperatorRemove
    <2>1. proc'[p].pc = "idle" BY <1>3 DEF EditYaml, OperatorRemove, Quiescent, At
    <2> QED BY <2>1 DEF BuiltOK
  <1> QED BY <1>2, <1>3

-----------------------------------------------------------------------------
(* The invariant, and what follows from it.                                *)

LEMMA InitNetwork == ASSUME Init PROVE NetworkInv
  <1>1. \A p \in Procs : proc[p] = Idle BY DEF Init
  <1>2. stateFile = None => HostPairs \subseteq lost.pairs
    <2>1. CASE Fresh BY <2>1 DEF Fresh, HostPairs
    <2>2. ASSUME NEW legacy \in BOOLEAN, Running(legacy) PROVE stateFile # None
      BY <2>2, RunningStateFile, NoneAssumption DEF Init
    <2> QED BY <2>1, <2>2 DEF Init
  <1>3. HostPairs \subseteq TopologyPairs(yaml)
    <2>1. CASE Fresh BY <2>1 DEF Fresh, HostPairs
    <2>2. ASSUME NEW legacy \in BOOLEAN, Running(legacy)
          PROVE  HostPairs \subseteq TopologyPairs(yaml)
      <3>1. \A l \in Links(yaml) : \A v \in UpVeths(l, UpContainers(yaml)) :
              v.pair \in PairsOf(l)
        BY DEF UpVeths, MemberVeth, PairsOf
      <3> QED BY <2>2, <3>1 DEF Running, HostPairs, TopologyPairs
    <2> QED BY <2>1, <2>2 DEF Init
  <1>4. \A p \in Procs : PairsOK(proc[p]) /\ BuiltOK(proc[p])
    BY <1>1, <1>2, IdleFacts DEF PairsOK, BuiltOK
  <1> QED BY <1>3, <1>4, InitGone DEF NetworkInv

LEMMA NextNetwork ==
  ASSUME OneCommand, NetworkInv, [Next]_vars PROVE NetworkInv'
  <1>1. GoneInv' BY NextGone DEF NetworkInv
  <1>2. PICK p \in Procs : Procs = {p} BY DEF OneCommand
  <1>3. NetOf(p) /\ TypeOK BY NetOne DEF NetOf, GoneOf
  <1>4. PairsAreOfTopology /\ PairsOK(proc[p]) /\ HoldsOK(proc[p])
    BY <1>3 DEF NetOf, TypeOK, ProcsOK
  <1>5. CASE Step(p)
    <2>1. PairsOK(proc[p])' /\ BuiltOK(proc[p])'
      BY <1>3, <1>5, BuildStepsPairs, BuildStepsBuilt, OuterStepsPairs, OuterStepsBuilt,
         ListLabelledPairs, RemoveContainerPairs, DeleteVethsPairs, DeleteBridgePairs,
         EraseStatePairs, LosingStepsPairs
      DEF Step, OuterStep
    <2>2. PairsAreOfTopology'
      <3>1. proc[p].pc # "idle"
        <4>1. ~RemoveContainer(p) \/ At(p, "remove") BY Zenon DEF RemoveContainer
        <4>2. ~DeleteBridge(p) \/ At(p, "bridges") BY Zenon DEF DeleteBridge
        <4> QED BY <1>5, <4>1, <4>2
                DEF Step, StatState, ListExisting, OpenSnapshot, CreateContainer,
                    BootContainer, EnsureBridge, AttachMember, AttachP2P,
                    ConfigureRouters, Commit, ReadState, ListLabelled, DeleteVeths,
                    EraseState, SaveInventory, Purge, ReadLegacy, WriteMigrated, At
      <3>2. edits = 0 => proc[p].topo = yaml BY <1>4, <3>1 DEF PairsOK
      <3>3. TopologyPairs(yaml)' = TopologyPairs(yaml')
        BY DEF TopologyPairs, Links, PairsOf
      <3> QED BY <1>3, <1>4, <1>5, <3>2, <3>3, StepPairs DEF PairsAreOfTopology
    <2> QED BY <1>1, <1>2, <2>1, <2>2 DEF NetworkInv, PairsAreOfTopology
  <1>6. CASE Kill(p) \/ \E cmd \in Commands : Begin(p, cmd)
    <2>1. PairsOK(proc[p])' /\ BuiltOK(proc[p])'
      BY <1>3, <1>6, LosingStepsPairs, OuterStepsPairs, OuterStepsBuilt DEF OuterStep
    <2>2. yaml' = yaml /\ edits' = edits /\ HostPairs' = HostPairs
      BY <1>6 DEF Kill, Begin, user, host, HostPairs, InHost
    <2>3. TopologyPairs(yaml)' = TopologyPairs(yaml')
      BY DEF TopologyPairs, Links, PairsOf
    <2> QED BY <1>1, <1>2, <1>4, <2>1, <2>2, <2>3 DEF NetworkInv, PairsAreOfTopology
  <1>7. CASE Cancel(p) \/ EditYaml \/ OperatorRemove
    BY <1>1, <1>2, <1>3, <1>7, UserPairs, UserBuilt DEF NetworkInv, PairsAreOfTopology
  <1>8. CASE UNCHANGED vars
    <2>1. /\ yaml' = yaml /\ edits' = edits /\ proc' = proc /\ lost' = lost
          /\ stateFile' = stateFile /\ containers' = containers /\ bridges' = bridges
          /\ veths' = veths /\ HostPairs' = HostPairs
      BY <1>8 DEF vars, HostPairs, InHost
    <2>2. PairsAreOfTopology' BY <1>4, <2>1 DEF PairsAreOfTopology, TopologyPairs, Links, PairsOf
    <2>3. PairsOK(proc[p])' BY <1>4, <2>1 DEF PairsOK
    <2>4. BuiltOK(proc[p])'
      BY <1>3, <2>1 DEF NetOf, BuiltOK, RoutersBuilt, BridgesBuilt, PairsBuilt
    <2> QED BY <1>1, <1>2, <2>2, <2>3, <2>4 DEF NetworkInv, PairsAreOfTopology
  <1> QED BY <1>2, <1>5, <1>6, <1>7, <1>8 DEF Next

\* What is known of a lab's network, while commands run one at a time.
THEOREM NetworkHolds == OneCommand => (Spec => []NetworkInv)
  <1> SUFFICES ASSUME OneCommand PROVE Spec => []NetworkInv OBVIOUS
  <1>1. Init => NetworkInv BY InitNetwork
  <1>2. NetworkInv /\ [Next]_vars => NetworkInv' BY NextNetwork
  <1> QED BY <1>1, <1>2, PTL DEF Spec

\* A lab without a state file has left no veth pair in the host's namespace
\* that a command could have known, as long as nobody edits the YAML: up's
\* rollback and down delete the pairs of the topology they read.
THEOREM ForgottenPairsGo == OneCommand => (Spec => []ForgottenPairsAreGone)
  <1> SUFFICES ASSUME OneCommand PROVE Spec => []ForgottenPairsAreGone OBVIOUS
  <1>1. NetworkInv => ForgottenPairsAreGone
    <2> SUFFICES ASSUME NetworkInv, Quiescent, stateFile = None, edits = 0
                 PROVE  HostPairs \subseteq lost.pairs
      BY DEF ForgottenPairsAreGone
    <2>1. PICK p \in Procs : Procs = {p} BY DEF OneCommand
    <2>2. PairsOK(proc[p]) /\ HoldsOK(proc[p]) /\ proc[p].pc = "idle"
      BY NetOne DEF NetOf, GoneOf, TypeOK, ProcsOK, Quiescent, At
    <2> QED BY <2>2 DEF PairsOK, HoldsOK
  <1> QED BY <1>1, NetworkHolds, PTL

\* up publishes the whole lab: whatever failed, was cancelled or was edited
\* before, the state file it writes stands for a container of every router and
\* every bridge and veth pair of the topology, each end where it belongs.
THEOREM PublishedLabsAreWhole == OneCommand => (Spec => PublishedLabIsWhole)
  <1> SUFFICES ASSUME OneCommand PROVE Spec => PublishedLabIsWhole OBVIOUS
  <1>1. ASSUME NetworkInv, [Next]_vars, stateFile = None, stateFile' # None,
               \A p \in Procs : ~proc[p].rollback
        PROVE  LET t  == stateFile'.digest
                   cs == stateFile'.containers
               IN  /\ cs = containers'
                   /\ {c.router : c \in cs} = {t.routers[i] : i \in DOMAIN t.routers}
                   /\ stateFile'.bridges = BridgeLinks(t) /\ BridgeLinks(t) \subseteq bridges'
                   /\ \A link \in Links(t) : UpVeths(link, cs) \subseteq veths'
    <2>1. PICK p \in Procs : Step(p)
      BY <1>1 DEF Next, vars, Cancel, Kill, Begin, EditYaml, OperatorRemove, disk
    <2>2. NetOf(p) BY NetOne, <1>1
    <2>3. /\ ~WriteMigrated(p) /\ ~SaveInventory(p)
      <3>1. KnowsOK(proc[p]) /\ BuiltOK(proc[p])
        BY <2>2 DEF NetOf, GoneOf, AccountOf
      <3> QED BY <1>1, <3>1 DEF WriteMigrated, SaveInventory, At, KnowsOK, BuiltOK, IsLegacy
    <2>4. ~Purge(p) /\ ~EraseState(p) BY <1>1 DEF Purge, EraseState, disk
    <2>5. Commit(p)
      BY <1>1, <2>1, <2>3, <2>4
      DEF Step, StatState, ListExisting, OpenSnapshot, CreateContainer, BootContainer,
          EnsureBridge, AttachMember, AttachP2P, Attach, ConfigureRouters, ReadState,
          ListLabelled, RemoveContainer, DeleteVeths, DeleteBridge, ReadLegacy, disk
    <2>6. /\ proc[p].pc = "commit" /\ stateFile' = proc[p].snapshot
          /\ UNCHANGED <<containers, bridges, veths>>
      BY <1>1, <2>5 DEF Commit, At, disk, host
    <2>7. /\ proc[p].snapshot.digest = proc[p].topo /\ RoutersBuilt(proc[p])
          /\ BridgesBuilt(proc[p]) /\ PairsBuilt(proc[p])
          /\ \A i \in DOMAIN proc[p].topo.links : i < proc[p].l
      <3>1. DOMAIN proc[p].topo.links = 1..Len(proc[p].topo.links)
            /\ Len(proc[p].topo.links) \in Nat
        BY <2>2, <2>6, BuiltFacts
      <3> QED BY <2>2, <2>6, <3>1, BuiltFacts DEF BuiltOK
    <2>8. BridgesMade(proc[p]) = BridgeLinks(proc[p].topo)
      BY <2>7 DEF BridgesMade, Passed, BridgeLinks, Links
    <2>9. \A link \in Links(proc[p].topo) :
            UpVeths(link, proc[p].snapshot.containers) \subseteq veths
      BY <2>7 DEF PairsBuilt, Links
    <2>10. RoutersMade(proc[p])
             = {proc[p].topo.routers[i] : i \in DOMAIN proc[p].topo.routers}
      BY <2>6 DEF RoutersMade
    <2> QED BY <2>6, <2>7, <2>8, <2>9, <2>10, ZenonT(60) DEF RoutersBuilt, BridgesBuilt
  <1> QED BY <1>1, NetworkHolds, PTL DEF Spec, PublishedLabIsWhole
=============================================================================
