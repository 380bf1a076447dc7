--------------------------- MODULE SeedLifecycle ----------------------------
(***************************************************************************)
(* The routers' configuration over a lab's ups and downs: the files that   *)
(* PrepareRouterFiles generates (internal/frr/files.go), the FRR that      *)
(* loads and writes them in a container, and the startup commands of the   *)
(* YAML (runRouterCommands, waitForVTYSH in internal/runtime/runtime.go).  *)
(*                                                                         *)
(* A router's frr.conf outlives its container.  The seed marker beside it  *)
(* says that the vtysh commands of the YAML ran; without it an up runs     *)
(* them all.  A configuration is how often each piece of it was applied:   *)
(* piece i > 0 is the i-th command of the YAML, piece 0 the user's own.    *)
(***************************************************************************)
EXTENDS Integers, Sequences

CONSTANTS
    Router,      \* router names
    Order,       \* the routers in the order up handles them, sorted by name
    Script,      \* each router's commands: a sequence of "shell" and "vtysh"
    MaxScript,   \* bound on their number
    Daemon,      \* the daemons that generated labs enable
    Commands,    \* the commands users give: "up", "reseed", "down", "purge"
    MaxCommands, \* bound on commands given
    MaxFaults,   \* bound on failed calls, cancellations, kills and crashes
    MaxEdits,    \* bound on configuration the user writes in the console
    MaxPolls     \* polls of waitForVTYSH before its 20 seconds are over

VARIABLES
    marker,      \* each router's seed marker exists
    conf,        \* each router's frr.conf, NoFile when there is none
    live,        \* each router's running configuration, NoFile: no container
    running,     \* the daemons vtysh sees in each router's container
    needsSeed,   \* up's `prepared`: the routers to seed
    pc,          \* what the command does next
    cmd,         \* the command, "none" between commands
    r, i,        \* router and command loops
    waited, ran, \* waitedForVTYSH, ranVTYSH
    polls,       \* polls of the wait so far
    cut,         \* history: routers whose frr.conf a purge deleted before the marker
    commands, faults, edits

vars == <<marker, conf, live, running, needsSeed, pc, cmd, r, i, waited, ran,
          polls, cut, commands, faults, edits>>

files   == <<marker, conf, cut>>
docker  == <<live, running>>
loops   == <<r, i, waited, ran, polls>>
bounds  == <<commands, edits>>

Piece  == 0..MaxScript
Config == [Piece -> Nat]
NoFile == [p \in {} |-> 0]
Base   == [p \in Piece |-> 0]        \* BaseConfig, or a file cut short

Seeds(x) == {k \in DOMAIN Script[x] : Script[x][k] = "vtysh"}
Plus(config, k) == [config EXCEPT ![k] = @ + 1]
Holds(config, pieces) == config # NoFile /\ \A k \in pieces : config[k] > 0

ASSUME ScriptAssumption ==
    /\ Router # {} /\ Script \in [Router -> Seq({"shell", "vtysh"})]
    /\ Order \in Seq(Router) /\ Router = {Order[k] : k \in DOMAIN Order}
    /\ \A j, k \in DOMAIN Order : Order[j] = Order[k] => j = k
    /\ MaxScript \in Nat /\ \A x \in Router : Len(Script[x]) <= MaxScript
ASSUME BoundAssumption ==
    /\ MaxCommands \in Nat /\ MaxFaults \in Nat /\ MaxEdits \in Nat
    /\ MaxPolls \in Nat \ {0}
    /\ Commands \subseteq {"up", "reseed", "down", "purge"}

This == Order[r]
AllUp(x) == Daemon \subseteq running[x]
Fault == faults < MaxFaults /\ faults' = faults + 1
Up == cmd \in {"up", "reseed"}

Init ==
    /\ marker = [x \in Router |-> FALSE]
    /\ conf = [x \in Router |-> NoFile]
    /\ live = [x \in Router |-> NoFile]
    /\ running = [x \in Router |-> {}]
    /\ needsSeed = {} /\ cut = {}
    /\ pc = "idle" /\ cmd = "none"
    /\ r = 1 /\ i = 1 /\ waited = FALSE /\ ran = FALSE /\ polls = 0
    /\ commands = 0 /\ faults = 0 /\ edits = 0

-----------------------------------------------------------------------------
(* Commands.  LabLifecycle has what they do to containers and networks:    *)
(* here an up or a down first removes the containers, all or not.          *)

Begin(c) ==
    /\ pc = "idle" /\ commands < MaxCommands
    /\ pc' = "clean" /\ cmd' = c /\ commands' = commands + 1
    /\ r' = 1 /\ i' = 1 /\ waited' = FALSE /\ ran' = FALSE /\ polls' = 0
    /\ needsSeed' = {}
    /\ UNCHANGED <<files, docker, faults, edits>>

\* The command returns, or is killed where it stands.
Return == pc' = "idle" /\ cmd' = "none" /\ UNCHANGED <<needsSeed, loops>>

Kill ==
    /\ pc # "idle" /\ Fault /\ Return
    /\ UNCHANGED <<files, docker, bounds>>

\* Every error of up but those of its first cleanup.
RollBack == pc' = "rollback" /\ UNCHANGED <<cmd, needsSeed, loops>>

NoContainers == live' = [x \in Router |-> NoFile] /\ running' = [x \in Router |-> {}]

Clean ==
    /\ pc = "clean"
    /\ \/ /\ NoContainers /\ UNCHANGED faults
          /\ \/ Up /\ pc' = "marker" /\ UNCHANGED <<cmd, needsSeed, loops>>
             \/ cmd = "purge" /\ pc' = "purge" /\ UNCHANGED <<cmd, needsSeed, loops>>
             \/ cmd = "down" /\ Return
       \/ Fault /\ Return /\ UNCHANGED docker
    /\ UNCHANGED <<files, bounds>>

CleanAfterError ==
    /\ pc = "rollback"
    /\ \/ NoContainers /\ UNCHANGED faults
       \/ Fault /\ UNCHANGED docker
    /\ Return
    /\ UNCHANGED <<files, bounds>>

\* RemoveAll of the lab directory deletes the files in no fixed order.
PurgeFile ==
    /\ pc = "purge"
    /\ \E x \in Router :
         \/ /\ marker[x] /\ marker' = [marker EXCEPT ![x] = FALSE]
            /\ cut' = cut \ {x} /\ UNCHANGED conf
         \/ /\ conf[x] # NoFile /\ conf' = [conf EXCEPT ![x] = NoFile]
            /\ cut' = IF marker[x] THEN cut \cup {x} ELSE cut
            /\ UNCHANGED marker
    /\ UNCHANGED <<docker, needsSeed, pc, cmd, loops, faults, bounds>>

\* It ends with all files gone, or with an error and some that stay.
PurgeEnds ==
    /\ pc = "purge"
    /\ \/ (\A x \in Router : ~marker[x] /\ conf[x] = NoFile) /\ UNCHANGED faults
       \/ Fault
    /\ Return
    /\ UNCHANGED <<files, docker, bounds>>

-----------------------------------------------------------------------------
(* PrepareRouterFiles, then the container, router by router.               *)

\* Mutant: a reseed leaves the marker, which MarkSeeded will write anyway.
KeepMarker ==
    /\ pc = "marker" /\ pc' = "conf"
    /\ UNCHANGED <<files, docker, cmd, needsSeed, loops, faults, bounds>>

\* A reseed removes the marker first.
RemoveMarker ==
    /\ pc = "marker"
    /\ \/ /\ marker' = [marker EXCEPT ![This] = @ /\ cmd # "reseed"]
          /\ cut' = IF marker'[This] THEN cut ELSE cut \ {This}
          /\ pc' = "conf" /\ UNCHANGED <<cmd, needsSeed, loops, faults>>
       \/ Fault /\ RollBack /\ UNCHANGED <<marker, cut>>
    /\ UNCHANGED <<conf, docker, bounds>>

\* Mutant: frr.conf is generated at every up, like the daemons file.
AlwaysWrites == TRUE

\* Then it rewrites frr.conf; otherwise only a missing file is written.
WritesConf == cmd = "reseed" \/ conf[This] = NoFile

WriteBase ==
    /\ pc = "conf"
    /\ \/ /\ conf' = IF WritesConf THEN [conf EXCEPT ![This] = Base] ELSE conf
          /\ pc' = "stat" /\ UNCHANGED <<cmd, needsSeed, loops, faults>>
       \/ /\ Fault /\ RollBack
          /\ \/ UNCHANGED conf
             \/ WritesConf /\ conf' = [conf EXCEPT ![This] = Base]
    /\ UNCHANGED <<marker, cut, docker, bounds>>

\* No marker, or a reseed: the router needs its seeds.
StatMarker ==
    /\ pc = "stat"
    /\ \/ /\ needsSeed' = IF cmd = "reseed" \/ ~marker[This]
                          THEN needsSeed \cup {This} ELSE needsSeed
          /\ pc' = "boot" /\ UNCHANGED <<cmd, loops, faults>>
       \/ Fault /\ RollBack
    /\ UNCHANGED <<files, docker, bounds>>

\* Mutant: the loop goes one router too far.
NextRouterTooFar(step, done) ==
    IF r <= Len(Order) THEN r' = r + 1 /\ pc' = step ELSE r' = 1 /\ pc' = done

\* The loops over the routers.
NextRouter(step, done) ==
    IF r < Len(Order) THEN r' = r + 1 /\ pc' = step ELSE r' = 1 /\ pc' = done

\* CreateContainer and StartContainer: FRR starts from frr.conf.
Boot ==
    /\ pc = "boot"
    /\ \/ /\ live' = [live EXCEPT ![This] = conf[This]]
          /\ NextRouter("marker", "command")
          /\ UNCHANGED <<running, faults, cmd, needsSeed, i, waited, ran, polls>>
       \/ Fault /\ RollBack /\ UNCHANGED docker
    /\ UNCHANGED <<files, bounds>>

\* A daemon comes up, when it does, or crashes.
DaemonStarts ==
    /\ \E x \in Router, d \in Daemon :
         /\ live[x] # NoFile /\ d \notin running[x]
         /\ running' = [running EXCEPT ![x] = @ \cup {d}]
    /\ UNCHANGED <<files, live, needsSeed, pc, cmd, loops, faults, bounds>>

DaemonCrashes ==
    /\ Fault
    /\ \E x \in Router, d \in Daemon :
         d \in running[x] /\ running' = [running EXCEPT ![x] = @ \ {d}]
    /\ UNCHANGED <<files, live, needsSeed, pc, cmd, loops, bounds>>

-----------------------------------------------------------------------------
(* runRouterCommands, after the links.                                     *)

Command == Script[This][i]
MoreCommands == i <= Len(Script[This])
NextCommand == i' = i + 1 /\ pc' = "command" /\ UNCHANGED <<r, cmd, needsSeed>>

\* A shell command always runs.
RunShell ==
    /\ pc = "command" /\ MoreCommands /\ Command = "shell"
    /\ \/ NextCommand /\ UNCHANGED <<waited, ran, polls, faults>>
       \/ Fault /\ RollBack
    /\ UNCHANGED <<files, docker, bounds>>

SkipSeed ==
    /\ pc = "command" /\ MoreCommands /\ Command = "vtysh" /\ This \notin needsSeed
    /\ NextCommand /\ UNCHANGED <<waited, ran, polls>>
    /\ UNCHANGED <<files, docker, faults, bounds>>

AtSeed ==
    pc = "command" /\ MoreCommands /\ Command = "vtysh" /\ This \in needsSeed

\* Mutant: every poll renews the deadline.
PollForever == polls' = 0

Poll == polls' = polls + 1

\* waitForVTYSH: `show daemons` until it names every enabled daemon, or the
\* deadline has passed, or the command is cancelled.
WaitForVTYSH ==
    /\ AtSeed /\ ~waited
    /\ \/ /\ AllUp(This)
          /\ waited' = TRUE /\ UNCHANGED <<pc, cmd, needsSeed, r, i, ran, polls, faults>>
       \/ /\ polls < MaxPolls
          /\ Poll
          /\ UNCHANGED <<pc, cmd, needsSeed, r, i, waited, ran, faults>>
       \/ polls = MaxPolls /\ RollBack /\ UNCHANGED faults
       \/ Fault /\ RollBack
    /\ UNCHANGED <<files, docker, bounds>>

\* Mutant: the exit code says it all.
Trust(written) == ran' = TRUE /\ NextCommand /\ UNCHANGED <<waited, polls>>

\* vtysh exits with 0 even if FRR refused to write, and says so only in its
\* output, which vtyshWriteFailure reads.
Judge(written) ==
    IF written THEN ran' = TRUE /\ NextCommand /\ UNCHANGED <<waited, polls>>
               ELSE RollBack

\* The command's text, `end` and `write memory` in one exec.  FRR refuses to
\* write while a daemon is missing.
RunSeed ==
    LET applied == Plus(live[This], i)
        writes  == [conf EXCEPT ![This] = applied]
    IN  /\ AtSeed /\ waited
        /\ \/ /\ live' = [live EXCEPT ![This] = applied]
              /\ conf' = IF AllUp(This) THEN writes ELSE conf
              /\ Judge(AllUp(This)) /\ UNCHANGED faults
           \/ \* an error, an exit code or a lost answer, at any point
              /\ Fault /\ RollBack
              /\ live' \in {live, [live EXCEPT ![This] = applied]}
              /\ conf' \in {conf} \cup {c \in {writes} : AllUp(This) /\ live' # live}
        /\ UNCHANGED <<marker, cut, running, bounds>>

\* MarkSeeded, when the router's last command has run and one was a seed.
Mark ==
    /\ pc = "command" /\ ~MoreCommands
    /\ \/ /\ marker' = [marker EXCEPT ![This] = @ \/ ran]
          /\ i' = 1 /\ waited' = FALSE /\ ran' = FALSE /\ polls' = 0
          /\ NextRouter("command", "commit")
          /\ UNCHANGED <<cmd, needsSeed, faults>>
       \/ ran /\ Fault /\ RollBack /\ UNCHANGED marker
    /\ UNCHANGED <<conf, cut, docker, bounds>>

\* state.Write.
Commit ==
    /\ pc = "commit"
    /\ \/ Return /\ UNCHANGED faults
       \/ Fault /\ RollBack
    /\ UNCHANGED <<files, docker, bounds>>

\* The user configures a router in the console and writes it.
UserWrites ==
    /\ pc = "idle" /\ edits < MaxEdits
    /\ \E x \in Router :
         /\ live[x] # NoFile /\ AllUp(x)
         /\ live' = [live EXCEPT ![x] = Plus(@, 0)]
         /\ conf' = [conf EXCEPT ![x] = Plus(live[x], 0)]
    /\ edits' = edits + 1
    /\ UNCHANGED <<marker, cut, running, needsSeed, pc, cmd, loops, faults, commands>>

-----------------------------------------------------------------------------
(* The specification.                                                      *)

\* The command's own calls.
Step ==
    \/ Clean \/ CleanAfterError \/ PurgeFile \/ PurgeEnds
    \/ RemoveMarker \/ WriteBase \/ StatMarker \/ Boot
    \/ RunShell \/ SkipSeed \/ WaitForVTYSH \/ RunSeed \/ Mark \/ Commit

Next == Step \/ Kill \/ DaemonStarts \/ DaemonCrashes \/ UserWrites \/ \E c \in Commands : Begin(c)

Spec == Init /\ [][Next]_vars
FairSpec == Spec /\ WF_vars(Step)

-----------------------------------------------------------------------------
(* Properties.                                                             *)

\* Types, and loop indices inside their lists.
TypeOK ==
    /\ marker \in [Router -> BOOLEAN]
    /\ conf \in [Router -> Config \cup {NoFile}]
    /\ live \in [Router -> Config \cup {NoFile}]
    /\ running \in [Router -> SUBSET Daemon]
    /\ needsSeed \in SUBSET Router /\ cut \in SUBSET Router
    /\ pc \in {"idle", "clean", "rollback", "purge", "marker", "conf", "stat", "boot",
               "command", "commit"}
    /\ cmd \in Commands \cup {"none"}
    /\ r \in DOMAIN Order /\ i \in Nat \ {0}
    /\ waited \in BOOLEAN /\ ran \in BOOLEAN /\ polls \in 0..MaxPolls
    /\ commands \in Nat /\ faults \in Nat /\ edits \in Nat

\* A marker tells the truth: a router with one has every vtysh command of its
\* YAML in frr.conf, whatever failed or was killed, because a reseed removes
\* the marker before it resets the file and the marker comes after the last
\* command was written (frr/files.go 56-73; runtime.go 516-544, 780-791).  A
\* purge may delete the file first: see EveryUpDeliversSeeds.
MarkerMeansSeeded ==
    \A x \in Router : marker[x] /\ x \notin cut => Holds(conf[x], Seeds(x))

Delivers(x) == Holds(conf'[x], Seeds(x)) /\ Holds(live'[x], Seeds(x))
Succeeds == pc = "commit" /\ pc' = "idle" /\ faults' = faults

\* An up that succeeds leaves every router with all its seeds, running and in
\* frr.conf, whether it ran them or found them there (README.md:88, 297), but
\* where a purge was interrupted between the file and its marker.
UpDeliversSeeds == [][Succeeds => \A x \in Router \ cut : Delivers(x)]_vars

\* The same without the exception, as README.md:297 has it.  Not so after an
\* interrupted purge.
EveryUpDeliversSeeds == [][Succeeds => \A x \in Router : Delivers(x)]_vars

\* An up without --reseed takes nothing out of frr.conf: what the user wrote
\* outlives downs, ups and their failures (frr/files.go 38-39, 63-67).
WrittenConfigSurvives ==
    [][cmd \notin {"reseed", "purge"} =>
         \A x \in Router : conf[x] # NoFile =>
            /\ conf'[x] # NoFile
            /\ \A k \in Piece : conf'[x][k] >= conf[x][k]]_vars

\* An up ends even if a daemon never comes up: waitForVTYSH gives up
\* (runtime.go 720-749).  An exec is taken to return.
CommandsEnd == pc # "idle" ~> pc = "idle"
=============================================================================
