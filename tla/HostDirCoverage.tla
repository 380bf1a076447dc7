-------------------------- MODULE HostDirCoverage ---------------------------
(***************************************************************************)
(* Which topologies frridge-mp forwards to the guest: resolveTopology in   *)
(* cmd/frridge-mp/root.go.  The topology file and the mount sources it     *)
(* names have to be below the one directory the guest mounts, symbolic     *)
(* links followed.  filepath.EvalSymlinks follows them where every         *)
(* component exists; where one is missing, resolvedCoveragePath walks by   *)
(* hand, here step by step.                                                *)
(*                                                                         *)
(* A path is the sequence of its components from the root; a file system   *)
(* maps the paths that exist to directories, files and links.              *)
(***************************************************************************)
EXTENDS Integers, Sequences, SequencesExt

CONSTANTS
    Name,        \* file names
    Trees,       \* the file systems considered
    Requests,    \* the command lines and topologies considered
    Universe,    \* paths that may come to exist
    MaxLinks,    \* links either walk follows: 255 in the code
    GuestDir     \* where the guest mounts the host directory

VARIABLES
    tree,     \* the host's file system
    request,  \* the command line and its topology
    stage,    \* of resolveTopology
    hostDir,  \* effectiveHostDir
    todo,     \* paths whose coverage is still to be checked
    walk      \* resolvedCoveragePath's walk by hand

vars == <<tree, request, stage, hostDir, todo, walk>>

Part == Name \cup {".."}
Path == Seq(Name)
Directory == [kind |-> "dir", abs |-> FALSE, to |-> <<>>]
File      == [kind |-> "file", abs |-> FALSE, to |-> <<>>]
LinkTo(abs, to) == [kind |-> "link", abs |-> abs, to |-> to]
Kind(t, path) == IF path \in DOMAIN t THEN t[path].kind ELSE "missing"

\* --file, the working directory as os.Getwd gives it, --host-dir if given
\* ("unset", "blank" or "given"), and the topology's mount sources.
Request == [file : Path, cwd : Path, hostFlag : {"unset", "blank", "given"}, hostDir : Path,
            sources : Seq([abs : BOOLEAN, parts : Seq(Part)])]

Node == [kind : {"dir", "file", "link"}, abs : BOOLEAN, to : Seq(Part)]

\* A tree: everything in it is in a directory of it, up to the root.
IsTree(t) ==
    /\ DOMAIN t \subseteq Path /\ <<>> \in DOMAIN t /\ t[<<>>] = Directory
    /\ \A path \in DOMAIN t :
         t[path] \in Node /\ (path # <<>> => Kind(t, Front(path)) = "dir")

ASSUME NameAssumption == ".." \notin Name
ASSUME TreeAssumption == \A t \in Trees : IsTree(t)
ASSUME RequestAssumption == Requests \subseteq Request
ASSUME UniverseAssumption == Universe \subseteq Path
ASSUME LinkAssumption == MaxLinks \in Nat \ {0}
ASSUME GuestAssumption == GuestDir \in Path /\ GuestDir # <<>>

Dir(path) == IF path = <<>> THEN <<>> ELSE Front(path)
Below(dir, path) == IsPrefix(dir, path)

\* filepath.Clean of an absolute path: `..` goes back before links are known.
Into(dir, part) == IF part = ".." THEN Dir(dir) ELSE Append(dir, part)
Clean(parts) ==
    LET done[n \in 0..Len(parts)] == IF n = 0 THEN <<>> ELSE Into(done[n - 1], parts[n])
    IN  done[Len(parts)]

-----------------------------------------------------------------------------
(* filepath.EvalSymlinks, which resolves as the kernel does.               *)

WalkState == [at : Path, parts : Seq(Part), links : 0..MaxLinks,
              result : {"walking", "ok", "missing", "error"}]

Unwalked(path) == [at |-> <<>>, parts |-> path, links |-> 0, result |-> "walking"]

Follow(t, w) ==
    LET next == Append(w.at, Head(w.parts))
        rest == Tail(w.parts)
    IN  CASE w.parts = <<>> -> [w EXCEPT !.result = "ok"]
          [] w.parts # <<>> ->
               CASE Head(w.parts) = ".." -> [w EXCEPT !.at = Dir(@), !.parts = rest]
                 [] Head(w.parts) # ".." /\ Kind(t, next) = "missing" ->
                      [w EXCEPT !.result = "missing"]
                 [] Head(w.parts) # ".." /\ Kind(t, next) = "link" ->
                      IF w.links = MaxLinks THEN [w EXCEPT !.result = "error"]
                      ELSE [w EXCEPT !.at = IF t[next].abs THEN <<>> ELSE @,
                                     !.parts = t[next].to \o rest, !.links = @ + 1]
                 [] Head(w.parts) # ".." /\ Kind(t, next) = "file" /\ rest # <<>> ->
                      [w EXCEPT !.result = "error"]
                 [] OTHER -> [w EXCEPT !.at = next, !.parts = rest]

Resolve(t, w) ==
    LET end[v \in WalkState] == IF v.result = "walking" THEN end[Follow(t, v)] ELSE v
    IN  end[w]

Eval(t, path) == Resolve(t, Unwalked(path))

-----------------------------------------------------------------------------
(* resolvedCoveragePath.                                                   *)

\* Mutant: the target comes after what is left of the path.
TargetLast(w, node) ==
    [at |-> IF node.abs THEN <<>> ELSE w.at, parts |-> Tail(w.parts) \o node.to]

ThroughLink(w, node) ==
    [at |-> IF node.abs THEN <<>> ELSE w.at, parts |-> node.to \o Tail(w.parts)]

\* Mutant: what is missing is taken to be outside.
StopAtMissing(t, w) ==
    LET next == Append(w.at, Head(w.parts))
    IN  IF Kind(t, next) = "missing" THEN [w EXCEPT !.result = "error"]
        ELSE [w EXCEPT !.at = next, !.parts = Tail(@)]

\* A component that is no link is taken as it is, if it exists or not.
TakeAsIs(t, w) == [w EXCEPT !.at = Append(@, Head(w.parts)), !.parts = Tail(@)]

\* One turn of the loop.  Lstat cannot look below a file.
WalkOn(t, w) ==
    LET next == Append(w.at, Head(w.parts))
    IN  CASE w.parts = <<>> -> [w EXCEPT !.result = "ok"]
          [] w.parts # <<>> /\ Head(w.parts) = ".." ->
               [w EXCEPT !.at = Dir(@), !.parts = Tail(@)]
          [] w.parts # <<>> /\ Head(w.parts) # ".." /\ Kind(t, w.at) = "file" ->
               [w EXCEPT !.result = "error"]
          [] w.parts # <<>> /\ Head(w.parts) # ".." /\ Kind(t, next) = "link" ->
               IF w.links = MaxLinks THEN [w EXCEPT !.result = "error"]
               ELSE LET through == ThroughLink(w, t[next])
                    IN  [w EXCEPT !.at = through.at, !.parts = through.parts, !.links = @ + 1]
          [] OTHER -> TakeAsIs(t, w)

\* It is needed only where something is missing.
StartWalk(path) ==
    LET eval == Eval(tree, path)
    IN  IF eval.result = "missing" THEN Unwalked(path) ELSE eval

-----------------------------------------------------------------------------
(* resolveTopology.                                                        *)

\* The topology file, its links followed.
ResolvedFile == Eval(tree, request.file).at

\* Mutant: the file as it was named.
NamedFile == request.file

\* The file that is loaded and forwarded.
TopologyFile == ResolvedFile

\* Topology.ResolvePath, against the directory of the file, then filepath.Abs.
SourcePath(base, source) ==
    IF source.abs THEN Clean(source.parts) ELSE Clean(base \o source.parts)

Checked == <<TopologyFile>> \o
    [i \in DOMAIN request.sources |-> SourcePath(Dir(TopologyFile), request.sources[i])]

NoWalk == [Unwalked(<<>>) EXCEPT !.result = "ok"]

Init ==
    /\ tree \in Trees
    /\ request \in Requests
    /\ Eval(tree, request.cwd).result = "ok"
    /\ stage = "file" /\ hostDir = <<>> /\ todo = <<>> /\ walk = NoWalk

Return(result) == stage' = result /\ todo' = <<>> /\ walk' = NoWalk

\* The file has to exist; its directory is the host directory by default.
StatFile ==
    /\ stage = "file"
    /\ \/ /\ Eval(tree, request.file).result = "ok"
          /\ stage' = "hostdir" /\ UNCHANGED todo
          /\ walk' = CASE request.hostFlag = "unset" -> StartWalk(Dir(request.file))
                       [] request.hostFlag = "given" -> StartWalk(request.hostDir)
                       [] request.hostFlag = "blank" -> [NoWalk EXCEPT !.at = request.cwd]
       \/ Eval(tree, request.file).result # "ok" /\ Return("failed")
    /\ UNCHANGED <<tree, request, hostDir>>

\* One turn of a walk by hand, of the host directory or of a path to check.
Walk ==
    /\ walk.result = "walking"
    /\ walk' = WalkOn(tree, walk)
    /\ UNCHANGED <<tree, request, stage, hostDir, todo>>

\* effectiveHostDir; a blank one is the working directory, its links and all.
SetHostDir ==
    /\ stage = "hostdir" /\ walk.result # "walking"
    /\ \/ /\ walk.result = "ok"
          /\ hostDir' = walk.at
          /\ stage' = "check" /\ todo' = Checked /\ walk' = StartWalk(Head(Checked))
       \/ walk.result = "error" /\ Return("failed") /\ UNCHANGED hostDir
    /\ UNCHANGED <<tree, request>>

\* resolvedCoveragePath of the host directory, which has no links any more
\* where a part of it is missing: walking it by hand leads to itself.
RealHostDir ==
    LET eval == Eval(tree, hostDir)
    IN  IF eval.result = "missing" THEN hostDir ELSE eval.at

\* ensureBelowHostDir, of the file and then of every mount source.
CheckPath ==
    /\ stage = "check" /\ walk.result # "walking"
    /\ \/ /\ walk.result = "ok" /\ Below(RealHostDir, walk.at)
          /\ todo' = Tail(todo)
          /\ \/ Tail(todo) # <<>> /\ stage' = "check" /\ walk' = StartWalk(Head(Tail(todo)))
             \/ Tail(todo) = <<>> /\ stage' = "forwarded" /\ walk' = NoWalk
       \/ walk.result = "ok" /\ ~Below(RealHostDir, walk.at) /\ Return("refused")
       \/ walk.result = "error" /\ Return("refused")
    /\ UNCHANGED <<tree, request, hostDir>>

Next == StatFile \/ Walk \/ SetHostDir \/ CheckPath

-----------------------------------------------------------------------------
(* Properties.                                                             *)

\* A file system in which everything that is missing has become a directory,
\* as far as it can be.
Grown(t) ==
    LET new == {path \in Universe \ DOMAIN t :
                  \A n \in 0..Len(path) : Kind(t, SubSeq(path, 1, n)) \in {"dir", "missing"}}
    IN  [path \in DOMAIN t \cup new |-> IF path \in DOMAIN t THEN t[path] ELSE Directory]

Outside(t, path) ==
    LET eval == Eval(t, path)
    IN  eval.result = "ok" /\ ~Below(RealHostDir, eval.at)

\* What is forwarded stays below the host directory, as the kernel resolves
\* it, now or when what is missing has been made: no link, however it is
\* combined with `..` and with missing components, leads a mount out of it
\* (root.go 248-334).
CoveredStaysBelow ==
    stage = "forwarded" =>
      \A t \in {tree, Grown(tree)}, i \in DOMAIN Checked : ~Outside(t, Checked[i])

\* No path is refused that would be below: a source that is missing, or is a
\* link into what is missing, is for the command in the guest to judge
\* ("Preserve missing sources for commands such as down", root.go 291-292).
RefusedIsOutside ==
    [][stage = "check" /\ stage' = "refused" =>
         LET eval == Eval(Grown(tree), Head(todo))
         IN  eval.result # "ok" \/ ~Below(RealHostDir, eval.at)]_vars

\* The guest's file system: its own directories and the mount.
Guest ==
    LET real == RealHostDir
        own  == {SubSeq(GuestDir, 1, n) : n \in 0..(Len(GuestDir) - 1)}
        seen == {SubSeq(path, Len(real) + 1, Len(path)) :
                   path \in {p \in DOMAIN tree : Below(real, p)}}
    IN  [path \in own \cup {GuestDir \o p : p \in seen} |->
           IF path \in own THEN Directory ELSE tree[real \o SubSeq(path, Len(GuestDir) + 1, Len(path))]]

\* filepath.Rel(hostDir, resolvedFile), as components.
Common == Len(LongestCommonPrefix({hostDir, TopologyFile}))
Rel == [i \in 1..(Len(hostDir) - Common) |-> ".."]
         \o SubSeq(TopologyFile, Common + 1, Len(TopologyFile))

\* The guest reads the topology that was checked, and what it finds in its
\* mount for a mount source is the file that was checked for it, though it
\* resolves both on its own, under another directory (root.go 205-226;
\* config.go 250-281, 556-562).  With a blank --host-dir in a directory reached
\* through a link, the first fails.  A source may also lead the guest out of its
\* mount, to files of its own: an absolute one, or one through an absolute link.
GuestSeesTheSame ==
    stage = "forwarded" /\ hostDir = RealHostDir =>
      \A guest \in {Guest} :
        LET inGuest(path) == GuestDir \o SubSeq(path, Len(hostDir) + 1, Len(path))
            name == Clean(GuestDir \o Rel)
            file == Eval(guest, name)
        IN  /\ file.result = "ok" /\ file.at = inGuest(ResolvedFile)
            /\ \A i \in DOMAIN request.sources :
                 LET source == Eval(guest, SourcePath(Dir(name), request.sources[i]))
                     here   == Eval(tree, SourcePath(Dir(ResolvedFile), request.sources[i]))
                 IN  source.result = "ok" /\ Below(GuestDir, source.at) =>
                       here.result = "ok" /\ source.at = inGuest(here.at)

\* The guest's directory is named by a hash of the host's path (shortHash,
\* multipass.go 590), and nothing else has that name: a source that leaves the
\* mount upwards does not come back into it by name.
GuestNameIsNew ==
    LET Other == Part \ {Last(GuestDir)}
    IN  /\ Front(GuestDir) \in Seq(Other)
        /\ \A t \in Trees : \A path \in DOMAIN t : path \in Seq(Other) /\ t[path].to \in Seq(Other)
        /\ \A r \in Requests : \A i \in DOMAIN r.sources : r.sources[i].parts \in Seq(Other)
=============================================================================
