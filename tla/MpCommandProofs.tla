--------------------------- MODULE MpCommandProofs ----------------------------
(***************************************************************************)
(* What frridge-mp forwards and what it believes of the answer: proofs     *)
(* about MpCommand, for any file systems, requests and statuses.           *)
(*                                                                         *)
(* First the two recursive functions, Clean and the end of a resolution;   *)
(* then what resolving keeps when missing paths come to exist; then that   *)
(* the walk by hand resolves as the kernel will, and what was checked.     *)
(***************************************************************************)
EXTENDS MpCommand, GuestShellProofs

-----------------------------------------------------------------------------
(* Recursion.                                                              *)

\* A loop over S that goes on from x to F[x] while x is in D has a result for
\* every x: one of those that every relation closed under the loop has for x,
\* if there are any.
LEMMA LoopExists ==
  ASSUME NEW S, NEW F \in [S -> S], NEW D \in SUBSET S
  PROVE  \E f : f = [x \in S |-> IF x \in D THEN f[F[x]] ELSE x]
  <1> DEFINE Closed(R) == /\ \A x \in S \ D : <<x, x>> \in R
                          /\ \A x \in D, y \in S : <<F[x], y>> \in R => <<x, y>> \in R
             L == {p \in S \X S : \A R \in SUBSET (S \X S) : Closed(R) => p \in R}
             Results(x) == {y \in S : <<x, y>> \in L}
             f == [x \in S |-> CHOOSE y : y \in Results(x)]
  <1>1. L \in SUBSET (S \X S) OBVIOUS
  <1>2. \A p \in S \X S : p \in L <=> \A R \in SUBSET (S \X S) : Closed(R) => p \in R OBVIOUS
  <1>3. Closed(L)
    <2>1. \A x \in S \ D : <<x, x>> \in L BY <1>2
    <2>2. ASSUME NEW x \in D, NEW y \in S, <<F[x], y>> \in L PROVE <<x, y>> \in L
      <3>1. x \in S /\ F[x] \in S OBVIOUS
      <3>2. ASSUME NEW R \in SUBSET (S \X S), Closed(R) PROVE <<x, y>> \in R
        BY <1>2, <2>2, <3>1, <3>2
      <3> QED BY <1>2, <3>1, <3>2
    <2> QED BY <2>1, <2>2
  <1>4. ASSUME NEW x \in S, NEW y \in S, <<x, y>> \in L, x \in D => <<F[x], y>> \notin L
        PROVE  x \notin D /\ y = x
    <2> SUFFICES ASSUME x \in D \/ y # x PROVE FALSE OBVIOUS
    <2> DEFINE R == L \ {<<x, y>>}
    <2>1. R \in SUBSET (S \X S) BY <1>1
    <2>2. \A z \in S \ D : <<z, z>> \in R BY <1>3
    <2>3. ASSUME NEW z \in D, NEW v \in S, <<F[z], v>> \in R PROVE <<z, v>> \in R
      <3>1. <<z, v>> \in L BY <1>3, <2>3
      <3>2. <<z, v>> # <<x, y>> BY <1>4, <2>3
      <3> QED BY <3>1, <3>2
    <2>4. Closed(R) BY <2>2, <2>3
    <2> HIDE DEF Closed
    <2>5. <<x, y>> \in R BY <1>2, <1>4, <2>1, <2>4
    <2> QED BY <2>5
  <1>5. \A x \in D : Results(x) = Results(F[x])
    <2> TAKE x \in D
    <2>1. x \in S /\ F[x] \in S OBVIOUS
    <2>2. \A y \in S : <<F[x], y>> \in L => <<x, y>> \in L BY <1>3
    <2>3. \A y \in S : <<x, y>> \in L => <<F[x], y>> \in L BY <1>4, <2>1
    <2> HIDE DEF L
    <2> QED BY <2>2, <2>3
  <1>6. \A x \in S \ D : Results(x) = {x}
    <2> TAKE x \in S \ D
    <2>1. <<x, x>> \in L BY <1>3
    <2>2. \A y \in S : <<x, y>> \in L => y = x BY <1>4
    <2> HIDE DEF L
    <2> QED BY <2>1, <2>2
  <1> HIDE DEF Results
  <1>7. \A x \in S : f[x] = IF x \in D THEN f[F[x]] ELSE x
    <2> TAKE x \in S
    <2>1. CASE x \in D BY <1>5, <2>1
    <2>2. CASE x \notin D BY <1>6, <2>2
    <2> QED BY <2>1, <2>2
  <1>8. f = [x \in S |-> IF x \in D THEN f[F[x]] ELSE x]
    <2>1. f = [x \in S |-> f[x]] OBVIOUS
    <2> HIDE DEF f
    <2> QED BY <1>7, <2>1
  <1> QED BY <1>8

\* A path without its last part is a path, and so is one with another part.
LEMMA PathFacts ==
  ASSUME NEW path \in Path
  PROVE  /\ Dir(path) \in Path
         /\ \A x \in Name : /\ Append(path, x) \in Path /\ Append(path, x) # <<>>
                            /\ Front(Append(path, x)) = path
                            /\ Len(path) \in 0..Len(Append(path, x))
                            /\ SubSeq(Append(path, x), 1, Len(path)) = path
  <1>1. Dir(path) \in Path
    <2>1. CASE path = <<>> BY <2>1 DEF Dir
    <2>2. CASE path # <<>>
      <3>1. Len(path) - 1 \in 0..Len(path)
        BY <2>2, EmptySeq, LenProperties DEF Path
      <3>2. SubSeq(path, 1, Len(path) - 1) \in Seq(Name) BY <3>1, PrefixFacts DEF Path
      <3> QED BY <2>2, <3>2 DEF Dir, Front, Path
    <2> QED BY <2>1, <2>2
  <1>2. ASSUME NEW x \in Name
        PROVE  /\ Append(path, x) \in Path /\ Append(path, x) # <<>>
               /\ Front(Append(path, x)) = path
               /\ Len(path) \in 0..Len(Append(path, x))
               /\ SubSeq(Append(path, x), 1, Len(path)) = path
    <2> DEFINE p == Append(path, x)
    <2>1. /\ p \in Seq(Name) /\ Len(p) = Len(path) + 1 /\ Len(path) \in Nat
          /\ \A i \in 1..Len(path) : p[i] = path[i]
      BY AppendProperties, LenProperties DEF Path
    <2>2. Len(path) \in 0..Len(p) BY <2>1
    <2> HIDE DEF p
    <2>3. SubSeq(p, 1, Len(path)) = path
      <3> DEFINE q == SubSeq(p, 1, Len(path))
      <3>1. /\ q \in Seq(Name) /\ Len(q) = Len(path)
            /\ \A i \in 1..Len(path) : q[i] = p[i]
        BY <2>1, <2>2, PrefixFacts
      <3> HIDE DEF q
      <3>2. q = path BY <2>1, <3>1, SeqEqual DEF Path
      <3> QED BY <3>2 DEF q
    <2>4. Front(p) = path BY <2>1, <2>3 DEF Front
    <2>5. p # <<>> BY <2>1
    <2> QED BY <2>1, <2>2, <2>3, <2>4, <2>5 DEF p, Path
  <1> QED BY <1>1, <1>2

LEMMA PartsFacts ==
  ASSUME NEW parts \in Seq(Part), parts # <<>>
  PROVE  /\ Head(parts) \in Part /\ Tail(parts) \in Seq(Part)
         /\ Len(Tail(parts)) = Len(parts) - 1 /\ Len(parts) \in Nat \ {0}
         /\ (Head(parts) # ".." => Head(parts) \in Name)
  BY HeadTailProperties, LenProperties, EmptySeq DEF Part

\* d goes from path to path over the parts.
Goes(d, parts) ==
    /\ d \in [0..Len(parts) -> Path]
    /\ \A n \in 1..Len(parts) : d[n] = Into(d[n - 1], parts[n])

\* Clean goes over the parts from the root.
LEMMA CleanSteps ==
  ASSUME NEW parts \in Seq(Part)
  PROVE  \E d : Goes(d, parts) /\ d[0] = <<>> /\ Clean(parts) = d[Len(parts)]
  <1> DEFINE Starts(f, n) == f[0] = <<>> /\ \A i \in 1..n : f[i] = Into(f[i - 1], parts[i])
             Good(n) == \E f \in [0..n -> Path] : Starts(f, n)
             T == {n \in 0..Len(parts) : ~ Good(n)}
             done == CHOOSE done : done = [n \in 0..Len(parts) |->
                                           IF n = 0 THEN <<>> ELSE Into(done[n - 1], parts[n])]
  <1>1. Len(parts) \in Nat BY LenProperties
  <1>2. \A i \in 1..Len(parts), d \in Path : Into(d, parts[i]) \in Path
    <2> TAKE i \in 1..Len(parts), d \in Path
    <2>1. parts[i] \in Part BY ElementOfSeq
    <2> QED BY <2>1, PathFacts DEF Part, Into
  <1>3. Good(0)
    <2>1. [i \in 0..0 |-> <<>>] \in [0..0 -> Path] BY DEF Path
    <2>2. Starts([i \in 0..0 |-> <<>>], 0) OBVIOUS
    <2> QED BY <2>1, <2>2
  <1>4. ASSUME NEW n \in 1..Len(parts), Good(n - 1) PROVE Good(n)
    <2>1. n \in Nat /\ n - 1 \in Nat /\ n <= Len(parts) BY <1>1
    <2>2. PICK f \in [0..(n - 1) -> Path] : Starts(f, n - 1) BY <1>4
    <2> DEFINE g == [i \in 0..n |-> IF i = n THEN Into(f[n - 1], parts[n]) ELSE f[i]]
    <2>3. g \in [0..n -> Path] BY <1>2, <2>1, <2>2
    <2>4. /\ g[0] = <<>> /\ g[n] = Into(f[n - 1], parts[n])
          /\ \A i \in 0..(n - 1) : g[i] = f[i]
      BY <2>1, <2>2
    <2> HIDE DEF g
    <2>5. ASSUME NEW i \in 1..n PROVE g[i] = Into(g[i - 1], parts[i])
      <3>1. CASE i = n BY <2>1, <2>4, <3>1
      <3>2. CASE i # n
        <4>1. i \in 1..(n - 1) /\ i - 1 \in 0..(n - 1) /\ i \in 0..(n - 1) BY <2>1, <3>2
        <4> QED BY <2>2, <2>4, <4>1
      <3> QED BY <3>1, <3>2
    <2> QED BY <2>3, <2>4, <2>5
  <1> HIDE DEF Good
  <1>5. Good(Len(parts))
    <2> SUFFICES ASSUME ~ Good(Len(parts)) PROVE FALSE OBVIOUS
    <2>1. T \in SUBSET Nat /\ T # {} BY <1>1
    <2>2. PICK n \in T : \A m \in T : n <= m BY <2>1, NatMin
    <2>3. n # 0 BY <1>3, <2>2
    <2>4. n \in 1..Len(parts) /\ n - 1 \in 0..Len(parts) /\ ~ (n <= n - 1)
      BY <1>1, <2>2, <2>3
    <2>5. Good(n - 1) BY <2>2, <2>4
    <2> QED BY <1>4, <2>2, <2>4, <2>5
  <1>6. PICK f \in [0..Len(parts) -> Path] : Starts(f, Len(parts)) BY <1>5 DEF Good
  <1>7. f = [n \in 0..Len(parts) |-> IF n = 0 THEN <<>> ELSE Into(f[n - 1], parts[n])]
    <2>1. f = [n \in 0..Len(parts) |-> f[n]] OBVIOUS
    <2>2. ASSUME NEW n \in 0..Len(parts)
          PROVE  f[n] = IF n = 0 THEN <<>> ELSE Into(f[n - 1], parts[n])
      <3>1. n = 0 \/ n \in 1..Len(parts) BY <1>1
      <3> QED BY <1>6, <3>1
    <2> QED BY <2>1, <2>2
  <1>8. done = [n \in 0..Len(parts) |-> IF n = 0 THEN <<>> ELSE Into(done[n - 1], parts[n])]
    BY <1>7
  <1>9. Clean(parts) = done[Len(parts)] BY DEF Clean
  <1> HIDE DEF done
  <1>10. \A n \in 0..Len(parts) : done[n] = IF n = 0 THEN <<>> ELSE Into(done[n - 1], parts[n])
    BY <1>8
  <1>11. \A n \in 0..Len(parts) : done[n] \in Path
    <2> DEFINE B == {n \in 0..Len(parts) : done[n] \notin Path}
    <2> SUFFICES ASSUME B # {} PROVE FALSE OBVIOUS
    <2>1. B \in SUBSET Nat BY <1>1
    <2>2. PICK n \in B : \A m \in B : n <= m BY <2>1, NatMin
    <2>3. n # 0
      <3>1. <<>> \in Path BY DEF Path
      <3>2. done[0] = <<>> BY <1>1, <1>10
      <3> QED BY <2>2, <3>1, <3>2
    <2>4. n \in 1..Len(parts) /\ n - 1 \in 0..Len(parts) /\ ~ (n <= n - 1)
      BY <1>1, <2>2, <2>3
    <2>5. done[n - 1] \in Path BY <2>2, <2>4
    <2>6. done[n] \in Path BY <1>2, <1>10, <2>3, <2>4, <2>5
    <2> QED BY <2>2, <2>6
  <1>12. done \in [0..Len(parts) -> Path]
    <2>1. done = [n \in 0..Len(parts) |-> done[n]] BY <1>8
    <2> QED BY <1>11, <2>1
  <1>13. done[0] = <<>> /\ \A n \in 1..Len(parts) : done[n] = Into(done[n - 1], parts[n])
    <2>1. 0 \in 0..Len(parts) /\ \A n \in 1..Len(parts) : n \in 0..Len(parts) /\ n # 0 BY <1>1
    <2> QED BY <1>10, <2>1
  <1> QED BY <1>9, <1>12, <1>13 DEF Goes

\* Clean is a path.
LEMMA CleanType ==
  ASSUME NEW parts \in Seq(Part)
  PROVE  Clean(parts) \in Path
  <1>1. Len(parts) \in 0..Len(parts) BY LenProperties
  <1> QED BY <1>1, CleanSteps DEF Goes


-----------------------------------------------------------------------------
(* One step of a resolution.                                               *)

\* What Follow needs of a file system.
Nodes(t) == \A path \in DOMAIN t : t[path] \in Node

\* A walk with fields replaced is a walk.
LEMMA WalkFields ==
  ASSUME NEW w \in WalkState
  PROVE  /\ w.at \in Path /\ w.parts \in Seq(Part) /\ w.links \in 0..MaxLinks
         /\ w.result \in {"walking", "ok", "missing", "error"}
         /\ \A r \in {"walking", "ok", "missing", "error"} :
              LET v == [w EXCEPT !.result = r]
              IN  /\ v \in WalkState /\ v.result = r /\ v.at = w.at
                  /\ v.parts = w.parts /\ v.links = w.links
         /\ \A at \in Path, parts \in Seq(Part) :
              LET v == [w EXCEPT !.at = at, !.parts = parts]
              IN  /\ v \in WalkState /\ v.result = w.result /\ v.at = at
                  /\ v.parts = parts /\ v.links = w.links
         /\ \A at \in Path, parts \in Seq(Part), links \in 0..MaxLinks :
              LET v == [w EXCEPT !.at = at, !.parts = parts, !.links = links]
              IN  /\ v \in WalkState /\ v.result = w.result /\ v.at = at
                  /\ v.parts = parts /\ v.links = links
  BY DEF WalkState

\* Before v there are more links left to follow, or as many and more parts.
Sooner(w, v) ==
    \/ w.links < v.links
    \/ w.links = v.links /\ Len(v.parts) < Len(w.parts)

LEMMA FollowType ==
  ASSUME NEW t, Nodes(t), NEW w \in WalkState, w.result = "walking"
  PROVE  Follow(t, w) \in WalkState /\ (Follow(t, w).result = "walking" => Sooner(w, Follow(t, w)))
  <1> DEFINE next == Append(w.at, Head(w.parts))
             rest == Tail(w.parts)
  <1>1. w.at \in Path /\ w.parts \in Seq(Part) /\ w.links \in 0..MaxLinks BY WalkFields
  <1>2. CASE w.parts = <<>>
    BY <1>2, WalkFields DEF Follow
  <1>3. CASE w.parts # <<>> /\ Head(w.parts) = ".."
    <2> DEFINE v == [w EXCEPT !.at = Dir(@), !.parts = rest]
    <2>1. Follow(t, w) = v BY <1>3 DEF Follow
    <2>2. Dir(w.at) \in Path /\ rest \in Seq(Part) BY <1>1, <1>3, PathFacts, PartsFacts
    <2>3. v \in WalkState /\ v.parts = rest /\ v.links = w.links
      BY <1>1, <2>2 DEF WalkState
    <2>4. Len(rest) < Len(w.parts) BY <1>1, <1>3, PartsFacts
    <2> HIDE DEF v
    <2> QED BY <2>1, <2>3, <2>4 DEF Sooner
  <1>4. CASE w.parts # <<>> /\ Head(w.parts) # ".."
    <2>1. /\ next \in Path /\ rest \in Seq(Part) /\ Len(rest) < Len(w.parts)
      BY <1>1, <1>4, PathFacts, PartsFacts
    <2> HIDE DEF next, rest
    <2>2. CASE Kind(t, next) = "missing"
      BY <1>4, <2>2, WalkFields DEF Follow, next
    <2>3. CASE Kind(t, next) = "link" /\ w.links = MaxLinks
      BY <1>4, <2>3, WalkFields DEF Follow, next
    <2>4. CASE Kind(t, next) = "link" /\ w.links # MaxLinks
      <3> DEFINE at == IF t[next].abs THEN <<>> ELSE w.at
                 parts == t[next].to \o rest
                 v == [w EXCEPT !.at = at, !.parts = parts, !.links = w.links + 1]
      <3>1. Follow(t, w) = v BY <1>4, <2>4 DEF Follow, next, rest
      <3>2. t[next] \in Node BY <2>4 DEF Kind, Nodes
      <3>3. at \in Path BY <1>1 DEF Path
      <3>4. t[next].to \in Seq(Part) BY <3>2 DEF Node
      <3>5. parts \in Seq(Part) BY <2>1, <3>4, ConcatProperties
      <3>6. w.links + 1 \in 0..MaxLinks /\ w.links < w.links + 1 BY <1>1, <2>4, LinkAssumption
      <3> HIDE DEF at, parts
      <3>7. v \in WalkState /\ v.links = w.links + 1 BY <3>3, <3>5, <3>6 DEF WalkState
      <3> HIDE DEF v
      <3> QED BY <3>1, <3>6, <3>7 DEF Sooner
    <2>5. CASE Kind(t, next) = "file" /\ rest # <<>>
      BY <1>4, <2>5, WalkFields DEF Follow, next, rest
    <2>6. CASE /\ Kind(t, next) # "missing" /\ Kind(t, next) # "link"
               /\ ~ (Kind(t, next) = "file" /\ rest # <<>>)
      <3> DEFINE v == [w EXCEPT !.at = next, !.parts = rest]
      <3>1. Follow(t, w) = v BY <1>4, <2>6 DEF Follow, next, rest
      <3>2. v \in WalkState /\ v.parts = rest /\ v.links = w.links BY <2>1 DEF WalkState
      <3> HIDE DEF v
      <3> QED BY <2>1, <3>1, <3>2 DEF Sooner
    <2> QED BY <2>2, <2>3, <2>4, <2>5, <2>6
  <1> QED BY <1>2, <1>3, <1>4

\* A resolution ends where it ends after its next step.
LEMMA ResolveStep ==
  ASSUME NEW t, Nodes(t), NEW w \in WalkState
  PROVE  Resolve(t, w) = IF w.result = "walking" THEN Resolve(t, Follow(t, w)) ELSE w
  <1> DEFINE D == {v \in WalkState : v.result = "walking"}
             F == [v \in WalkState |-> IF v \in D THEN Follow(t, v) ELSE v]
             end == CHOOSE end : end = [v \in WalkState |->
                                          IF v.result = "walking" THEN end[Follow(t, v)] ELSE v]
  <1>1. \A v \in D : Follow(t, v) \in WalkState BY FollowType
  <1>2. F \in [WalkState -> WalkState] BY <1>1
  <1>3. \A v \in WalkState : v.result = "walking" <=> v \in D OBVIOUS
  <1>4. \A v \in D : F[v] = Follow(t, v) OBVIOUS
  <1>5. D \in SUBSET WalkState OBVIOUS
  <1> HIDE DEF D, F
  <1>6. PICK f : f = [v \in WalkState |-> IF v \in D THEN f[F[v]] ELSE v]
    BY <1>2, <1>5, LoopExists
  <1>7. f = [v \in WalkState |-> IF v.result = "walking" THEN f[Follow(t, v)] ELSE v]
    BY <1>3, <1>4, <1>6
  <1>8. end = [v \in WalkState |-> IF v.result = "walking" THEN end[Follow(t, v)] ELSE v]
    BY <1>7
  <1>9. \A v : Resolve(t, v) = end[v] BY DEF Resolve
  <1> HIDE DEF end
  <1> QED BY <1>8, <1>9

-----------------------------------------------------------------------------
(* A whole resolution, and what is kept of it when paths come to exist.    *)

\* g takes every step that t can take.
Keeps(t, g) ==
    \A w \in WalkState :
      w.result = "walking" /\ Follow(t, w).result # "missing" => Follow(g, w) = Follow(t, w)

\* No walk goes on for ever: of a set of walks that go on into the set, one with
\* the fewest links left, and then the fewest parts, would take a step to
\* another one.
LEMMA WalksEnd ==
  ASSUME NEW t, Nodes(t), NEW Bad \in SUBSET WalkState,
         \A v \in Bad : v.result = "walking" /\ Follow(t, v) \in Bad
  PROVE  Bad = {}
  <1> DEFINE Spare(v) == MaxLinks - v.links
             Spares == {Spare(v) : v \in Bad}
  <1>1. \A v \in Bad : Spare(v) \in Nat /\ Len(v.parts) \in Nat
    <2> TAKE v \in Bad
    <2>1. v.links \in 0..MaxLinks /\ v.parts \in Seq(Part) BY WalkFields
    <2> QED BY <2>1, LinkAssumption, LenProperties
  <1> SUFFICES ASSUME Bad # {} PROVE FALSE OBVIOUS
  <1>2. Spares \in SUBSET Nat /\ Spares # {} BY <1>1
  <1>3. PICK l \in Spares : \A m \in Spares : l <= m BY <1>2, NatMin
  <1> DEFINE Fewest == {v \in Bad : Spare(v) = l}
             Lens == {Len(v.parts) : v \in Fewest}
  <1>4. Lens \in SUBSET Nat /\ Lens # {} BY <1>1, <1>3
  <1>5. PICK n \in Lens : \A m \in Lens : n <= m BY <1>4, NatMin
  <1>6. PICK v \in Fewest : Len(v.parts) = n BY <1>5
  <1>7. v \in WalkState /\ v \in Bad /\ v.result = "walking" /\ Spare(v) = l BY <1>6
  <1> DEFINE u == Follow(t, v)
  <1>8. u \in WalkState /\ u \in Bad /\ u.result = "walking" BY <1>7
  <1>9. Sooner(v, u) BY <1>7, <1>8, FollowType
  <1> HIDE DEF u
  <1>10. v.links \in Nat /\ u.links \in Nat /\ MaxLinks \in Nat
    BY <1>7, <1>8, LinkAssumption DEF WalkState
  <1>11. l <= Spare(u) BY <1>3, <1>8
  <1>12. ~ (v.links < u.links) BY <1>7, <1>10, <1>11
  <1>13. v.links = u.links /\ Len(u.parts) < Len(v.parts) BY <1>9, <1>12 DEF Sooner
  <1>14. u \in Fewest BY <1>7, <1>8, <1>13
  <1>15. n <= Len(u.parts) BY <1>5, <1>14
  <1> QED BY <1>1, <1>6, <1>7, <1>8, <1>13, <1>15

\* A resolution ends, and if nothing was missing it ends the same in a file
\* system that keeps what is there.
LEMMA ResolveEnds ==
  ASSUME NEW t, NEW g, Nodes(t), Nodes(g), Keeps(t, g), NEW w \in WalkState
  PROVE  /\ Resolve(t, w) \in WalkState /\ Resolve(t, w).result # "walking"
         /\ Resolve(t, w).result # "missing" => Resolve(g, w) = Resolve(t, w)
  <1> DEFINE P(v) == /\ Resolve(t, v) \in WalkState /\ Resolve(t, v).result # "walking"
                     /\ Resolve(t, v).result # "missing" => Resolve(g, v) = Resolve(t, v)
             Bad == {v \in WalkState : ~ P(v)}
  <1>1. ASSUME NEW v \in WalkState, v.result # "walking" PROVE P(v)
    <2>1. Resolve(t, v) = v /\ Resolve(g, v) = v BY <1>1, ResolveStep
    <2> QED BY <1>1, <2>1
  <1>2. ASSUME NEW v \in WalkState, v.result = "walking", P(Follow(t, v)) PROVE P(v)
    <2>1. Resolve(t, v) = Resolve(t, Follow(t, v)) /\ Resolve(g, v) = Resolve(g, Follow(g, v))
      BY <1>2, ResolveStep
    <2>2. ASSUME Resolve(t, v).result # "missing" PROVE Follow(g, v) = Follow(t, v)
      <3> SUFFICES Follow(t, v).result # "missing" BY <1>2 DEF Keeps
      <3>1. Follow(t, v) \in WalkState BY <1>2, FollowType
      <3>2. Follow(t, v).result = "missing" => Resolve(t, Follow(t, v)) = Follow(t, v)
        BY <3>1, ResolveStep
      <3> QED BY <2>1, <2>2, <3>2
    <2> QED BY <1>2, <2>1, <2>2
  <1> HIDE DEF P
  <1>3. \A v \in Bad : v.result = "walking" /\ Follow(t, v) \in Bad
    <2> TAKE v \in Bad
    <2>1. v.result = "walking" BY <1>1
    <2>2. Follow(t, v) \in WalkState BY <2>1, FollowType
    <2> QED BY <1>2, <2>1, <2>2
  <1>4. Bad \in SUBSET WalkState OBVIOUS
  <1> HIDE DEF Bad
  <1>5. Bad = {} BY <1>3, <1>4, WalksEnd
  <1>6. P(w) BY <1>5 DEF Bad
  <1> QED BY <1>6 DEF P

\* What is there stays, what comes to exist is a directory, and nothing comes
\* to exist in a file.
LEMMA GrownFacts ==
  ASSUME NEW t, IsTree(t)
  PROVE  /\ Nodes(t) /\ Nodes(Grown(t)) /\ Keeps(t, Grown(t)) /\ Keeps(t, t)
         /\ \A path : Kind(t, path) # "missing" =>
              Kind(Grown(t), path) = Kind(t, path) /\ Grown(t)[path] = t[path]
         /\ \A path : Kind(t, path) = "missing" => Kind(Grown(t), path) \in {"missing", "dir"}
         /\ \A path \in Path, x \in Name :
              Kind(t, path) = "file" => Kind(Grown(t), Append(path, x)) = "missing"
  <1> DEFINE G == Grown(t)
             new == {path \in Universe \ DOMAIN t :
                       \A n \in 0..Len(path) : Kind(t, SubSeq(path, 1, n)) \in {"dir", "missing"}}
  <1>1. G = [path \in DOMAIN t \cup new |-> IF path \in DOMAIN t THEN t[path] ELSE Directory]
    BY DEF Grown
  <1>2. DOMAIN G = DOMAIN t \cup new /\ DOMAIN t \cap new = {} BY <1>1
  <1>3. /\ \A path \in DOMAIN t : G[path] = t[path]
        /\ \A path \in new : G[path] = Directory
    BY <1>1
  <1>4. Nodes(t) BY DEF IsTree, Nodes
  <1>5. Directory \in Node /\ Directory.kind = "dir"
    <2>1. <<>> \in Seq(Part) OBVIOUS
    <2> QED BY <2>1 DEF Directory, Node
  <1>6. \A path \in new :
         \A n \in 0..Len(path) : Kind(t, SubSeq(path, 1, n)) \in {"dir", "missing"}
    OBVIOUS
  <1> HIDE DEF G, new
  <1>7. Nodes(G) BY <1>2, <1>3, <1>4, <1>5 DEF Nodes
  <1>8. \A path : (Kind(t, path) = "missing") <=> path \notin DOMAIN t
    BY <1>4 DEF Kind, Nodes, Node
  <1>9. ASSUME NEW path, Kind(t, path) # "missing"
        PROVE  Kind(G, path) = Kind(t, path) /\ G[path] = t[path]
    BY <1>2, <1>3, <1>8, <1>9 DEF Kind
  <1>10. ASSUME NEW path, Kind(t, path) = "missing" PROVE Kind(G, path) \in {"missing", "dir"}
    BY <1>2, <1>3, <1>5, <1>8, <1>10 DEF Kind
  <1>11. ASSUME NEW path \in Path, NEW x \in Name, Kind(t, path) = "file"
         PROVE  Kind(G, Append(path, x)) = "missing"
    <2> DEFINE p == Append(path, x)
    <2>1. /\ p # <<>> /\ Front(p) = path /\ Len(path) \in 0..Len(p)
          /\ SubSeq(p, 1, Len(path)) = path
      BY PathFacts
    <2> HIDE DEF p
    <2>2. p \notin DOMAIN t BY <1>11, <2>1 DEF IsTree
    <2>3. p \notin new BY <1>6, <1>11, <2>1
    <2>4. p \notin DOMAIN G BY <1>2, <2>2, <2>3
    <2> QED BY <2>4 DEF Kind, p
  <1>12. ASSUME NEW w \in WalkState, w.result = "walking", Follow(t, w).result # "missing"
         PROVE  Follow(G, w) = Follow(t, w)
    <2> DEFINE next == Append(w.at, Head(w.parts))
    <2>1. CASE w.parts = <<>> \/ (w.parts # <<>> /\ Head(w.parts) = "..")
      BY <2>1 DEF Follow
    <2>2. CASE w.parts # <<>> /\ Head(w.parts) # ".."
      <3>1. Kind(t, next) # "missing"
        <4> SUFFICES ASSUME Kind(t, next) = "missing" PROVE FALSE OBVIOUS
        <4>1. Follow(t, w) = [w EXCEPT !.result = "missing"] BY <2>2 DEF Follow
        <4> QED BY <1>12, <4>1 DEF WalkState
      <3>2. Kind(G, next) = Kind(t, next) /\ G[next] = t[next] BY <1>9, <3>1
      <3> HIDE DEF next
      <3> QED BY <2>2, <3>2 DEF Follow, next
    <2> QED BY <2>1, <2>2
  <1>13. Keeps(t, G) BY <1>12 DEF Keeps
  <1>14. Keeps(t, t) BY DEF Keeps
  <1> QED BY <1>4, <1>7, <1>9, <1>10, <1>11, <1>13, <1>14 DEF G

LEMMA UnwalkedType ==
  ASSUME NEW path \in Path
  PROVE  Unwalked(path) \in WalkState
  <1>1. Seq(Name) \subseteq Seq(Part) BY SeqMonotonic DEF Part
  <1>2. <<>> \in Path BY DEF Path
  <1>3. path \in Seq(Part) BY <1>1 DEF Path
  <1>4. 0 \in 0..MaxLinks BY LinkAssumption
  <1> QED BY <1>2, <1>3, <1>4 DEF Unwalked, WalkState

\* EvalSymlinks ends, and what it finds stays when missing paths come to exist.
LEMMA EvalFacts ==
  ASSUME NEW t, IsTree(t), NEW path \in Path
  PROVE  /\ Eval(t, path) \in WalkState /\ Eval(t, path).result # "walking"
         /\ Eval(t, path).result # "missing" => Eval(Grown(t), path) = Eval(t, path)
  BY UnwalkedType, GrownFacts, ResolveEnds DEF Eval

-----------------------------------------------------------------------------
(* The walk by hand.                                                       *)

\* A turn of the loop goes where the kernel will go when what is missing has
\* been made, if the kernel gets through at all.
LEMMA WalkOnFacts ==
  ASSUME NEW t, IsTree(t), NEW w \in WalkState, w.result = "walking"
  PROVE  /\ WalkOn(t, w) \in WalkState /\ WalkOn(t, w).result # "missing"
         /\ Resolve(Grown(t), w).result = "ok" =>
              Resolve(Grown(t), WalkOn(t, w)) = Resolve(Grown(t), w)
  <1> DEFINE G == Grown(t)
             next == Append(w.at, Head(w.parts))
             rest == Tail(w.parts)
             Same == WalkOn(t, w) = Follow(G, w)
             Fails == Follow(G, w).result \in {"missing", "error"}
  <1>1. w.at \in Path /\ w.parts \in Seq(Part) /\ w.links \in 0..MaxLinks BY WalkFields
  <1>2. Nodes(t) /\ Nodes(G) BY GrownFacts
  <1>3. Follow(G, w) \in WalkState BY <1>2, FollowType
  <1>4. Resolve(G, w) = Resolve(G, Follow(G, w)) BY <1>2, ResolveStep
  <1>5. Fails => Resolve(G, w) = Follow(G, w) BY <1>2, <1>3, <1>4, ResolveStep
  <1>6. SUFFICES /\ WalkOn(t, w) \in WalkState /\ WalkOn(t, w).result # "missing"
                 /\ Same \/ Fails
    BY <1>4, <1>5
  <1> HIDE DEF G
  <1>7. CASE w.parts = <<>>
    <2>1. WalkOn(t, w) = [w EXCEPT !.result = "ok"] /\ Same BY <1>7 DEF WalkOn, Follow
    <2> QED BY <1>1, <2>1 DEF WalkState
  <1>8. CASE w.parts # <<>> /\ Head(w.parts) = ".."
    <2>1. WalkOn(t, w) = [w EXCEPT !.at = Dir(w.at), !.parts = rest] /\ Same
      BY <1>8 DEF WalkOn, Follow
    <2>2. Dir(w.at) \in Path /\ rest \in Seq(Part) BY <1>1, <1>8, PathFacts, PartsFacts
    <2> QED BY <2>1, <2>2 DEF WalkState
  <1>9. CASE w.parts # <<>> /\ Head(w.parts) # ".."
    <2>1. /\ next \in Path /\ rest \in Seq(Part) /\ Head(w.parts) \in Name
      BY <1>1, <1>9, PathFacts, PartsFacts
    <2>2. CASE Kind(t, w.at) = "file"
      <3>1. Kind(G, next) = "missing" BY <1>1, <2>1, <2>2, GrownFacts DEF G
      <3>2. Kind(t, next) # "link" BY <3>1, GrownFacts DEF G
      <3>3. WalkOn(t, w) = [w EXCEPT !.result = "error"] BY <1>9, <2>2, <3>2 DEF WalkOn
      <3>4. Follow(G, w) = [w EXCEPT !.result = "missing"] BY <1>9, <3>1 DEF Follow
      <3> QED BY <3>3, <3>4 DEF WalkState
    <2>3. CASE Kind(t, w.at) # "file" /\ Kind(t, next) = "link" /\ w.links = MaxLinks
      <3>1. WalkOn(t, w) = [w EXCEPT !.result = "error"] BY <1>9, <2>3 DEF WalkOn
      <3>2. Kind(G, next) = "link" BY <2>3, GrownFacts DEF G
      <3>3. Follow(G, w) = [w EXCEPT !.result = "error"] BY <1>9, <2>3, <3>2 DEF Follow
      <3> QED BY <3>1, <3>3 DEF WalkState
    <2>4. CASE Kind(t, w.at) # "file" /\ Kind(t, next) = "link" /\ w.links # MaxLinks
      <3> DEFINE at == IF t[next].abs THEN <<>> ELSE w.at
                 parts == t[next].to \o rest
      <3>1. WalkOn(t, w) = [w EXCEPT !.at = at, !.parts = parts, !.links = w.links + 1]
        BY <1>9, <2>4 DEF WalkOn, ThroughLink
      <3>2. Kind(G, next) = "link" /\ G[next] = t[next] BY <2>4, GrownFacts DEF G
      <3>3. Follow(G, w) = [w EXCEPT !.at = at, !.parts = parts, !.links = w.links + 1]
        BY <1>9, <2>4, <3>2 DEF Follow
      <3>4. t[next] \in Node BY <1>2, <2>4 DEF Kind, Nodes
      <3>5. at \in Path BY <1>1 DEF Path
      <3>6. parts \in Seq(Part) BY <2>1, <3>4, ConcatProperties DEF Node
      <3>7. w.links + 1 \in 0..MaxLinks BY <1>1, <2>4, LinkAssumption
      <3> HIDE DEF at, parts
      <3> QED BY <3>1, <3>3, <3>5, <3>6, <3>7 DEF WalkState
    <2>5. CASE Kind(t, w.at) # "file" /\ Kind(t, next) # "link"
      <3>1. WalkOn(t, w) = [w EXCEPT !.at = next, !.parts = rest]
        BY <1>9, <2>5 DEF WalkOn, TakeAsIs
      <3>2. Kind(G, next) # "link"
        <4>1. CASE Kind(t, next) = "missing" BY <4>1, GrownFacts DEF G
        <4>2. CASE Kind(t, next) # "missing" BY <2>5, <4>2, GrownFacts DEF G
        <4> QED BY <4>1, <4>2
      <3> HIDE DEF next, rest
      <3>3. CASE Kind(G, next) = "missing"
        <4>1. Follow(G, w) = [w EXCEPT !.result = "missing"] BY <1>9, <3>3 DEF Follow, next
        <4> QED BY <2>1, <3>1, <4>1 DEF WalkState
      <3>4. CASE Kind(G, next) = "file" /\ rest # <<>>
        <4>1. Follow(G, w) = [w EXCEPT !.result = "error"]
          BY <1>9, <3>4 DEF Follow, next, rest
        <4> QED BY <2>1, <3>1, <4>1 DEF WalkState
      <3>5. CASE Kind(G, next) # "missing" /\ ~ (Kind(G, next) = "file" /\ rest # <<>>)
        <4>1. Follow(G, w) = [w EXCEPT !.at = next, !.parts = rest]
          BY <1>9, <3>2, <3>5 DEF Follow, next, rest
        <4> QED BY <2>1, <3>1, <4>1 DEF WalkState
      <3> QED BY <3>3, <3>4, <3>5
    <2> QED BY <2>2, <2>3, <2>4, <2>5
  <1> QED BY <1>7, <1>8, <1>9

\* w is on the way of resolvedCoveragePath of the path.
Fits(t, path, w) ==
    IF Eval(t, path).result = "missing"
    THEN /\ w.result # "missing"
         /\ Eval(Grown(t), path).result = "ok" =>
              Resolve(Grown(t), w) = Eval(Grown(t), path)
    ELSE w = Eval(t, path)

LEMMA StartFits ==
  ASSUME IsTree(tree), NEW path \in Path
  PROVE  StartWalk(path) \in WalkState /\ Fits(tree, path, StartWalk(path))
  <1>1. CASE Eval(tree, path).result = "missing"
    <2>1. StartWalk(path) = Unwalked(path) BY <1>1 DEF StartWalk
    <2> QED BY <1>1, <2>1, UnwalkedType DEF Fits, Eval, Unwalked
  <1>2. CASE Eval(tree, path).result # "missing"
    BY <1>2, EvalFacts DEF StartWalk, Fits
  <1> QED BY <1>1, <1>2

LEMMA WalkOnFits ==
  ASSUME NEW t, IsTree(t), NEW path \in Path, NEW w \in WalkState, w.result = "walking",
         Fits(t, path, w)
  PROVE  Fits(t, path, WalkOn(t, w))
  BY EvalFacts, WalkOnFacts DEF Fits

\* What resolvedCoveragePath returns is where the path leads, now or when what
\* is missing has been made; an error means that it leads nowhere.
LEMMA Verdict ==
  ASSUME NEW t, IsTree(t), NEW path \in Path, NEW w \in WalkState, w.result # "walking",
         Fits(t, path, w)
  PROVE  /\ w.result \in {"ok", "error"}
         /\ w.result = "ok" =>
              \A u \in {t, Grown(t)} : Eval(u, path).result = "ok" => Eval(u, path).at = w.at
         /\ w.result = "error" => Eval(Grown(t), path).result # "ok"
  <1>1. w.result \in {"walking", "ok", "missing", "error"} BY WalkFields
  <1>2. CASE Eval(t, path).result = "missing"
    <2>1. Resolve(Grown(t), w) = w BY GrownFacts, ResolveStep
    <2> QED BY <1>1, <1>2, <2>1 DEF Fits
  <1>3. CASE Eval(t, path).result # "missing"
    BY <1>1, <1>3, EvalFacts DEF Fits
  <1> QED BY <1>2, <1>3

-----------------------------------------------------------------------------
(* Paths below a directory.                                                *)

LEMMA PathIsParts == ASSUME NEW p \in Path PROVE p \in Seq(Part)
  BY SeqMonotonic DEF Path, Part

LEMMA BelowIs ==
  ASSUME NEW a \in Path, NEW p \in Path
  PROVE  Below(a, p) <=> Len(a) <= Len(p) /\ \A i \in 1..Len(a) : p[i] = a[i]
  <1>1. Len(a) \in Nat /\ Len(p) \in Nat BY LenProperties DEF Path
  <1>2. Below(a, p) <=> Len(a) <= Len(p) /\ SubSeq(a, 1, Len(a)) = SubSeq(p, 1, Len(a))
    BY DEF Below, IsPrefix
  <1>3. SubSeq(a, 1, Len(a)) = a BY SubSeqFull DEF Path
  <1>4. ASSUME Len(a) <= Len(p)
        PROVE  SubSeq(p, 1, Len(a)) = a <=> \A i \in 1..Len(a) : p[i] = a[i]
    <2> DEFINE u == SubSeq(p, 1, Len(a))
    <2>1. Len(a) \in 0..Len(p) BY <1>1, <1>4
    <2>2. u \in Path /\ Len(u) = Len(a) /\ \A i \in 1..Len(a) : u[i] = p[i]
      BY <2>1, PrefixFacts DEF Path
    <2> HIDE DEF u
    <2>3. (\A i \in 1..Len(u) : u[i] = a[i]) => u = a BY <2>2, SeqEqual DEF Path
    <2> QED BY <2>2, <2>3 DEF u
  <1> QED BY <1>2, <1>3, <1>4

LEMMA JoinFacts ==
  ASSUME NEW a \in Path, NEW q \in Path
  PROVE  /\ a \o q \in Path /\ Len(a) \in Nat /\ Len(q) \in Nat
         /\ Len(a \o q) = Len(a) + Len(q)
         /\ Below(a, a \o q)
         /\ SubSeq(a \o q, Len(a) + 1, Len(a \o q)) = q
         /\ \A x \in Name : Append(a \o q, x) = a \o Append(q, x)
         /\ q # <<>> => Dir(a \o q) = a \o Dir(q)
  <1> DEFINE p == a \o q
  <1>1. Len(a) \in Nat /\ Len(q) \in Nat BY LenProperties DEF Path
  <1>2. /\ p \in Path /\ Len(p) = Len(a) + Len(q)
        /\ \A i \in 1..(Len(a) + Len(q)) : p[i] = IF i <= Len(a) THEN a[i] ELSE q[i - Len(a)]
    BY ConcatProperties DEF Path
  <1>3. Below(a, p)
    <2> HIDE DEF p
    <2>1. \A i \in 1..Len(a) : i \in 1..(Len(a) + Len(q)) /\ i <= Len(a) BY <1>1
    <2>2. \A i \in 1..Len(a) : p[i] = a[i] BY <1>2, <2>1
    <2> QED BY <1>1, <1>2, <2>2, BelowIs
  <1>4. SubSeq(p, Len(a) + 1, Len(p)) = q
    <2> DEFINE u == SubSeq(p, Len(a) + 1, Len(p))
    <2> HIDE DEF p
    <2>1. Len(a) \in 0..Len(p) /\ Len(p) \in Len(a)..Len(p) /\ Len(p) - Len(a) = Len(q)
      BY <1>1, <1>2
    <2>2. /\ u \in Path /\ Len(u) = Len(p) - Len(a)
          /\ \A i \in 1..(Len(p) - Len(a)) : u[i] = p[Len(a) + i]
      BY <1>2, <2>1, SuffixFacts DEF Path
    <2> HIDE DEF u
    <2>3. ASSUME NEW i \in 1..Len(u) PROVE u[i] = q[i]
      <3>1. /\ i \in 1..Len(q) /\ Len(a) + i \in 1..(Len(a) + Len(q)) /\ ~ (Len(a) + i <= Len(a))
            /\ Len(a) + i - Len(a) = i
        BY <1>1, <2>1, <2>2
      <3> QED BY <1>2, <2>1, <2>2, <3>1
    <2>4. u = q BY <2>1, <2>2, <2>3, SeqEqual DEF Path
    <2> QED BY <2>4 DEF u
  <1>5. ASSUME NEW x \in Name PROVE Append(p, x) = a \o Append(q, x)
    <2>1. <<x>> \in Path BY DEF Path
    <2>2. Append(p, x) = p \o <<x>> BY <1>2, AppendIsConcat DEF Path
    <2>3. Append(q, x) = q \o <<x>> BY AppendIsConcat DEF Path
    <2>4. (a \o q) \o <<x>> = a \o (q \o <<x>>) BY <2>1, ConcatAssociative DEF Path
    <2> QED BY <2>2, <2>3, <2>4
  <1>6. ASSUME q # <<>> PROVE Dir(p) = a \o Dir(q)
    <2>1. PICK r \in Path, x \in Name : q = Append(r, x)
      BY <1>6, SequenceEmptyOrAppend DEF Path
    <2>2. a \o r \in Path /\ Append(a \o r, x) = a \o Append(r, x)
      <3>1. <<x>> \in Path BY DEF Path
      <3>2. a \o r \in Path BY ConcatProperties DEF Path
      <3>3. Append(a \o r, x) = (a \o r) \o <<x>> BY <3>2, AppendIsConcat DEF Path
      <3>4. Append(r, x) = r \o <<x>> BY AppendIsConcat DEF Path
      <3>5. (a \o r) \o <<x>> = a \o (r \o <<x>>) BY <3>1, ConcatAssociative DEF Path
      <3> QED BY <3>2, <3>3, <3>4, <3>5
    <2>3. p = Append(a \o r, x) BY <2>1, <2>2
    <2>4. p # <<>> /\ Front(p) = a \o r BY <2>2, <2>3, PathFacts
    <2>5. Front(q) = r BY <2>1, PathFacts
    <2> HIDE DEF p
    <2> QED BY <1>6, <2>4, <2>5 DEF Dir
  <1> QED BY <1>1, <1>2, <1>3, <1>4, <1>5, <1>6

LEMMA SubSeqOfJoin ==
  ASSUME NEW a \in Path, NEW q \in Path, NEW m \in 0..Len(q)
  PROVE  SubSeq(a \o q, 1, Len(a) + m) = a \o SubSeq(q, 1, m)
  <1> DEFINE p == a \o q
             u == SubSeq(p, 1, Len(a) + m)
             r == SubSeq(q, 1, m)
             v == a \o r
  <1>1. /\ Len(a) \in Nat /\ Len(q) \in Nat /\ p \in Path /\ Len(p) = Len(a) + Len(q)
        /\ \A i \in 1..(Len(a) + Len(q)) : p[i] = IF i <= Len(a) THEN a[i] ELSE q[i - Len(a)]
    BY ConcatProperties, LenProperties DEF Path
  <1>2. Len(a) + m \in 0..(Len(a) + Len(q)) /\ m \in Nat /\ m <= Len(q) BY <1>1
  <1>3. r \in Path /\ Len(r) = m /\ \A i \in 1..m : r[i] = q[i] BY PrefixFacts DEF Path
  <1> HIDE DEF p, r
  <1>4. u \in Path /\ Len(u) = Len(a) + m /\ \A i \in 1..(Len(a) + m) : u[i] = p[i]
    BY <1>1, <1>2, PrefixFacts DEF Path
  <1>5. /\ v \in Path /\ Len(v) = Len(a) + Len(r)
        /\ \A i \in 1..(Len(a) + Len(r)) : v[i] = IF i <= Len(a) THEN a[i] ELSE r[i - Len(a)]
    BY <1>3, ConcatProperties DEF Path
  <1> HIDE DEF u, v
  <1>6. ASSUME NEW i \in 1..Len(u) PROVE u[i] = v[i]
    <2>1. i \in 1..(Len(a) + Len(q)) /\ i \in 1..(Len(a) + m) BY <1>1, <1>2, <1>4
    <2>2. CASE i <= Len(a) BY <1>1, <1>3, <1>4, <1>5, <2>1, <2>2
    <2>3. CASE ~ (i <= Len(a))
      <3>1. i - Len(a) \in 1..m BY <1>1, <1>2, <2>1, <2>3
      <3> QED BY <1>1, <1>3, <1>4, <1>5, <2>1, <2>3, <3>1
    <2> QED BY <2>2, <2>3
  <1>7. u = v BY <1>3, <1>4, <1>5, <1>6, SeqEqual DEF Path
  <1> QED BY <1>7 DEF u, v, p, r

LEMMA SplitFacts ==
  ASSUME NEW a \in Path, NEW p \in Path, Below(a, p)
  PROVE  \E q \in Path : p = a \o q
  <1> DEFINE q == SubSeq(p, Len(a) + 1, Len(p))
  <1>1. Len(a) \in Nat /\ Len(p) \in Nat BY LenProperties DEF Path
  <1>2. Len(a) <= Len(p) /\ \A i \in 1..Len(a) : p[i] = a[i] BY BelowIs
  <1>3. Len(a) \in 0..Len(p) /\ Len(p) \in Len(a)..Len(p) BY <1>1, <1>2
  <1>4. /\ q \in Path /\ Len(q) = Len(p) - Len(a)
        /\ \A i \in 1..(Len(p) - Len(a)) : q[i] = p[Len(a) + i]
    BY <1>3, SuffixFacts DEF Path
  <1> HIDE DEF q
  <1>5. /\ a \o q \in Path /\ Len(a \o q) = Len(p)
        /\ \A i \in 1..Len(p) : (a \o q)[i] = IF i <= Len(a) THEN a[i] ELSE q[i - Len(a)]
    <2>1. Len(a) + Len(q) = Len(p) BY <1>1, <1>2, <1>4
    <2> QED BY <1>4, <2>1, ConcatProperties DEF Path
  <1>6. ASSUME NEW i \in 1..Len(p) PROVE p[i] = (a \o q)[i]
    <2>1. CASE i <= Len(a)
      <3>1. i \in 1..Len(a) BY <1>1, <2>1
      <3> QED BY <1>2, <1>5, <2>1, <3>1
    <2>2. CASE ~ (i <= Len(a))
      <3>1. i - Len(a) \in 1..(Len(p) - Len(a)) /\ Len(a) + (i - Len(a)) = i BY <1>1, <2>2
      <3> QED BY <1>4, <1>5, <2>2, <3>1
    <2> QED BY <2>1, <2>2
  <1>7. p = a \o q BY <1>5, <1>6, SeqEqual DEF Path
  <1> QED BY <1>4, <1>7

\* Who is not below a directory comes below it only by its name.
LEMMA BelowFacts ==
  ASSUME NEW a \in Path, a # <<>>, NEW d \in Path
  PROVE  /\ ~ Below(a, <<>>) /\ ~ Below(a, Dir(a))
         /\ Below(a, Dir(d)) => Below(a, d)
         /\ \A x \in Name : Below(a, Append(d, x)) => Below(a, d) \/ a = Append(d, x)
  <1>1. Len(a) \in Nat \ {0} BY EmptySeq DEF Path
  <1>2. ~ Below(a, <<>>)
    <2>1. <<>> \in Path /\ Len(<<>>) = 0 BY DEF Path
    <2> QED BY <1>1, <2>1, BelowIs
  <1>3. ~ Below(a, Dir(a))
    <2>1. PICK r \in Path, x \in Name : a = Append(r, x) BY SequenceEmptyOrAppend DEF Path
    <2>2. Dir(a) = r BY <2>1, PathFacts DEF Dir
    <2>3. Len(a) = Len(r) + 1 /\ Len(r) \in Nat BY <2>1, AppendProperties, LenProperties DEF Path
    <2> QED BY <2>2, <2>3, BelowIs
  <1>4. ASSUME Below(a, Dir(d)) PROVE Below(a, d)
    <2>1. d # <<>> BY <1>2, <1>4 DEF Dir
    <2>2. PICK r \in Path, x \in Name : d = Append(r, x) BY <2>1, SequenceEmptyOrAppend DEF Path
    <2>3. Dir(d) = r BY <2>2, PathFacts DEF Dir
    <2>4. Len(d) = Len(r) + 1 /\ Len(r) \in Nat /\ \A i \in 1..Len(r) : d[i] = r[i]
      BY <2>2, AppendProperties, LenProperties DEF Path
    <2>5. Len(a) <= Len(r) /\ \A i \in 1..Len(a) : r[i] = a[i] BY <1>4, <2>3, BelowIs
    <2>6. \A i \in 1..Len(a) : i \in 1..Len(r) BY <1>1, <2>4, <2>5
    <2>7. Len(a) <= Len(d) /\ \A i \in 1..Len(a) : d[i] = a[i] BY <1>1, <2>4, <2>5, <2>6
    <2> QED BY <2>7, BelowIs
  <1>5. ASSUME NEW x \in Name, Below(a, Append(d, x)), a # Append(d, x) PROVE Below(a, d)
    <2> DEFINE p == Append(d, x)
    <2>1. /\ p \in Path /\ Len(p) = Len(d) + 1 /\ Len(d) \in Nat
          /\ \A i \in 1..Len(d) : p[i] = d[i]
      BY AppendProperties, LenProperties DEF Path
    <2> HIDE DEF p
    <2>2. Len(a) <= Len(p) /\ \A i \in 1..Len(a) : p[i] = a[i] BY <1>5, <2>1, BelowIs DEF p
    <2>3. Len(a) # Len(p) BY <1>5, <2>1, <2>2, SeqEqual DEF p, Path
    <2>4. Len(a) <= Len(d) BY <1>1, <2>1, <2>2, <2>3
    <2>5. \A i \in 1..Len(a) : i \in 1..Len(d) BY <1>1, <2>1, <2>4
    <2>6. \A i \in 1..Len(a) : d[i] = a[i] BY <2>1, <2>2, <2>5
    <2> QED BY <2>4, <2>6, BelowIs
  <1> QED BY <1>2, <1>3, <1>4, <1>5

-----------------------------------------------------------------------------
(* What the guest sees: cleaned paths.                                     *)

\* Clean goes over a path to itself, and then on.
LEMMA CleanOn ==
  ASSUME NEW a \in Path, NEW parts \in Seq(Part)
  PROVE  \E d : Goes(d, parts) /\ d[0] = a /\ Clean(a \o parts) = d[Len(parts)]
  <1> DEFINE all == a \o parts
  <1>1. a \in Seq(Part) /\ Len(a) \in Nat /\ Len(parts) \in Nat
    BY PathIsParts, LenProperties DEF Path
  <1>2. /\ all \in Seq(Part) /\ Len(all) = Len(a) + Len(parts)
        /\ \A i \in 1..(Len(a) + Len(parts)) :
             all[i] = IF i <= Len(a) THEN a[i] ELSE parts[i - Len(a)]
    BY <1>1, ConcatProperties
  <1> HIDE DEF all
  <1>3. PICK d : Goes(d, all) /\ d[0] = <<>> /\ Clean(all) = d[Len(all)] BY <1>2, CleanSteps
  <1>4. d \in [0..(Len(a) + Len(parts)) -> Path] BY <1>2, <1>3 DEF Goes
  <1>5. \A n \in 1..(Len(a) + Len(parts)) : d[n] = Into(d[n - 1], all[n]) BY <1>2, <1>3 DEF Goes
  <1>6. \A n \in 0..Len(a) : d[n] = SubSeq(a, 1, n)
    <2> DEFINE B == {n \in 0..Len(a) : d[n] # SubSeq(a, 1, n)}
    <2> SUFFICES ASSUME B # {} PROVE FALSE OBVIOUS
    <2>1. B \in SUBSET Nat BY <1>1
    <2>2. PICK n \in B : \A m \in B : n <= m BY <2>1, NatMin
    <2>3. SubSeq(a, 1, 0) = <<>> BY SubSeqEmpty
    <2>4. n # 0 BY <1>3, <2>2, <2>3
    <2>5. n \in 1..Len(a) /\ n - 1 \in 0..Len(a) /\ ~ (n <= n - 1) /\ n <= Len(a)
          /\ n \in 1..(Len(a) + Len(parts)) /\ 1 \in 1..Len(a) /\ n \in 1..Len(a)
      BY <1>1, <2>2, <2>4
    <2>6. d[n - 1] = SubSeq(a, 1, n - 1) BY <2>2, <2>5
    <2>7. a[n] \in Name BY <2>5, ElementOfSeq DEF Path
    <2>8. d[n] = Append(SubSeq(a, 1, n - 1), a[n])
      BY <1>2, <1>5, <2>5, <2>6, <2>7, NameAssumption DEF Into
    <2>9. SubSeq(a, 1, n) = SubSeq(a, 1, n - 1) \o <<a[n]>>
      <3>1. n \in 1..Len(a) BY <2>5
      <3> QED BY <2>5, <3>1, SubSeqRecursiveSecond DEF Path
    <2>10. SubSeq(a, 1, n - 1) \in Path BY <2>5, PrefixFacts DEF Path
    <2>11. Append(SubSeq(a, 1, n - 1), a[n]) = SubSeq(a, 1, n - 1) \o <<a[n]>>
      BY <2>7, <2>10, AppendIsConcat DEF Path
    <2> QED BY <2>2, <2>8, <2>9, <2>11
  <1> DEFINE e == [k \in 0..Len(parts) |-> d[Len(a) + k]]
  <1>7. ASSUME NEW k \in 0..Len(parts) PROVE Len(a) + k \in 0..(Len(a) + Len(parts))
    BY <1>1
  <1>8. e \in [0..Len(parts) -> Path] BY <1>4, <1>7
  <1>9. e[0] = a
    <2>1. Len(a) \in 0..Len(a) /\ 0 \in 0..Len(parts) /\ Len(a) + 0 = Len(a) BY <1>1
    <2>2. SubSeq(a, 1, Len(a)) = a BY SubSeqFull DEF Path
    <2> QED BY <1>6, <2>1, <2>2
  <1>10. ASSUME NEW k \in 1..Len(parts) PROVE e[k] = Into(e[k - 1], parts[k])
    <2>1. /\ Len(a) + k \in 1..(Len(a) + Len(parts)) /\ ~ (Len(a) + k <= Len(a))
          /\ Len(a) + k - Len(a) = k /\ Len(a) + k - 1 = Len(a) + (k - 1)
          /\ k \in 0..Len(parts) /\ k - 1 \in 0..Len(parts)
      BY <1>1
    <2>2. d[Len(a) + k] = Into(d[Len(a) + (k - 1)], parts[k]) BY <1>2, <1>5, <2>1
    <2> QED BY <2>1, <2>2
  <1>11. e[Len(parts)] = d[Len(all)] BY <1>1, <1>2
  <1> HIDE DEF e
  <1>12. Goes(e, parts) BY <1>8, <1>10 DEF Goes
  <1> QED BY <1>3, <1>9, <1>11, <1>12 DEF all

LEMMA CleanPath == ASSUME NEW a \in Path PROVE Clean(a) = a
  <1>1. <<>> \in Seq(Part) /\ Len(<<>>) = 0 OBVIOUS
  <1>2. a \o <<>> = a BY ConcatEmptySeq DEF Path
  <1>3. PICK d : d[0] = a /\ Clean(a \o <<>>) = d[Len(<<>>)] BY <1>1, CleanOn
  <1> QED BY <1>1, <1>2, <1>3

\* Names and parts that are not the guest's directory's own.
OtherName == Name \ {Last(GuestDir)}
OtherPart == Part \ {Last(GuestDir)}

LEMMA OtherPath ==
  ASSUME NEW p \in Path, p \in Seq(OtherPart)
  PROVE  p \in Seq(OtherName)
  <1>1. Len(p) \in Nat /\ p \in [1..Len(p) -> Name] BY LenProperties DEF Path
  <1>2. \A i \in 1..Len(p) : p[i] \in OtherName
    <2> TAKE i \in 1..Len(p)
    <2>1. p[i] \in OtherPart BY ElementOfSeq
    <2> QED BY <1>1, <2>1 DEF OtherPart, OtherName
  <1>3. p \in [1..Len(p) -> OtherName] BY <1>1, <1>2
  <1> QED BY <1>1, <1>3, SeqDef

LEMMA OtherFacts ==
  /\ \A p \in Seq(OtherName) : p \in Path /\ p \in Seq(OtherPart)
  /\ \A x \in OtherPart : x = ".." \/ x \in OtherName
  /\ OtherName \subseteq Name /\ OtherPart \subseteq Part
  <1>1. OtherName \subseteq Name /\ OtherPart \subseteq Part /\ OtherName \subseteq OtherPart
    BY DEF OtherName, OtherPart, Part
  <1>2. \A p \in Seq(OtherName) : p \in Path /\ p \in Seq(OtherPart)
    BY <1>1, SeqMonotonic DEF Path
  <1>3. \A x \in OtherPart : x = ".." \/ x \in OtherName
    BY DEF OtherName, OtherPart, Part
  <1> QED BY <1>1, <1>2, <1>3

\* A path that has left the guest's mount.
Outward(d) == d \in Seq(OtherName) /\ ~ Below(GuestDir, d)

LEMMA OutwardStays ==
  ASSUME NEW d, Outward(d)
  PROVE  d \in Path /\ Outward(Dir(d)) /\ \A x \in OtherName : Outward(Append(d, x))
  <1>1. d \in Seq(OtherName) /\ d \in Path BY OtherFacts DEF Outward
  <1>2. Dir(d) \in Seq(OtherName)
    <2>1. CASE d = <<>> BY <2>1 DEF Dir
    <2>2. CASE d # <<>>
      <3>1. PICK r \in Seq(OtherName), x \in OtherName : d = Append(r, x)
        BY <1>1, <2>2, SequenceEmptyOrAppend
      <3>2. r \in Path /\ x \in Name BY <3>1, OtherFacts
      <3>3. Dir(d) = r BY <2>2, <3>1, <3>2, PathFacts DEF Dir
      <3> QED BY <3>1, <3>3
    <2> QED BY <2>1, <2>2
  <1>3. GuestDir \in Path /\ GuestDir # <<>> BY GuestAssumption
  <1>4. Outward(Dir(d)) BY <1>1, <1>2, <1>3, BelowFacts DEF Outward
  <1>5. ASSUME NEW x \in OtherName PROVE Outward(Append(d, x))
    <2>1. Append(d, x) \in Seq(OtherName) BY <1>1, AppendProperties
    <2>2. x \in Name BY OtherFacts
    <2>3. GuestDir # Append(d, x)
      <3>1. Append(d, x)[Len(Append(d, x))] = x
        BY <1>1, <2>2, AppendProperties DEF Path
      <3>2. x # Last(GuestDir) BY DEF OtherName
      <3> QED BY <3>1, <3>2 DEF Last
    <2> QED BY <1>1, <1>3, <2>1, <2>2, <2>3, BelowFacts DEF Outward
  <1> QED BY <1>1, <1>4, <1>5

LEMMA GuestFrontOut ==
  ASSUME GuestNameIsNew
  PROVE  Outward(Dir(GuestDir)) /\ Outward(<<>>)
  <1>1. GuestDir \in Path /\ GuestDir # <<>> BY GuestAssumption
  <1>2. Dir(GuestDir) \in Path BY <1>1, PathFacts
  <1>3. Dir(GuestDir) \in Seq(OtherPart) BY <1>1 DEF GuestNameIsNew, Dir, OtherPart
  <1>4. Dir(GuestDir) \in Seq(OtherName) BY <1>2, <1>3, OtherPath
  <1>5. <<>> \in Seq(OtherName) OBVIOUS
  <1> QED BY <1>1, <1>4, <1>5, BelowFacts DEF Outward

\* The same place in the guest's mount and in a directory of the host.
Matches(dir, there, here) ==
    \E q \in Seq(OtherName) : there = GuestDir \o q /\ here = dir \o q

LEMMA MatchesOn ==
  ASSUME GuestNameIsNew, NEW dir \in Path, NEW there, NEW here, Matches(dir, there, here),
         NEW x \in OtherPart
  PROVE  Matches(dir, Into(there, x), Into(here, x)) \/ Outward(Into(there, x))
  <1>1. PICK q \in Seq(OtherName) : there = GuestDir \o q /\ here = dir \o q BY DEF Matches
  <1>2. q \in Path /\ GuestDir \in Path BY OtherFacts, GuestAssumption
  <1>3. CASE x = ".." /\ q = <<>>
    <2>1. there = GuestDir BY <1>1, <1>2, <1>3, ConcatEmptySeq DEF Path
    <2> QED BY <1>3, <2>1, GuestFrontOut DEF Into
  <1>4. CASE x = ".." /\ q # <<>>
    <2>1. PICK r \in Seq(OtherName), y \in OtherName : q = Append(r, y)
      BY <1>4, SequenceEmptyOrAppend
    <2>2. r \in Path /\ y \in Name BY OtherFacts
    <2>3. Dir(q) = r BY <1>4, <2>1, <2>2, PathFacts DEF Dir
    <2>4. Into(there, x) = GuestDir \o r /\ Into(here, x) = dir \o r
      BY <1>1, <1>2, <1>4, <2>3, JoinFacts DEF Into
    <2> QED BY <2>4 DEF Matches
  <1>5. CASE x # ".."
    <2>1. x \in OtherName /\ x \in Name BY <1>5, OtherFacts
    <2>2. Append(q, x) \in Seq(OtherName) BY <2>1, AppendProperties
    <2>3. Into(there, x) = GuestDir \o Append(q, x) /\ Into(here, x) = dir \o Append(q, x)
      BY <1>1, <1>2, <1>5, <2>1, JoinFacts DEF Into
    <2> QED BY <2>2, <2>3 DEF Matches
  <1> QED BY <1>3, <1>4, <1>5

LEMMA OutwardOn ==
  ASSUME NEW d, Outward(d), NEW x \in OtherPart
  PROVE  Outward(Into(d, x))
  <1>1. x = ".." \/ x \in OtherName BY OtherFacts
  <1>2. x \in OtherName => x # ".." BY NameAssumption DEF OtherName
  <1> QED BY <1>1, <1>2, OutwardStays DEF Into

\* Cleaning goes from the same place to the same place, or out.
LEMMA CleanMatches ==
  ASSUME GuestNameIsNew, NEW dir \in Path, NEW there \in Path, NEW here \in Path,
         Matches(dir, there, here), NEW parts \in Seq(OtherPart)
  PROVE  \/ Matches(dir, Clean(there \o parts), Clean(here \o parts))
         \/ Outward(Clean(there \o parts))
  <1>1. parts \in Seq(Part) /\ Len(parts) \in Nat BY OtherFacts, SeqMonotonic, LenProperties
  <1>2. PICK d : Goes(d, parts) /\ d[0] = there /\ Clean(there \o parts) = d[Len(parts)]
    BY <1>1, CleanOn
  <1>3. PICK e : Goes(e, parts) /\ e[0] = here /\ Clean(here \o parts) = e[Len(parts)]
    BY <1>1, CleanOn
  <1> DEFINE P(n) == Matches(dir, d[n], e[n]) \/ Outward(d[n])
             B == {n \in 0..Len(parts) : ~ P(n)}
  <1>4. SUFFICES ASSUME B # {} PROVE FALSE
    <2>1. Len(parts) \in 0..Len(parts) BY <1>1
    <2> QED BY <1>2, <1>3, <2>1
  <1>5. B \in SUBSET Nat BY <1>1
  <1>6. PICK n \in B : \A m \in B : n <= m BY <1>4, <1>5, NatMin
  <1>7. P(0) BY <1>2, <1>3
  <1>8. n # 0 BY <1>6, <1>7
  <1>9. n \in 1..Len(parts) /\ n - 1 \in 0..Len(parts) /\ ~ (n <= n - 1) BY <1>1, <1>6, <1>8
  <1>10. P(n - 1) BY <1>6, <1>9
  <1>11. parts[n] \in OtherPart BY <1>9, ElementOfSeq
  <1>12. d[n] = Into(d[n - 1], parts[n]) /\ e[n] = Into(e[n - 1], parts[n])
    BY <1>2, <1>3, <1>9 DEF Goes
  <1>13. P(n) BY <1>10, <1>11, <1>12, MatchesOn, OutwardOn
  <1> QED BY <1>6, <1>13

LEMMA CleanOutward ==
  ASSUME NEW there, Outward(there), NEW parts \in Seq(OtherPart)
  PROVE  Outward(Clean(there \o parts))
  <1>1. parts \in Seq(Part) /\ Len(parts) \in Nat /\ there \in Path
    BY OtherFacts, OutwardStays, SeqMonotonic, LenProperties
  <1>2. PICK d : Goes(d, parts) /\ d[0] = there /\ Clean(there \o parts) = d[Len(parts)]
    BY <1>1, CleanOn
  <1> DEFINE B == {n \in 0..Len(parts) : ~ Outward(d[n])}
  <1>3. SUFFICES ASSUME B # {} PROVE FALSE
    <2>1. Len(parts) \in 0..Len(parts) BY <1>1
    <2> QED BY <1>2, <2>1
  <1>4. B \in SUBSET Nat BY <1>1
  <1>5. PICK n \in B : \A m \in B : n <= m BY <1>3, <1>4, NatMin
  <1>6. n # 0 BY <1>2, <1>5
  <1>7. n \in 1..Len(parts) /\ n - 1 \in 0..Len(parts) /\ ~ (n <= n - 1) BY <1>1, <1>5, <1>6
  <1>8. Outward(d[n - 1]) BY <1>5, <1>7
  <1>9. parts[n] \in OtherPart BY <1>7, ElementOfSeq
  <1>10. d[n] = Into(d[n - 1], parts[n]) BY <1>2, <1>7 DEF Goes
  <1>11. Outward(d[n]) BY <1>8, <1>9, <1>10, OutwardOn
  <1> QED BY <1>5, <1>11

-----------------------------------------------------------------------------
(* What the guest sees: walks.                                             *)

At(at, parts) == [at |-> at, parts |-> parts, links |-> 0, result |-> "walking"]

LEMMA WalkEqual ==
  ASSUME NEW v \in WalkState, NEW u \in WalkState,
         v.at = u.at, v.parts = u.parts, v.links = u.links, v.result = u.result
  PROVE  v = u
  BY DEF WalkState

LEMMA AtType ==
  ASSUME NEW at \in Path, NEW parts \in Seq(Part)
  PROVE  At(at, parts) \in WalkState
  <1>1. 0 \in 0..MaxLinks BY LinkAssumption
  <1> QED BY <1>1 DEF At, WalkState

LEMMA ConsFacts ==
  ASSUME NEW x \in Part, NEW rest \in Seq(Part)
  PROVE  /\ <<x>> \o rest \in Seq(Part) /\ <<x>> \o rest # <<>>
         /\ Head(<<x>> \o rest) = x /\ Tail(<<x>> \o rest) = rest
  <1> DEFINE s == <<x>> \o rest
  <1>1. <<x>> \in Seq(Part) /\ Len(<<x>>) = 1 /\ <<x>>[1] = x /\ Len(rest) \in Nat
    BY LenProperties
  <1>2. /\ s \in Seq(Part) /\ Len(s) = 1 + Len(rest)
        /\ \A i \in 1..(1 + Len(rest)) : s[i] = IF i <= 1 THEN x ELSE rest[i - 1]
    BY <1>1, ConcatProperties
  <1> HIDE DEF s
  <1>3. s # <<>> BY <1>1, <1>2, EmptySeq
  <1>4. Head(s) = x
    <2>1. Head(s) = s[1] BY <1>2, <1>3
    <2> QED BY <1>1, <1>2, <2>1
  <1>5. Tail(s) = rest
    <2>1. /\ Tail(s) \in Seq(Part) /\ Len(Tail(s)) = Len(s) - 1
          /\ \A i \in 1..Len(Tail(s)) : Tail(s)[i] = s[i + 1]
      BY <1>2, <1>3, HeadTailProperties
    <2>2. Len(Tail(s)) = Len(rest) BY <1>1, <1>2, <2>1
    <2>3. ASSUME NEW i \in 1..Len(Tail(s)) PROVE Tail(s)[i] = rest[i]
      <3>1. i + 1 \in 1..(1 + Len(rest)) /\ ~ (i + 1 <= 1) /\ i + 1 - 1 = i BY <1>1, <2>2
      <3> QED BY <1>2, <2>1, <3>1
    <2> QED BY <2>1, <2>2, <2>3, SeqEqual
  <1> QED BY <1>2, <1>3, <1>4, <1>5 DEF s

\* A resolution goes through directories one by one.
LEMMA Descend ==
  ASSUME NEW t, Nodes(t), NEW p \in Path, NEW parts \in Seq(Part),
         \A n \in 1..Len(p) :
           \/ Kind(t, SubSeq(p, 1, n)) = "dir"
           \/ n = Len(p) /\ parts = <<>> /\ Kind(t, SubSeq(p, 1, n)) = "file"
  PROVE  Resolve(t, At(<<>>, p \o parts)) = Resolve(t, At(p, parts))
  <1> DEFINE Rest(n) == SubSeq(p, n + 1, Len(p)) \o parts
             W(n) == At(SubSeq(p, 1, n), Rest(n))
             all == Resolve(t, At(<<>>, p \o parts))
             B == {n \in 0..Len(p) : Resolve(t, W(n)) # all}
  <1>1. Len(p) \in Nat /\ p \in Seq(Part) BY PathIsParts, LenProperties DEF Path
  <1>2. ASSUME NEW n \in 0..Len(p)
        PROVE  SubSeq(p, 1, n) \in Path /\ SubSeq(p, n + 1, Len(p)) \in Seq(Part)
               /\ Rest(n) \in Seq(Part) /\ W(n) \in WalkState
    <2>1. SubSeq(p, 1, n) \in Path BY PrefixFacts DEF Path
    <2>2. Len(p) \in n..Len(p) BY <1>1
    <2>3. SubSeq(p, n + 1, Len(p)) \in Seq(Part) BY <1>1, <2>2, SuffixFacts
    <2>4. Rest(n) \in Seq(Part) BY <2>3, ConcatProperties
    <2> QED BY <2>1, <2>3, <2>4, AtType
  <1>3. Resolve(t, W(0)) = all
    <2>1. SubSeq(p, 1, 0) = <<>> BY SubSeqEmpty
    <2>2. SubSeq(p, 0 + 1, Len(p)) = p BY SubSeqFull DEF Path
    <2> QED BY <2>1, <2>2
  <1>4. ASSUME NEW n \in 1..Len(p), Resolve(t, W(n - 1)) = all PROVE Resolve(t, W(n)) = all
    <2>1. n \in 0..Len(p) /\ n - 1 \in 0..Len(p) /\ n - 1 + 1 = n /\ Len(p) \in n..Len(p)
          /\ 1 \in 1..Len(p) /\ n \in 1..Len(p)
      BY <1>1
    <2>2. p[n] \in Name BY ElementOfSeq DEF Path
    <2>3. p[n] \in Part /\ p[n] # ".." BY <2>2, NameAssumption DEF Part
    <2>4. Rest(n - 1) = <<p[n]>> \o Rest(n)
      <3>1. SubSeq(p, n, Len(p)) = <<p[n]>> \o SubSeq(p, n + 1, Len(p))
        BY <1>1, <2>1, SubSeqRecursiveFirst
      <3>2. <<p[n]>> \in Seq(Part) BY <2>3
      <3>3. SubSeq(p, n + 1, Len(p)) \in Seq(Part) BY <1>2, <2>1
      <3> DEFINE S == SubSeq(p, n + 1, Len(p))
      <3>4. Rest(n - 1) = SubSeq(p, n, Len(p)) \o parts BY <2>1
      <3>5. Rest(n) = S \o parts /\ S \in Seq(Part) BY <3>3
      <3> HIDE DEF Rest, S
      <3>6. (<<p[n]>> \o S) \o parts = <<p[n]>> \o (S \o parts)
        BY <3>2, <3>5, ConcatAssociative
      <3> QED BY <3>1, <3>4, <3>5, <3>6 DEF S
    <2>5. SubSeq(p, 1, n) = Append(SubSeq(p, 1, n - 1), p[n])
      <3>1. SubSeq(p, 1, n) = SubSeq(p, 1, n - 1) \o <<p[n]>>
        BY <2>1, SubSeqRecursiveSecond DEF Path
      <3>2. SubSeq(p, 1, n - 1) \in Path BY <1>2, <2>1
      <3> QED BY <2>2, <3>1, <3>2, AppendIsConcat DEF Path
    <2> DEFINE w == W(n - 1)
    <2>6. w \in WalkState /\ w.result = "walking" /\ w.at = SubSeq(p, 1, n - 1)
          /\ w.parts = Rest(n - 1) /\ w.links = 0
      BY <1>2, <2>1 DEF At
    <2>7. Rest(n) \in Seq(Part) BY <1>2, <2>1
    <2>8. w.parts # <<>> /\ Head(w.parts) = p[n] /\ Tail(w.parts) = Rest(n)
      BY <2>3, <2>4, <2>6, <2>7, ConsFacts
    <2>9. /\ W(n) \in WalkState /\ W(n).result = "walking" /\ W(n).at = SubSeq(p, 1, n)
          /\ W(n).parts = Rest(n) /\ W(n).links = 0
      BY <1>2, <2>1 DEF At
    <2> HIDE DEF W, w
    <2>10. \/ Kind(t, SubSeq(p, 1, n)) = "dir"
           \/ Kind(t, SubSeq(p, 1, n)) = "file" /\ Rest(n) = <<>>
      <3>1. ASSUME n = Len(p), parts = <<>> PROVE Rest(n) = <<>>
        <4>1. SubSeq(p, n + 1, Len(p)) = <<>> BY <1>1, <3>1, SubSeqEmpty
        <4> QED BY <3>1, <4>1
      <3> QED BY <3>1
    <2> HIDE DEF Rest
    <2>11. Follow(t, w) = W(n)
      <3>1. Follow(t, w) = [w EXCEPT !.at = SubSeq(p, 1, n), !.parts = Rest(n)]
        BY <2>3, <2>5, <2>6, <2>8, <2>10 DEF Follow
      <3>2. /\ Follow(t, w).at = SubSeq(p, 1, n) /\ Follow(t, w).parts = Rest(n)
            /\ Follow(t, w).links = 0 /\ Follow(t, w).result = "walking"
        BY <2>6, <3>1 DEF WalkState
      <3>3. Follow(t, w) \in WalkState BY <2>6, FollowType
      <3> QED BY <2>9, <3>2, <3>3, WalkEqual
    <2>12. Resolve(t, w) = Resolve(t, Follow(t, w)) BY <2>6, ResolveStep
    <2> QED BY <1>4, <2>11, <2>12 DEF w
  <1>5. B = {}
    <2> SUFFICES ASSUME B # {} PROVE FALSE OBVIOUS
    <2>1. B \in SUBSET Nat BY <1>1
    <2>2. PICK n \in B : \A m \in B : n <= m BY <2>1, NatMin
    <2> HIDE DEF W, all
    <2>3. n # 0 BY <1>3, <2>2
    <2>4. n \in 1..Len(p) /\ n - 1 \in 0..Len(p) /\ ~ (n <= n - 1) BY <1>1, <2>2, <2>3
    <2>5. Resolve(t, W(n - 1)) = all BY <2>2, <2>4
    <2> QED BY <1>4, <2>2, <2>4, <2>5
  <1>6. W(Len(p)) = At(p, parts)
    <2>1. SubSeq(p, 1, Len(p)) = p BY SubSeqFull DEF Path
    <2>2. SubSeq(p, Len(p) + 1, Len(p)) = <<>> BY <1>1, SubSeqEmpty
    <2> QED BY <2>1, <2>2, ConcatEmptySeq
  <1>7. Len(p) \in 0..Len(p) BY <1>1
  <1> HIDE DEF W
  <1> QED BY <1>5, <1>6, <1>7

-----------------------------------------------------------------------------
(* What the guest sees: a walk in the guest and one on the host.           *)

\* Outside its mount the guest has only the directories above it.
Bare(g) == Nodes(g) /\ \A p \in Path : ~ Below(GuestDir, p) => Kind(g, p) \in {"dir", "missing"}

OutWalk(v) == v \in WalkState /\ Outward(v.at) /\ v.parts \in Seq(OtherPart)

\* A resolution that ends in the mount.
Found(g, v) == Resolve(g, v).result = "ok" /\ Below(GuestDir, Resolve(g, v).at)

LEMMA OutWalkStep ==
  ASSUME NEW g, Bare(g), NEW v, OutWalk(v), v.result = "walking"
  PROVE  OutWalk(Follow(g, v))
  <1> DEFINE next == Append(v.at, Head(v.parts))
             rest == Tail(v.parts)
  <1>1. v \in WalkState /\ v.at \in Path /\ v.parts \in Seq(OtherPart) /\ Outward(v.at)
    BY OutwardStays DEF OutWalk
  <1>2. Follow(g, v) \in WalkState BY <1>1, FollowType DEF Bare
  <1>3. CASE v.parts = <<>>
    <2>1. Follow(g, v) = [v EXCEPT !.result = "ok"] BY <1>3 DEF Follow
    <2>2. Follow(g, v).at = v.at /\ Follow(g, v).parts = v.parts BY <1>1, <2>1 DEF WalkState
    <2> QED BY <1>1, <1>2, <2>2 DEF OutWalk
  <1>4. CASE v.parts # <<>> /\ Head(v.parts) = ".."
    <2>1. Follow(g, v) = [v EXCEPT !.at = Dir(v.at), !.parts = rest] BY <1>4 DEF Follow
    <2>2. Follow(g, v).at = Dir(v.at) /\ Follow(g, v).parts = rest BY <1>1, <2>1 DEF WalkState
    <2>3. rest \in Seq(OtherPart) BY <1>1, <1>4, HeadTailProperties
    <2> QED BY <1>1, <1>2, <2>2, <2>3, OutwardStays DEF OutWalk
  <1>5. CASE v.parts # <<>> /\ Head(v.parts) # ".."
    <2>1. Head(v.parts) \in OtherPart /\ rest \in Seq(OtherPart)
      BY <1>1, <1>5, HeadTailProperties
    <2>2. Head(v.parts) \in OtherName BY <1>5, <2>1, OtherFacts
    <2>3. Outward(next) BY <1>1, <2>2, OutwardStays
    <2>4. Kind(g, next) \in {"dir", "missing"} BY <2>3, OutwardStays DEF Bare, Outward
    <2>5. CASE Kind(g, next) = "missing"
      <3>1. Follow(g, v) = [v EXCEPT !.result = "missing"] BY <1>5, <2>5 DEF Follow
      <3>2. Follow(g, v).at = v.at /\ Follow(g, v).parts = v.parts BY <1>1, <3>1 DEF WalkState
      <3> QED BY <1>1, <1>2, <3>2 DEF OutWalk
    <2>6. CASE Kind(g, next) = "dir"
      <3>1. Follow(g, v) = [v EXCEPT !.at = next, !.parts = rest]
        BY <1>5, <2>6 DEF Follow
      <3> HIDE DEF next, rest
      <3>2. Follow(g, v).at = next /\ Follow(g, v).parts = rest BY <1>1, <3>1 DEF WalkState
      <3> QED BY <1>2, <2>1, <2>3, <3>2 DEF OutWalk
    <2> QED BY <2>4, <2>5, <2>6
  <1> QED BY <1>3, <1>4, <1>5

\* Who has left the mount does not come back.
LEMMA OutWalkEnds ==
  ASSUME NEW g, Bare(g), NEW v, OutWalk(v)
  PROVE  ~ Found(g, v)
  <1> DEFINE Bad == {u \in WalkState : OutWalk(u) /\ Found(g, u)}
  <1>1. Nodes(g) BY DEF Bare
  <1>2. ASSUME NEW u \in Bad PROVE u.result = "walking" /\ Follow(g, u) \in Bad
    <2>1. u \in WalkState /\ OutWalk(u) /\ Found(g, u) OBVIOUS
    <2>2. u.result = "walking"
      <3> SUFFICES ASSUME u.result # "walking" PROVE FALSE OBVIOUS
      <3>1. Resolve(g, u) = u BY <1>1, <2>1, ResolveStep
      <3> QED BY <2>1, <3>1 DEF OutWalk, Outward, Found
    <2>3. Resolve(g, u) = Resolve(g, Follow(g, u)) BY <1>1, <2>1, <2>2, ResolveStep
    <2>4. OutWalk(Follow(g, u)) BY <2>1, <2>2, OutWalkStep
    <2> QED BY <2>1, <2>2, <2>3, <2>4 DEF Found, OutWalk
  <1>3. Bad \in SUBSET WalkState OBVIOUS
  <1> HIDE DEF Bad
  <1>4. Bad = {} BY <1>1, <1>2, <1>3, WalksEnd
  <1> QED BY <1>4 DEF Bad, OutWalk

\* The mount shows a directory of the host.
Shows(g, t, dir) ==
    /\ Bare(g) /\ Nodes(t) /\ dir \in Path
    /\ \A q \in Path : /\ Kind(g, GuestDir \o q) = Kind(t, dir \o q)
                       /\ Kind(t, dir \o q) # "missing" => g[GuestDir \o q] = t[dir \o q]
    /\ \A p \in DOMAIN t : t[p].to \in Seq(OtherPart)

InWalk(dir, v, u) ==
    /\ v \in WalkState /\ u \in WalkState /\ v.parts \in Seq(OtherPart)
    /\ v.parts = u.parts /\ v.links = u.links /\ v.result = u.result
    /\ Matches(dir, v.at, u.at)

LEMMA InWalkStep ==
  ASSUME GuestNameIsNew, NEW g, NEW t, NEW dir, Shows(g, t, dir),
         NEW v, NEW u, InWalk(dir, v, u), v.result = "walking"
  PROVE  \/ InWalk(dir, Follow(g, v), Follow(t, u))
         \/ OutWalk(Follow(g, v))
         \/ Follow(g, v).result \in {"missing", "error"}
  <1> DEFINE vnext == Append(v.at, Head(v.parts))
             unext == Append(u.at, Head(u.parts))
             rest == Tail(v.parts)
  <1>1. /\ v \in WalkState /\ u \in WalkState /\ v.parts \in Seq(OtherPart) /\ dir \in Path
        /\ v.parts = u.parts /\ v.links = u.links /\ u.result = "walking"
        /\ Matches(dir, v.at, u.at)
    BY DEF InWalk, Shows
  <1>2. PICK q \in Seq(OtherName) : v.at = GuestDir \o q /\ u.at = dir \o q
    BY <1>1 DEF Matches
  <1>3. q \in Path /\ GuestDir \in Path BY OtherFacts, GuestAssumption
  <1>4. Follow(g, v) \in WalkState /\ Follow(t, u) \in WalkState
    BY <1>1, FollowType DEF Shows, Bare
  <1>5. CASE v.parts = <<>>
    <2>1. Follow(g, v) = [v EXCEPT !.result = "ok"] /\ Follow(t, u) = [u EXCEPT !.result = "ok"]
      BY <1>1, <1>5 DEF Follow
    <2>2. /\ Follow(g, v).at = v.at /\ Follow(g, v).parts = v.parts
          /\ Follow(g, v).links = v.links /\ Follow(g, v).result = "ok"
          /\ Follow(t, u).at = u.at /\ Follow(t, u).parts = u.parts
          /\ Follow(t, u).links = u.links /\ Follow(t, u).result = "ok"
      BY <1>1, <2>1 DEF WalkState
    <2> QED BY <1>1, <1>4, <2>2 DEF InWalk
  <1>6. CASE v.parts # <<>> /\ Head(v.parts) = ".."
    <2>1. rest \in Seq(OtherPart) /\ Head(v.parts) \in OtherPart
      BY <1>1, <1>6, HeadTailProperties
    <2>2. /\ Follow(g, v) = [v EXCEPT !.at = Dir(v.at), !.parts = rest]
          /\ Follow(t, u) = [u EXCEPT !.at = Dir(u.at), !.parts = rest]
      BY <1>1, <1>6 DEF Follow
    <2> HIDE DEF rest
    <2>3. /\ Follow(g, v).at = Dir(v.at) /\ Follow(g, v).parts = rest
          /\ Follow(g, v).links = v.links /\ Follow(g, v).result = "walking"
          /\ Follow(t, u).at = Dir(u.at) /\ Follow(t, u).parts = rest
          /\ Follow(t, u).links = u.links /\ Follow(t, u).result = "walking"
      BY <1>1, <2>2 DEF WalkState
    <2>4. Matches(dir, Dir(v.at), Dir(u.at)) \/ Outward(Dir(v.at))
      BY <1>1, <1>6, <2>1, MatchesOn DEF Into
    <2> QED BY <1>1, <1>4, <2>1, <2>3, <2>4 DEF InWalk, OutWalk
  <1>7. CASE v.parts # <<>> /\ Head(v.parts) # ".."
    <2>1. Head(v.parts) \in OtherPart /\ rest \in Seq(OtherPart)
      BY <1>1, <1>7, HeadTailProperties
    <2>2. Head(v.parts) \in OtherName /\ Head(v.parts) \in Name BY <1>7, <2>1, OtherFacts
    <2> DEFINE r == Append(q, Head(v.parts))
    <2>3. r \in Seq(OtherName) BY <2>2, AppendProperties
    <2>4. vnext = GuestDir \o r /\ unext = dir \o r
      <3>1. Append(GuestDir \o q, Head(v.parts)) = GuestDir \o r BY <1>3, <2>2, JoinFacts
      <3>2. Append(dir \o q, Head(v.parts)) = dir \o r BY <1>1, <1>3, <2>2, JoinFacts
      <3> HIDE DEF r
      <3> QED BY <1>1, <1>2, <3>1, <3>2
    <2>5. r \in Path BY <2>3, OtherFacts
    <2> HIDE DEF r
    <2>6. /\ Kind(g, vnext) = Kind(t, unext)
          /\ Kind(t, unext) # "missing" => g[vnext] = t[unext]
      BY <2>4, <2>5 DEF Shows
    <2>7. Matches(dir, vnext, unext) BY <2>3, <2>4 DEF Matches
    <2>8. Head(u.parts) = Head(v.parts) /\ Tail(u.parts) = rest /\ u.parts # <<>> BY <1>1, <1>7
    <2>9. CASE Kind(g, vnext) = "missing"
      <3>1. Follow(g, v) = [v EXCEPT !.result = "missing"] BY <1>7, <2>9 DEF Follow
      <3> QED BY <1>1, <3>1 DEF WalkState
    <2>10. CASE Kind(g, vnext) = "link" /\ v.links = MaxLinks
      <3>1. Follow(g, v) = [v EXCEPT !.result = "error"] BY <1>7, <2>10 DEF Follow
      <3> QED BY <1>1, <3>1 DEF WalkState
    <2>11. CASE Kind(g, vnext) = "link" /\ v.links # MaxLinks
      <3> DEFINE node == t[unext]
                 parts == node.to \o rest
      <3>1. Kind(t, unext) = "link" /\ g[vnext] = node BY <2>6, <2>11
      <3>2. unext \in DOMAIN t BY <3>1 DEF Kind
      <3>3. node \in Node /\ node.to \in Seq(OtherPart) BY <3>2 DEF Shows, Nodes
      <3>4. parts \in Seq(OtherPart) BY <2>1, <3>3, ConcatProperties
      <3>5. Follow(g, v) = [v EXCEPT !.at = IF node.abs THEN <<>> ELSE @,
                                     !.parts = parts, !.links = @ + 1]
        BY <1>7, <2>11, <3>1 DEF Follow
      <3>6. Follow(t, u) = [u EXCEPT !.at = IF node.abs THEN <<>> ELSE @,
                                     !.parts = parts, !.links = @ + 1]
        BY <1>1, <1>7, <2>8, <2>11, <3>1 DEF Follow
      <3> HIDE DEF node, parts
      <3>7. /\ Follow(g, v).at = IF node.abs THEN <<>> ELSE v.at
            /\ Follow(g, v).parts = parts
            /\ Follow(g, v).links = v.links + 1 /\ Follow(g, v).result = "walking"
            /\ Follow(t, u).at = IF node.abs THEN <<>> ELSE u.at
            /\ Follow(t, u).parts = parts
            /\ Follow(t, u).links = u.links + 1 /\ Follow(t, u).result = "walking"
        BY <1>1, <3>5, <3>6 DEF WalkState
      <3>8. CASE node.abs
        BY <1>4, <3>4, <3>7, <3>8, GuestFrontOut DEF OutWalk
      <3>9. CASE ~ node.abs
        BY <1>1, <1>4, <3>4, <3>7, <3>9 DEF InWalk
      <3> QED BY <3>8, <3>9
    <2>12. CASE Kind(g, vnext) = "file" /\ rest # <<>>
      <3>1. Follow(g, v) = [v EXCEPT !.result = "error"] BY <1>7, <2>12 DEF Follow
      <3> QED BY <1>1, <3>1 DEF WalkState
    <2>13. CASE /\ Kind(g, vnext) # "missing" /\ Kind(g, vnext) # "link"
                /\ ~ (Kind(g, vnext) = "file" /\ rest # <<>>)
      <3>1. /\ Follow(g, v) = [v EXCEPT !.at = vnext, !.parts = rest]
            /\ Follow(t, u) = [u EXCEPT !.at = unext, !.parts = rest]
        BY <1>1, <1>7, <2>6, <2>8, <2>13 DEF Follow
      <3> HIDE DEF vnext, unext, rest
      <3>2. /\ Follow(g, v).at = vnext /\ Follow(g, v).parts = rest
            /\ Follow(g, v).links = v.links /\ Follow(g, v).result = "walking"
            /\ Follow(t, u).at = unext /\ Follow(t, u).parts = rest
            /\ Follow(t, u).links = u.links /\ Follow(t, u).result = "walking"
        BY <1>1, <3>1 DEF WalkState
      <3> QED BY <1>1, <1>4, <2>1, <2>7, <3>2 DEF InWalk
    <2> QED BY <2>9, <2>10, <2>11, <2>12, <2>13
  <1> QED BY <1>5, <1>6, <1>7

\* What is found in the mount from the same place is the same.
LEMMA InWalkEnds ==
  ASSUME GuestNameIsNew, NEW g, NEW t, NEW dir, Shows(g, t, dir),
         NEW v, NEW u, InWalk(dir, v, u), Found(g, v)
  PROVE  Resolve(t, u).result = "ok" /\ Matches(dir, Resolve(g, v).at, Resolve(t, u).at)
  <1> DEFINE Fine(x, y) == /\ Resolve(t, y).result = "ok"
                           /\ Matches(dir, Resolve(g, x).at, Resolve(t, y).at)
             Bad == {x \in WalkState :
                       Found(g, x) /\ \E y \in WalkState : InWalk(dir, x, y) /\ ~ Fine(x, y)}
  <1>1. Nodes(g) /\ Nodes(t) /\ Bare(g) BY DEF Shows, Bare
  <1>2. ASSUME NEW x \in Bad PROVE x.result = "walking" /\ Follow(g, x) \in Bad
    <2>1. x \in WalkState /\ Found(g, x) OBVIOUS
    <2>2. PICK y \in WalkState : InWalk(dir, x, y) /\ ~ Fine(x, y) OBVIOUS
    <2>3. x.result = "walking" /\ y.result = "walking"
      <3> SUFFICES ASSUME x.result # "walking" PROVE FALSE BY <2>2 DEF InWalk
      <3>1. y.result # "walking" BY <2>2 DEF InWalk
      <3>2. Resolve(g, x) = x /\ Resolve(t, y) = y BY <1>1, <2>1, <3>1, ResolveStep
      <3> QED BY <2>1, <2>2, <3>2 DEF Found, InWalk
    <2>4. Resolve(g, x) = Resolve(g, Follow(g, x)) /\ Resolve(t, y) = Resolve(t, Follow(t, y))
      BY <1>1, <2>1, <2>3, ResolveStep
    <2>5. Found(g, Follow(g, x)) BY <2>1, <2>4 DEF Found
    <2>6. Follow(g, x) \in WalkState /\ Follow(t, y) \in WalkState
      BY <1>1, <2>1, <2>3, FollowType
    <2>7. ~ OutWalk(Follow(g, x)) BY <1>1, <2>5, OutWalkEnds
    <2>8. Follow(g, x).result \notin {"missing", "error"}
      <3> SUFFICES ASSUME Follow(g, x).result \in {"missing", "error"} PROVE FALSE OBVIOUS
      <3>1. Resolve(g, Follow(g, x)) = Follow(g, x) BY <1>1, <2>6, ResolveStep
      <3> QED BY <2>5, <3>1 DEF Found
    <2>9. InWalk(dir, Follow(g, x), Follow(t, y)) BY <2>2, <2>3, <2>7, <2>8, InWalkStep
    <2>10. ~ Fine(Follow(g, x), Follow(t, y)) BY <2>2, <2>4
    <2> HIDE DEF Fine
    <2> QED BY <2>3, <2>5, <2>6, <2>9, <2>10
  <1>3. Bad \in SUBSET WalkState OBVIOUS
  <1> HIDE DEF Bad
  <1>4. Bad = {} BY <1>1, <1>2, <1>3, WalksEnd
  <1> QED BY <1>4 DEF Bad, InWalk

-----------------------------------------------------------------------------
(* What the guest sees: its mount.                                         *)

\* What is above something that is there is a directory.
LEMMA TreeDirs ==
  ASSUME NEW t, IsTree(t), NEW p \in DOMAIN t
  PROVE  p \in Path /\ \A n \in 0..Len(p) : n < Len(p) => Kind(t, SubSeq(p, 1, n)) = "dir"
  <1>1. p \in Path /\ Len(p) \in Nat BY LenProperties DEF IsTree, Path
  <1>2. \A path \in DOMAIN t : t[path] \in Node /\ (path # <<>> => Kind(t, Front(path)) = "dir")
    BY DEF IsTree
  <1>3. \A path : Kind(t, path) = "dir" => path \in DOMAIN t BY DEF Kind
  <1> DEFINE B == {m \in 0..Len(p) : SubSeq(p, 1, Len(p) - m) \notin DOMAIN t}
  <1>4. ASSUME NEW n \in 0..Len(p), n < Len(p), SubSeq(p, 1, n + 1) \in DOMAIN t
        PROVE  Kind(t, SubSeq(p, 1, n)) = "dir"
    <2>1. n + 1 \in 1..Len(p) /\ 1 \in 1..Len(p) /\ n + 1 - 1 = n /\ n + 1 \in 0..Len(p)
      BY <1>1, <1>4
    <2> DEFINE u == SubSeq(p, 1, n + 1)
    <2>2. u \in Path /\ Len(u) = n + 1 /\ \A i \in 1..(n + 1) : u[i] = p[i]
      BY <1>1, <2>1, PrefixFacts DEF Path
    <2>3. SubSeq(p, 1, n) \in Path BY <1>1, PrefixFacts DEF Path
    <2>4. p[n + 1] \in Name BY <1>1, <2>1, ElementOfSeq DEF Path
    <2>5. u = Append(SubSeq(p, 1, n), p[n + 1])
      <3>1. u = SubSeq(p, 1, n) \o <<p[n + 1]>>
        BY <1>1, <2>1, SubSeqRecursiveSecond DEF Path
      <3> QED BY <2>3, <2>4, <3>1, AppendIsConcat DEF Path
    <2> HIDE DEF u
    <2>6. u # <<>> /\ Front(u) = SubSeq(p, 1, n) BY <2>3, <2>4, <2>5, PathFacts
    <2> QED BY <1>2, <1>4, <2>6 DEF u
  <1>5. B = {}
    <2> SUFFICES ASSUME B # {} PROVE FALSE OBVIOUS
    <2>1. B \in SUBSET Nat BY <1>1
    <2>2. PICK m \in B : \A k \in B : m <= k BY <2>1, NatMin
    <2>3. m # 0
      <3>1. SubSeq(p, 1, Len(p)) = p BY <1>1, SubSeqFull DEF Path
      <3>2. Len(p) - 0 = Len(p) BY <1>1
      <3> QED BY <2>2, <3>1, <3>2
    <2>4. /\ m - 1 \in 0..Len(p) /\ ~ (m <= m - 1) /\ Len(p) - m \in 0..Len(p)
          /\ Len(p) - m < Len(p) /\ Len(p) - (m - 1) = Len(p) - m + 1
      BY <1>1, <2>2, <2>3
    <2>5. SubSeq(p, 1, Len(p) - m + 1) \in DOMAIN t BY <2>2, <2>4
    <2> QED BY <1>3, <1>4, <2>2, <2>4, <2>5
  <1>6. ASSUME NEW n \in 0..Len(p), n < Len(p) PROVE SubSeq(p, 1, n + 1) \in DOMAIN t
    <2>1. Len(p) - (n + 1) \in 0..Len(p) /\ Len(p) - (Len(p) - (n + 1)) = n + 1 BY <1>1, <1>6
    <2> QED BY <1>5, <2>1
  <1> QED BY <1>1, <1>4, <1>6

LEMMA KindFacts ==
  ASSUME NEW t, Nodes(t), NEW p
  PROVE  /\ Kind(t, p) \in {"missing", "dir", "file", "link"}
         /\ Kind(t, p) # "missing" <=> p \in DOMAIN t
  BY DEF Kind, Nodes, Node

\* A resolution is in a directory, or it ends at a file.
Lands(t, v) ==
    \/ Kind(t, v.at) = "dir"
    \/ Kind(t, v.at) = "file" /\ v.parts = <<>>

LEMMA LandsStep ==
  ASSUME NEW t, IsTree(t), NEW v \in WalkState, v.result = "walking", Lands(t, v),
         Follow(t, v).result \in {"walking", "ok"}
  PROVE  Lands(t, Follow(t, v))
  <1> DEFINE next == Append(v.at, Head(v.parts))
             rest == Tail(v.parts)
  <1>1. v.at \in Path /\ v.parts \in Seq(Part) /\ v.links \in 0..MaxLinks BY WalkFields
  <1>2. Nodes(t) /\ Kind(t, <<>>) = "dir" BY DEF IsTree, Nodes, Kind, Directory
  <1>3. CASE v.parts = <<>>
    <2>1. Follow(t, v) = [v EXCEPT !.result = "ok"] BY <1>3 DEF Follow
    <2> QED BY <2>1 DEF WalkState, Lands
  <1>4. CASE v.parts # <<>> /\ Head(v.parts) = ".."
    <2>1. Follow(t, v) = [v EXCEPT !.at = Dir(v.at), !.parts = rest] BY <1>4 DEF Follow
    <2> HIDE DEF rest
    <2>2. Follow(t, v).at = Dir(v.at) BY <2>1 DEF WalkState
    <2>3. Kind(t, Dir(v.at)) = "dir"
      <3>1. Kind(t, v.at) = "dir" /\ v.at \in DOMAIN t BY <1>2, <1>4, KindFacts DEF Lands
      <3> QED BY <1>2, <3>1 DEF Dir, IsTree
    <2> QED BY <2>2, <2>3 DEF Lands
  <1>5. CASE v.parts # <<>> /\ Head(v.parts) # ".."
    <2> HIDE DEF next, rest
    <2>1. Kind(t, v.at) = "dir" BY <1>5 DEF Lands
    <2>2. CASE Kind(t, next) = "missing"
      <3>1. Follow(t, v) = [v EXCEPT !.result = "missing"] BY <1>5, <2>2 DEF Follow, next
      <3> QED BY <3>1 DEF WalkState
    <2>3. CASE Kind(t, next) = "link" /\ v.links = MaxLinks
      <3>1. Follow(t, v) = [v EXCEPT !.result = "error"] BY <1>5, <2>3 DEF Follow, next
      <3> QED BY <3>1 DEF WalkState
    <2>4. CASE Kind(t, next) = "link" /\ v.links # MaxLinks
      <3>1. Follow(t, v) = [v EXCEPT !.at = IF t[next].abs THEN <<>> ELSE @,
                                     !.parts = t[next].to \o rest, !.links = @ + 1]
        BY <1>5, <2>4 DEF Follow, next, rest
      <3>2. Follow(t, v).at = IF t[next].abs THEN <<>> ELSE v.at BY <3>1 DEF WalkState
      <3> QED BY <1>2, <2>1, <3>2 DEF Lands
    <2>5. CASE Kind(t, next) = "file" /\ rest # <<>>
      <3>1. Follow(t, v) = [v EXCEPT !.result = "error"] BY <1>5, <2>5 DEF Follow, next, rest
      <3> QED BY <3>1 DEF WalkState
    <2>6. CASE Kind(t, next) = "dir" \/ (Kind(t, next) = "file" /\ rest = <<>>)
      <3>1. Follow(t, v) = [v EXCEPT !.at = next, !.parts = rest]
        BY <1>5, <2>6 DEF Follow, next, rest
      <3>2. Follow(t, v).at = next /\ Follow(t, v).parts = rest BY <3>1 DEF WalkState
      <3> QED BY <2>6, <3>2 DEF Lands
    <2> QED BY <1>2, <2>2, <2>3, <2>4, <2>5, <2>6, KindFacts
  <1> QED BY <1>3, <1>4, <1>5

\* What is found is there, and found again under its own name.
LEMMA EvalLands ==
  ASSUME NEW t, IsTree(t), NEW path \in Path, Eval(t, path).result = "ok"
  PROVE  Kind(t, Eval(t, path).at) \in {"dir", "file"}
  <1> DEFINE Bad == {v \in WalkState : /\ Lands(t, v) /\ Resolve(t, v).result = "ok"
                                       /\ ~ Lands(t, Resolve(t, v))}
             start == Unwalked(path)
  <1>1. Nodes(t) /\ Kind(t, <<>>) = "dir" BY DEF IsTree, Nodes, Kind, Directory
  <1>2. start \in WalkState /\ Lands(t, start)
    <2>1. start.at = <<>> BY DEF Unwalked
    <2> QED BY <1>1, <2>1, UnwalkedType DEF Lands
  <1>3. ASSUME NEW v \in Bad PROVE v.result = "walking" /\ Follow(t, v) \in Bad
    <2>1. /\ v \in WalkState /\ Lands(t, v) /\ Resolve(t, v).result = "ok"
          /\ ~ Lands(t, Resolve(t, v))
      OBVIOUS
    <2>2. v.result = "walking"
      <3> SUFFICES ASSUME v.result # "walking" PROVE FALSE OBVIOUS
      <3>1. Resolve(t, v) = v BY <1>1, <2>1, ResolveStep
      <3> QED BY <2>1, <3>1
    <2>3. Resolve(t, v) = Resolve(t, Follow(t, v)) BY <1>1, <2>1, <2>2, ResolveStep
    <2>4. Follow(t, v) \in WalkState BY <1>1, <2>1, <2>2, FollowType
    <2>5. Follow(t, v).result \in {"walking", "ok"}
      <3>1. Follow(t, v).result # "walking" => Resolve(t, Follow(t, v)) = Follow(t, v)
        BY <1>1, <2>4, ResolveStep
      <3> QED BY <2>1, <2>3, <3>1
    <2>6. Lands(t, Follow(t, v)) BY <2>1, <2>2, <2>5, LandsStep
    <2> QED BY <2>1, <2>2, <2>3, <2>4, <2>6
  <1>4. Bad \in SUBSET WalkState OBVIOUS
  <1> HIDE DEF Bad, start
  <1>5. Bad = {} BY <1>1, <1>3, <1>4, WalksEnd
  <1>6. Eval(t, path) = Resolve(t, start) BY DEF Eval, start
  <1>7. Lands(t, Eval(t, path)) BY <1>2, <1>5, <1>6 DEF Bad
  <1> QED BY <1>7 DEF Lands

\* A name that is there, with directories above it, resolves to itself.
LEMMA EvalThere ==
  ASSUME NEW t, Nodes(t), NEW p \in Path, Kind(t, p) \in {"dir", "file"},
         \A n \in 1..Len(p) : n < Len(p) => Kind(t, SubSeq(p, 1, n)) = "dir"
  PROVE  Eval(t, p).result = "ok" /\ Eval(t, p).at = p
  <1> DEFINE w == At(p, <<>>)
  <1>1. <<>> \in Seq(Part) /\ Len(p) \in Nat /\ SubSeq(p, 1, Len(p)) = p
    BY LenProperties, SubSeqFull DEF Path
  <1>2. \A n \in 1..Len(p) : n < Len(p) \/ n = Len(p)
    <2>1. Len(p) \in Nat BY <1>1
    <2> QED BY <2>1
  <1>3. \A n \in 1..Len(p) :
          \/ Kind(t, SubSeq(p, 1, n)) = "dir"
          \/ n = Len(p) /\ <<>> = <<>> /\ Kind(t, SubSeq(p, 1, n)) = "file"
    BY <1>1, <1>2
  <1>4. Resolve(t, At(<<>>, p \o <<>>)) = Resolve(t, At(p, <<>>)) BY <1>1, <1>3, Descend
  <1>5. p \o <<>> = p BY ConcatEmptySeq DEF Path
  <1>6. Eval(t, p) = Resolve(t, w) BY <1>4, <1>5 DEF Eval, Unwalked, At
  <1>7. w \in WalkState /\ w.result = "walking" /\ w.at = p /\ w.parts = <<>>
    BY <1>1, AtType DEF At
  <1> HIDE DEF w
  <1>8. Follow(t, w) = [w EXCEPT !.result = "ok"] BY <1>7 DEF Follow
  <1>9. Follow(t, w).result = "ok" /\ Follow(t, w).at = p BY <1>7, <1>8 DEF WalkState
  <1>10. Follow(t, w) \in WalkState BY <1>7, FollowType
  <1>11. Resolve(t, w) = Follow(t, w) BY <1>7, <1>9, <1>10, ResolveStep
  <1> QED BY <1>6, <1>9, <1>11

\* The guest's file system, for a host directory without links.
LEMMA GuestShows ==
  ASSUME GuestNameIsNew, IsTree(tree), tree \in Trees, hostDir \in Path, hostDir = RealHostDir
  PROVE  /\ Shows(Guest, tree, hostDir)
         /\ \A n \in 0..Len(GuestDir) :
              n < Len(GuestDir) => Kind(Guest, SubSeq(GuestDir, 1, n)) = "dir"
  <1> DEFINE own == {SubSeq(GuestDir, 1, n) : n \in 0..(Len(GuestDir) - 1)}
             seen == {SubSeq(path, Len(hostDir) + 1, Len(path)) :
                        path \in {p \in DOMAIN tree : Below(hostDir, p)}}
             mount == {GuestDir \o p : p \in seen}
             suffix(path) == SubSeq(path, Len(GuestDir) + 1, Len(path))
  <1>1. GuestDir \in Path /\ GuestDir # <<>> /\ Len(GuestDir) \in Nat
    BY GuestAssumption, LenProperties DEF Path
  <1>2. DOMAIN tree \subseteq Path /\ Nodes(tree) BY DEF IsTree, Nodes
  <1>3. Guest = [path \in own \cup mount |->
                   IF path \in own THEN Directory ELSE tree[hostDir \o suffix(path)]]
    BY DEF Guest
  <1>4. Directory \in Node /\ Directory.kind = "dir"
    <2>1. <<>> \in Seq(Part) OBVIOUS
    <2> QED BY <2>1 DEF Directory, Node
  <1>5. \A path \in own : path \in Path /\ Len(path) < Len(GuestDir)
    <2> TAKE path \in own
    <2>1. PICK n \in 0..(Len(GuestDir) - 1) : path = SubSeq(GuestDir, 1, n) OBVIOUS
    <2>2. n \in 0..Len(GuestDir) /\ n < Len(GuestDir) BY <1>1
    <2> QED BY <1>1, <2>1, <2>2, PrefixFacts DEF Path
  <1>6. \A q \in Path : q \in seen <=> hostDir \o q \in DOMAIN tree
    <2> TAKE q \in Path
    <2>1. ASSUME q \in seen PROVE hostDir \o q \in DOMAIN tree
      <3>1. PICK path \in DOMAIN tree :
              Below(hostDir, path) /\ q = SubSeq(path, Len(hostDir) + 1, Len(path))
        BY <2>1
      <3>2. PICK r \in Path : path = hostDir \o r BY <1>2, <3>1, SplitFacts
      <3>3. q = r BY <3>1, <3>2, JoinFacts
      <3> QED BY <3>2, <3>3
    <2>2. ASSUME hostDir \o q \in DOMAIN tree PROVE q \in seen
      <3>1. /\ Below(hostDir, hostDir \o q)
            /\ SubSeq(hostDir \o q, Len(hostDir) + 1, Len(hostDir \o q)) = q
        BY JoinFacts
      <3> QED BY <2>2, <3>1
    <2> QED BY <2>1, <2>2
  <1>7. seen \subseteq Path
    <2> SUFFICES ASSUME NEW path \in DOMAIN tree, Below(hostDir, path)
                 PROVE  SubSeq(path, Len(hostDir) + 1, Len(path)) \in Path
      OBVIOUS
    <2>1. PICK r \in Path : path = hostDir \o r BY <1>2, SplitFacts
    <2> QED BY <2>1, JoinFacts
  <1> HIDE DEF own, seen
  <1>8. \A q \in Path : GuestDir \o q \notin own /\ suffix(GuestDir \o q) = q
    <2> TAKE q \in Path
    <2>1. Len(GuestDir \o q) = Len(GuestDir) + Len(q) /\ Len(q) \in Nat BY <1>1, JoinFacts
    <2>2. ~ (Len(GuestDir \o q) < Len(GuestDir)) BY <1>1, <2>1
    <2>3. suffix(GuestDir \o q) = q BY <1>1, JoinFacts
    <2> QED BY <1>5, <2>2, <2>3
  <1> HIDE DEF suffix
  <1>9. \A q \in Path : GuestDir \o q \in mount <=> q \in seen
    <2> TAKE q \in Path
    <2>1. ASSUME GuestDir \o q \in mount PROVE q \in seen
      <3>1. PICK p \in seen : GuestDir \o q = GuestDir \o p BY <2>1
      <3>2. p = q BY <1>7, <1>8, <3>1
      <3> QED BY <3>2
    <2> QED BY <2>1
  <1>10. \A path \in mount : \E q \in Path : path = GuestDir \o q BY <1>7
  <1> HIDE DEF mount
  <1>11. ASSUME NEW q \in Path
         PROVE  /\ Kind(Guest, GuestDir \o q) = Kind(tree, hostDir \o q)
                /\ Kind(tree, hostDir \o q) # "missing" =>
                     Guest[GuestDir \o q] = tree[hostDir \o q]
    <2>1. GuestDir \o q \in DOMAIN Guest <=> hostDir \o q \in DOMAIN tree
      BY <1>3, <1>6, <1>8, <1>9
    <2>2. GuestDir \o q \in DOMAIN Guest => Guest[GuestDir \o q] = tree[hostDir \o q]
      BY <1>3, <1>8
    <2>3. Kind(tree, hostDir \o q) # "missing" => hostDir \o q \in DOMAIN tree BY DEF Kind
    <2> QED BY <2>1, <2>2, <2>3 DEF Kind
  <1>12. \A path \in own : path \in DOMAIN Guest /\ Guest[path] = Directory BY <1>3
  <1>13. ASSUME NEW p \in Path, ~ Below(GuestDir, p)
         PROVE  Kind(Guest, p) \in {"dir", "missing"}
    <2>1. p \notin mount
      <3> SUFFICES ASSUME p \in mount PROVE FALSE OBVIOUS
      <3>1. PICK q \in Path : p = GuestDir \o q BY <1>10
      <3>2. Below(GuestDir, GuestDir \o q) BY <1>1, JoinFacts
      <3> QED BY <1>13, <3>1, <3>2
    <2>2. p \in DOMAIN Guest => p \in own BY <1>3, <2>1
    <2> QED BY <1>4, <1>12, <2>2 DEF Kind
  <1>14. Nodes(Guest)
    <2> SUFFICES ASSUME NEW path \in DOMAIN Guest PROVE Guest[path] \in Node BY DEF Nodes
    <2>1. CASE path \in own BY <1>4, <1>12, <2>1
    <2>2. CASE path \notin own
      <3>1. path \in mount BY <1>3, <2>2
      <3>2. PICK q \in Path : path = GuestDir \o q BY <1>10, <3>1
      <3>3. hostDir \o q \in DOMAIN tree BY <1>6, <1>9, <3>1, <3>2
      <3>4. Guest[path] = tree[hostDir \o q] BY <1>3, <1>8, <3>2
      <3> QED BY <1>2, <3>3, <3>4 DEF Nodes
    <2> QED BY <2>1, <2>2
  <1>15. \A p \in DOMAIN tree : tree[p].to \in Seq(OtherPart) BY DEF GuestNameIsNew, OtherPart
  <1>16. Shows(Guest, tree, hostDir)
    BY <1>2, <1>11, <1>13, <1>14, <1>15 DEF Shows, Bare
  <1>17. ASSUME NEW n \in 0..Len(GuestDir), n < Len(GuestDir)
         PROVE  Kind(Guest, SubSeq(GuestDir, 1, n)) = "dir"
    <2>1. n \in 0..(Len(GuestDir) - 1) BY <1>1, <1>17
    <2>2. SubSeq(GuestDir, 1, n) \in own BY <2>1 DEF own
    <2> QED BY <1>4, <1>12, <2>2 DEF Kind
  <1> QED BY <1>16, <1>17

-----------------------------------------------------------------------------
(* What the guest sees: the topology and its mount sources.                *)

\* The topology's path below the host directory.
LEMMA RelIs ==
  ASSUME hostDir \in Path, TopologyFile \in Path, Below(hostDir, TopologyFile)
  PROVE  Rel = SubSeq(TopologyFile, Len(hostDir) + 1, Len(TopologyFile))
  <1> DEFINE h == hostDir
             f == TopologyFile
             cp == CommonPrefixes({h, f})
             longest == LongestCommonPrefix({h, f})
  <1>1. Len(h) \in Nat /\ Len(f) \in Nat BY LenProperties DEF Path
  <1>2. \A p \in cp : Len(p) <= Len(h) BY DEF CommonPrefixes, IsPrefix
  <1>3. h \in cp
    <2>1. Len(h) \in 0..Len(h) /\ SubSeq(h, 1, Len(h)) = h BY <1>1, SubSeqFull DEF Path
    <2>2. h \in Prefixes(h) BY <2>1 DEF Prefixes
    <2>3. IsPrefix(h, h) BY <1>1 DEF IsPrefix
    <2>4. IsPrefix(h, f) BY DEF Below
    <2> QED BY <2>2, <2>3, <2>4 DEF CommonPrefixes
  <1>4. \A p \in cp : Len(p) \in Nat
    <2>1. \A s \in Path : \A l \in 0..Len(s) : Len(SubSeq(s, 1, l)) = l
      BY PrefixFacts DEF Path
    <2>2. \A p \in cp : \E s \in {h, f} : \E l \in 0..Len(s) : p = SubSeq(s, 1, l)
      BY DEF CommonPrefixes, Prefixes
    <2> HIDE DEF cp
    <2> TAKE p \in cp
    <2>3. PICK s \in {h, f} : \E l \in 0..Len(s) : p = SubSeq(s, 1, l) BY <2>2
    <2>4. PICK l \in 0..Len(s) : p = SubSeq(s, 1, l) BY <2>3
    <2>5. s \in Path OBVIOUS
    <2> QED BY <2>1, <2>4, <2>5
  <1>5. longest = CHOOSE l \in cp : \A other \in cp : Len(other) <= Len(l)
    BY DEF LongestCommonPrefix
  <1> HIDE DEF cp, longest
  <1>6. longest \in cp /\ \A other \in cp : Len(other) <= Len(longest) BY <1>2, <1>3, <1>5
  <1>7. Len(longest) = Len(h) BY <1>1, <1>2, <1>3, <1>4, <1>6
  <1>8. Common = Len(h) BY <1>7 DEF Common, longest
  <1> DEFINE up == [i \in 1..(Len(h) - Common) |-> ".."]
             r == SubSeq(f, Common + 1, Len(f))
  <1>9. up = <<>>
    <2>1. Len(h) - Common = 0 BY <1>1, <1>8
    <2>2. 1..(Len(h) - Common) = {} BY <2>1
    <2> QED BY <2>2
  <1>10. r \in Path
    <2>1. Common \in 0..Len(f) /\ Len(f) \in Common..Len(f) BY <1>1, <1>8, BelowIs
    <2> QED BY <2>1, SuffixFacts DEF Path
  <1>11. Rel = up \o r BY DEF Rel
  <1> HIDE DEF up, r
  <1>12. Rel = r BY <1>9, <1>10, <1>11, ConcatEmptySeq DEF Path
  <1> QED BY <1>8, <1>12 DEF r

LEMMA OtherDir == ASSUME NEW p \in Seq(OtherName) PROVE Dir(p) \in Seq(OtherName)
  <1>1. CASE p = <<>> BY <1>1 DEF Dir
  <1>2. CASE p # <<>>
    <2>1. PICK r \in Seq(OtherName), x \in OtherName : p = Append(r, x)
      BY <1>2, SequenceEmptyOrAppend
    <2>2. r \in Path /\ x \in Name BY <2>1, OtherFacts
    <2>3. Dir(p) = r BY <1>2, <2>1, <2>2, PathFacts DEF Dir
    <2> QED BY <2>1, <2>3
  <1> QED BY <1>1, <1>2

LEMMA OutwardEval ==
  ASSUME GuestNameIsNew, NEW g, Bare(g), NEW path, Outward(path)
  PROVE  ~ (Eval(g, path).result = "ok" /\ Below(GuestDir, Eval(g, path).at))
  <1> DEFINE w == Unwalked(path)
  <1>1. path \in Path /\ path \in Seq(OtherPart) BY OtherFacts DEF Outward
  <1>2. w \in WalkState /\ w.at = <<>> /\ w.parts = path BY <1>1, UnwalkedType DEF Unwalked
  <1> HIDE DEF w
  <1>3. OutWalk(w) BY <1>1, <1>2, GuestFrontOut DEF OutWalk
  <1>4. ~ Found(g, w) BY <1>3, OutWalkEnds
  <1> QED BY <1>4 DEF Found, Eval, w

\* Where the topology is: below the host directory, and found there again.
Placed(r) ==
    /\ IsTree(tree) /\ tree \in Trees /\ hostDir \in Path /\ hostDir = RealHostDir
    /\ r \in Seq(OtherName) /\ r \in Path
    /\ ResolvedFile = hostDir \o r /\ ResolvedFile \in Path /\ Rel = r
    /\ Kind(tree, ResolvedFile) \in {"dir", "file"}
    /\ \A n \in 0..Len(ResolvedFile) :
         n < Len(ResolvedFile) => Kind(tree, SubSeq(ResolvedFile, 1, n)) = "dir"

\* The directories on the way to the topology, there and here.
LEMMA FileInGuest ==
  ASSUME GuestNameIsNew, NEW r, Placed(r)
  PROVE  /\ Clean(GuestDir \o Rel) = GuestDir \o r
         /\ Eval(Guest, GuestDir \o r).result = "ok"
         /\ Eval(Guest, GuestDir \o r).at = GuestDir \o r
  <1> DEFINE p == GuestDir \o r
             f == hostDir \o r
  <1>1. /\ GuestDir \in Path /\ hostDir \in Path /\ r \in Path /\ f = ResolvedFile /\ Rel = r
        /\ IsTree(tree) /\ tree \in Trees /\ hostDir = RealHostDir
        /\ Kind(tree, f) \in {"dir", "file"}
        /\ \A n \in 0..Len(f) : n < Len(f) => Kind(tree, SubSeq(f, 1, n)) = "dir"
    BY GuestAssumption DEF Placed
  <1>2. /\ p \in Path /\ Len(p) = Len(GuestDir) + Len(r) /\ Len(GuestDir) \in Nat
        /\ f \in Path /\ Len(f) = Len(hostDir) + Len(r) /\ Len(hostDir) \in Nat
        /\ Len(r) \in Nat
    BY <1>1, JoinFacts
  <1>3. Clean(GuestDir \o Rel) = p BY <1>1, <1>2, CleanPath
  <1>4. /\ Shows(Guest, tree, hostDir)
        /\ \A n \in 0..Len(GuestDir) :
             n < Len(GuestDir) => Kind(Guest, SubSeq(GuestDir, 1, n)) = "dir"
    BY <1>1, GuestShows
  <1>5. Nodes(Guest) /\ \A q \in Path : Kind(Guest, GuestDir \o q) = Kind(tree, hostDir \o q)
    BY <1>4 DEF Shows, Bare
  <1>6. Kind(Guest, p) \in {"dir", "file"} BY <1>1, <1>5
  <1>7. ASSUME NEW n \in 1..Len(p), n < Len(p) PROVE Kind(Guest, SubSeq(p, 1, n)) = "dir"
    <2>1. CASE n < Len(GuestDir)
      <3>1. n \in 1..Len(GuestDir) /\ 1 \in 1..Len(GuestDir) /\ n \in 0..Len(GuestDir)
        BY <1>2, <2>1
      <3>2. SubSeq(p, 1, n) = SubSeq(GuestDir, 1, n)
        BY <1>1, <3>1, SubSeqOfConcat1 DEF Path
      <3> QED BY <1>4, <2>1, <3>1, <3>2
    <2>2. CASE ~ (n < Len(GuestDir))
      <3> DEFINE m == n - Len(GuestDir)
                 q == SubSeq(r, 1, m)
      <3>1. m \in 0..Len(r) /\ m < Len(r) /\ n = Len(GuestDir) + m BY <1>2, <1>7, <2>2
      <3>2. q \in Path BY <1>1, <3>1, PrefixFacts DEF Path
      <3>3. SubSeq(GuestDir \o r, 1, Len(GuestDir) + m) = GuestDir \o q
        BY <1>1, <3>1, SubSeqOfJoin
      <3>4. SubSeq(hostDir \o r, 1, Len(hostDir) + m) = hostDir \o q
        BY <1>1, <3>1, SubSeqOfJoin
      <3>5. Len(hostDir) + m \in 0..Len(f) /\ Len(hostDir) + m < Len(f) BY <1>2, <3>1
      <3> HIDE DEF m, q
      <3>6. Kind(tree, hostDir \o q) = "dir" BY <1>1, <3>4, <3>5
      <3> QED BY <1>5, <3>1, <3>2, <3>3, <3>6
    <2> QED BY <2>1, <2>2
  <1> HIDE DEF p
  <1>8. Eval(Guest, p).result = "ok" /\ Eval(Guest, p).at = p
    BY <1>2, <1>5, <1>6, <1>7, EvalThere
  <1> QED BY <1>3, <1>8 DEF p

\* From the topology's directory a source leads to the same place, or out.
LEMMA SourceInGuest ==
  ASSUME GuestNameIsNew, NEW r, Placed(r), NEW source,
         source \in [abs : BOOLEAN, parts : Seq(Part)], source.parts \in Seq(OtherPart)
  PROVE  LET there == Eval(Guest, SourcePath(Dir(GuestDir \o r), source))
             here  == Eval(tree, SourcePath(Dir(ResolvedFile), source))
         IN  there.result = "ok" /\ Below(GuestDir, there.at) =>
               here.result = "ok" /\ Matches(hostDir, there.at, here.at)
  <1> DEFINE pg == SourcePath(Dir(GuestDir \o r), source)
             ph == SourcePath(Dir(ResolvedFile), source)
             found == Eval(Guest, pg).result = "ok" /\ Below(GuestDir, Eval(Guest, pg).at)
  <1>1. /\ GuestDir \in Path /\ GuestDir # <<>> /\ hostDir \in Path
        /\ r \in Path /\ r \in Seq(OtherName) /\ ResolvedFile = hostDir \o r
        /\ ResolvedFile \in Path
        /\ IsTree(tree) /\ tree \in Trees /\ hostDir = RealHostDir
        /\ \A n \in 0..Len(ResolvedFile) :
             n < Len(ResolvedFile) => Kind(tree, SubSeq(ResolvedFile, 1, n)) = "dir"
    BY GuestAssumption DEF Placed
  <1>2. /\ Shows(Guest, tree, hostDir) /\ Bare(Guest)
        /\ \A n \in 0..Len(GuestDir) :
             n < Len(GuestDir) => Kind(Guest, SubSeq(GuestDir, 1, n)) = "dir"
    BY <1>1, GuestShows DEF Shows
  <1>3. Outward(pg) => ~ found BY <1>2, OutwardEval
  <1>4. CASE source.abs
    <2>1. pg = Clean(source.parts) BY <1>4 DEF SourcePath
    <2>2. <<>> \o source.parts = source.parts BY ConcatEmptySeq
    <2>3. Outward(pg) BY <2>1, <2>2, GuestFrontOut, CleanOutward
    <2> QED BY <1>3, <2>3
  <1>5. CASE ~ source.abs /\ r = <<>>
    <2>1. GuestDir \o r = GuestDir BY <1>1, <1>5, ConcatEmptySeq DEF Path
    <2>2. pg = Clean(Dir(GuestDir) \o source.parts) BY <1>5, <2>1 DEF SourcePath
    <2>3. Outward(pg) BY <2>2, GuestFrontOut, CleanOutward
    <2> QED BY <1>3, <2>3
  <1>6. CASE ~ source.abs /\ r # <<>>
    <2> DEFINE dg == GuestDir \o Dir(r)
               dh == hostDir \o Dir(r)
    <2>1. Dir(r) \in Seq(OtherName) /\ Dir(r) \in Path BY <1>1, OtherDir, OtherFacts
    <2>2. Dir(GuestDir \o r) = dg /\ Dir(hostDir \o r) = dh BY <1>1, <1>6, JoinFacts
    <2>3. dg \in Path /\ dh \in Path BY <1>1, <2>1, JoinFacts
    <2>4. Matches(hostDir, dg, dh) BY <2>1 DEF Matches
    <2> HIDE DEF dg, dh
    <2>5. pg = Clean(dg \o source.parts) /\ ph = Clean(dh \o source.parts)
      BY <1>1, <1>6, <2>2 DEF SourcePath
    <2>6. Matches(hostDir, pg, ph) \/ Outward(pg) BY <1>1, <2>3, <2>4, <2>5, CleanMatches
    <2> SUFFICES ASSUME found, Matches(hostDir, pg, ph)
                 PROVE  /\ Eval(tree, ph).result = "ok"
                        /\ Matches(hostDir, Eval(Guest, pg).at, Eval(tree, ph).at)
      BY <1>3, <2>6
    <2> HIDE DEF pg, ph
    <2>7. PICK q \in Seq(OtherName) : pg = GuestDir \o q /\ ph = hostDir \o q BY DEF Matches
    <2>8. q \in Path /\ q \in Seq(OtherPart) /\ q \in Seq(Part) BY OtherFacts, PathIsParts
    <2>9. Len(hostDir) \in Nat /\ Len(r) \in Nat /\ Len(ResolvedFile) = Len(hostDir) + Len(r)
          /\ Len(r) # 0 /\ Len(GuestDir) \in Nat
      BY <1>1, <1>6, JoinFacts, EmptySeq DEF Path
    <2>10. ASSUME NEW n \in 0..Len(hostDir) PROVE Kind(tree, SubSeq(hostDir, 1, n)) = "dir"
      <3>1. n \in 0..Len(ResolvedFile) /\ n < Len(ResolvedFile) BY <2>9
      <3>2. Kind(tree, SubSeq(ResolvedFile, 1, n)) = "dir" BY <1>1, <3>1
      <3>3. SubSeq(ResolvedFile, 1, n) = SubSeq(hostDir, 1, n)
        <4>1. CASE n = 0 BY <4>1, SubSeqEmpty
        <4>2. CASE n # 0
          <5>1. n \in 1..Len(hostDir) /\ 1 \in 1..Len(hostDir) BY <2>9, <4>2
          <5> QED BY <1>1, <5>1, SubSeqOfConcat1 DEF Path
        <4> QED BY <4>1, <4>2
      <3> QED BY <3>2, <3>3
    <2>11. Kind(Guest, GuestDir) = "dir"
      <3>1. <<>> \in Path /\ GuestDir \o <<>> = GuestDir /\ hostDir \o <<>> = hostDir
        BY <1>1, ConcatEmptySeq DEF Path
      <3>2. Len(hostDir) \in 0..Len(hostDir) /\ SubSeq(hostDir, 1, Len(hostDir)) = hostDir
        BY <1>1, <2>9, SubSeqFull DEF Path
      <3>3. Kind(tree, hostDir) = "dir" BY <2>10, <3>2
      <3> QED BY <1>2, <3>1, <3>3 DEF Shows
    <2>12. ASSUME NEW n \in 1..Len(GuestDir) PROVE Kind(Guest, SubSeq(GuestDir, 1, n)) = "dir"
      <3>1. n \in 0..Len(GuestDir) /\ (n < Len(GuestDir) \/ n = Len(GuestDir)) BY <2>9
      <3>2. SubSeq(GuestDir, 1, Len(GuestDir)) = GuestDir BY <1>1, SubSeqFull DEF Path
      <3> QED BY <1>2, <2>11, <3>1, <3>2
    <2>13. Nodes(Guest) /\ Nodes(tree) BY <1>2 DEF Shows, Bare
    <2>14. Eval(Guest, pg) = Resolve(Guest, At(GuestDir, q))
      <3>1. Resolve(Guest, At(<<>>, GuestDir \o q)) = Resolve(Guest, At(GuestDir, q))
        BY <1>1, <2>8, <2>12, <2>13, Descend
      <3> QED BY <2>7, <3>1 DEF Eval, Unwalked, At
    <2>15. Eval(tree, ph) = Resolve(tree, At(hostDir, q))
      <3>1. \A n \in 1..Len(hostDir) : n \in 0..Len(hostDir) BY <2>9
      <3>2. Resolve(tree, At(<<>>, hostDir \o q)) = Resolve(tree, At(hostDir, q))
        BY <1>1, <2>8, <2>10, <2>13, <3>1, Descend
      <3> QED BY <2>7, <3>2 DEF Eval, Unwalked, At
    <2> DEFINE v == At(GuestDir, q)
               u == At(hostDir, q)
    <2>16. InWalk(hostDir, v, u)
      <3>1. v \in WalkState /\ u \in WalkState BY <1>1, <2>8, AtType
      <3>2. /\ v.parts = q /\ u.parts = q /\ v.links = u.links /\ v.result = u.result
            /\ v.at = GuestDir /\ u.at = hostDir
        BY DEF At
      <3>3. <<>> \in Seq(OtherName) /\ GuestDir \o <<>> = GuestDir /\ hostDir \o <<>> = hostDir
        BY <1>1, ConcatEmptySeq DEF Path
      <3>4. Matches(hostDir, GuestDir, hostDir) BY <3>3 DEF Matches
      <3> HIDE DEF v, u
      <3> QED BY <2>8, <3>1, <3>2, <3>4 DEF InWalk
    <2>17. Found(Guest, v) BY <2>14 DEF Found
    <2> HIDE DEF v, u
    <2>18. Resolve(tree, u).result = "ok"
           /\ Matches(hostDir, Resolve(Guest, v).at, Resolve(tree, u).at)
      BY <1>2, <2>16, <2>17, InWalkEnds
    <2> QED BY <2>14, <2>15, <2>18 DEF v, u
  <1> QED BY <1>4, <1>5, <1>6

-----------------------------------------------------------------------------
(* resolveTopology: the paths are checked one after the other.             *)

LEMMA CheckedType ==
  ASSUME IsTree(tree), request \in Request
  PROVE  /\ Checked \in Seq(Path) /\ Len(Checked) \in Nat \ {0}
         /\ Head(Checked) = Checked[1] /\ Checked[1] = TopologyFile
  <1> DEFINE file == TopologyFile
             sources == request.sources
             path(source) == SourcePath(Dir(file), source)
             paths == [i \in DOMAIN sources |-> path(sources[i])]
  <1>1. request.file \in Path /\ sources \in Seq([abs : BOOLEAN, parts : Seq(Part)])
    BY DEF Request
  <1>2. file \in Path BY <1>1, EvalFacts DEF TopologyFile, ResolvedFile, WalkState
  <1>3. Dir(file) \in Seq(Part)
    <2>1. Seq(Name) \subseteq Seq(Part) BY SeqMonotonic DEF Part
    <2> QED BY <1>2, <2>1, PathFacts DEF Path
  <1>4. ASSUME NEW i \in DOMAIN sources PROVE path(sources[i]) \in Path
    <2>1. sources[i] \in [abs : BOOLEAN, parts : Seq(Part)] BY <1>1, ElementOfSeq, LenProperties
    <2>2. sources[i].parts \in Seq(Part) BY <2>1
    <2>3. Dir(file) \o sources[i].parts \in Seq(Part) BY <1>3, <2>2, ConcatProperties
    <2> QED BY <2>2, <2>3, CleanType DEF SourcePath
  <1>5. DOMAIN sources = 1..Len(sources) /\ Len(sources) \in Nat BY <1>1, LenProperties
  <1>6. paths \in Seq(Path)
    <2> HIDE DEF path
    <2>1. paths \in [1..Len(sources) -> Path] BY <1>4, <1>5
    <2> HIDE DEF paths
    <2> QED BY <1>5, <2>1, IsASeq
  <1>7. Checked = <<file>> \o paths BY DEF Checked
  <1> HIDE DEF file, paths
  <1>8. <<file>> \in Seq(Path) /\ Len(<<file>>) = 1 /\ <<file>>[1] = file BY <1>2
  <1>9. Checked \in Seq(Path) /\ Len(Checked) = 1 + Len(paths)
    BY <1>6, <1>7, <1>8, ConcatProperties
  <1>10. Len(paths) \in Nat BY <1>6, LenProperties
  <1>11. Head(Checked) = Checked[1] BY <1>9, <1>10, HeadTailProperties, EmptySeq
  <1>12. Checked[1] = file
    <2>1. 1 \in 1..(1 + Len(paths)) BY <1>10
    <2> QED BY <1>6, <1>7, <1>8, <2>1, ConcatProperties
  <1> QED BY <1>9, <1>10, <1>11, <1>12 DEF file

\* The paths left to check after one of them.
LEMMA TodoFacts ==
  ASSUME NEW c \in Seq(Path), NEW k \in 1..Len(c)
  PROVE  /\ Head(SubSeq(c, k, Len(c))) = c[k]
         /\ Tail(SubSeq(c, k, Len(c))) = SubSeq(c, k + 1, Len(c))
         /\ SubSeq(c, k + 1, Len(c)) = <<>> <=> k = Len(c)
         /\ k < Len(c) => k + 1 \in 1..Len(c) /\ Head(SubSeq(c, k + 1, Len(c))) = c[k + 1]
  <1>1. Len(c) \in Nat /\ k \in Nat /\ 1 <= k /\ k <= Len(c) BY LenProperties
  <1> DEFINE s == SubSeq(c, k, Len(c))
             r == SubSeq(c, k + 1, Len(c))
  <1>2. k - 1 \in 0..Len(c) /\ Len(c) \in (k - 1)..Len(c) /\ k \in 0..Len(c)
        /\ Len(c) \in k..Len(c) /\ (k - 1) + 1 = k
    BY <1>1
  <1>3. /\ s \in Seq(Path) /\ Len(s) = Len(c) - (k - 1)
        /\ \A i \in 1..(Len(c) - (k - 1)) : s[i] = c[(k - 1) + i]
    BY <1>2, SuffixFacts
  <1>4. r \in Seq(Path) /\ Len(r) = Len(c) - k /\ \A i \in 1..(Len(c) - k) : r[i] = c[k + i]
    BY <1>2, SuffixFacts
  <1> HIDE DEF s, r
  <1>5. s # <<>> BY <1>1, <1>3, EmptySeq
  <1>6. /\ Tail(s) \in Seq(Path) /\ Len(Tail(s)) = Len(s) - 1
        /\ \A i \in 1..Len(Tail(s)) : Tail(s)[i] = s[i + 1]
    BY <1>3, <1>5, HeadTailProperties
  <1>7. ASSUME NEW i \in 1..Len(r) PROVE Tail(s)[i] = r[i]
    <2>1. i \in 1..Len(Tail(s)) /\ i + 1 \in 1..(Len(c) - (k - 1)) /\ i \in 1..(Len(c) - k)
          /\ (k - 1) + (i + 1) = k + i
      BY <1>1, <1>3, <1>4, <1>6
    <2> QED BY <1>3, <1>4, <1>6, <2>1
  <1>8. Len(Tail(s)) = Len(r)
    <2>1. Len(Tail(s)) = (Len(c) - (k - 1)) - 1 /\ Len(r) = Len(c) - k BY <1>3, <1>4, <1>6
    <2>2. (Len(c) - (k - 1)) - 1 = Len(c) - k BY <1>1
    <2> QED BY <2>1, <2>2
  <1>9. Tail(s) = r BY <1>4, <1>6, <1>7, <1>8, SeqEqual
  <1>10. r = <<>> <=> k = Len(c) BY <1>1, <1>4, EmptySeq
  <1>11. ASSUME k < Len(c) PROVE k + 1 \in 1..Len(c) /\ Head(r) = c[k + 1]
    <2>1. 1 \in 1..(Len(c) - k) /\ k + 1 \in 1..Len(c) /\ k # Len(c) BY <1>1, <1>11
    <2> QED BY <1>4, <1>10, <2>1, HeadTailProperties
  <1>12. Head(s) = c[k]
    <2>1. 1 \in 1..(Len(c) - (k - 1)) /\ (k - 1) + 1 = k BY <1>1
    <2>2. s[1] = c[k] BY <1>3, <2>1
    <2> QED BY <1>3, <1>5, <2>2, HeadTailProperties
  <1> QED BY <1>9, <1>10, <1>11, <1>12 DEF s, r

Inside(path) == \A t \in {tree, Grown(tree)} : ~ Outside(t, path)

\* The k-th path is being checked, and those before it are inside.
Checking(k) ==
    /\ k \in 1..Len(Checked) /\ todo = SubSeq(Checked, k, Len(Checked))
    /\ Fits(tree, Checked[k], walk)
    /\ \A i \in 1..(k - 1) : Inside(Checked[i])

\* The topology was found, in every stage after the first.
FileFound ==
    stage \in {"hostdir", "check", "forwarded"} => Eval(tree, request.file).result = "ok"

HostInv ==
    /\ tree \in Trees /\ request \in Requests /\ walk \in WalkState
    /\ hostDir \in Path /\ FileFound
    /\ stage \notin {"hostdir", "check"} => walk.result # "walking"
    /\ stage = "check" => \E k \in 1..Len(Checked) : Checking(k)
    /\ CoveredStaysBelow

LEMMA NoWalkType == NoWalk \in WalkState /\ NoWalk.result = "ok"
  <1>1. <<>> \in Path BY DEF Path
  <1>2. Unwalked(<<>>) \in WalkState BY <1>1, UnwalkedType
  <1> QED BY <1>2 DEF NoWalk, WalkState

\* What is checked depends on what the command does not change.
LEMMA CheckedStays ==
  ASSUME UNCHANGED <<tree, request>>
  PROVE  Checked' = Checked
  BY DEF Checked, TopologyFile, ResolvedFile

LEMMA FoundStays ==
  ASSUME UNCHANGED <<tree, request>>,
         stage' \in {"hostdir", "check", "forwarded"} =>
           stage \in {"hostdir", "check", "forwarded"}
  PROVE  FileFound => FileFound'
  BY DEF FileFound

LEMMA OutsideStays ==
  ASSUME UNCHANGED <<tree, hostDir>>
  PROVE  /\ RealHostDir' = RealHostDir
         /\ \A path : Inside(path) => Inside(path)'
  <1>1. RealHostDir' = RealHostDir BY DEF RealHostDir
  <1>2. \A t, path : Outside(t, path)' <=> Outside(t, path) BY <1>1 DEF Outside
  <1> QED BY <1>1, <1>2 DEF Inside

\* A stage that is not one of the walk's, and in which nothing is promised.
LEMMA Returned ==
  ASSUME HostInv, UNCHANGED <<tree, request, hostDir>>, walk' = NoWalk, stage' = "failed"
  PROVE  HostInv'
  BY NoWalkType DEF HostInv, FileFound, CoveredStaysBelow

LEMMA TreeType == ASSUME HostInv PROVE IsTree(tree) /\ request \in Request
  BY TreeAssumption, RequestAssumption DEF HostInv

LEMMA StatFileKeeps == ASSUME HostInv, StatFile PROVE HostInv'
  <1>1. UNCHANGED <<tree, request, hostDir>> BY DEF StatFile
  <1>2. CASE Return("failed") BY <1>1, <1>2, Returned DEF Return
  <1>3. CASE ~ Return("failed")
    <2>1. /\ stage' = "hostdir" /\ Eval(tree, request.file).result = "ok"
          /\ walk' = CASE request.hostFlag = "unset" -> StartWalk(Dir(request.file))
                       [] request.hostFlag = "given" -> StartWalk(request.hostDir)
                       [] request.hostFlag = "blank" -> [NoWalk EXCEPT !.at = request.cwd]
      BY <1>3 DEF StatFile
    <2>2. IsTree(tree) /\ request \in Request BY TreeType
    <2>3. /\ request.file \in Path /\ request.hostDir \in Path /\ request.cwd \in Path
          /\ request.hostFlag \in {"unset", "blank", "given"}
      BY <2>2 DEF Request
    <2>4. walk' \in WalkState
      <3>1. Dir(request.file) \in Path BY <2>3, PathFacts
      <3>2. StartWalk(Dir(request.file)) \in WalkState BY <2>2, <3>1, StartFits
      <3>3. StartWalk(request.hostDir) \in WalkState BY <2>2, <2>3, StartFits
      <3>4. [NoWalk EXCEPT !.at = request.cwd] \in WalkState BY <2>3, NoWalkType DEF WalkState
      <3> QED BY <2>1, <2>3, <3>2, <3>3, <3>4
    <2>5. FileFound' BY <1>1, <2>1 DEF FileFound
    <2> QED BY <1>1, <2>1, <2>4, <2>5 DEF HostInv, CoveredStaysBelow
  <1> QED BY <1>2, <1>3

LEMMA WalkKeeps == ASSUME HostInv, Walk PROVE HostInv'
  <1>1. /\ walk.result = "walking" /\ walk' = WalkOn(tree, walk)
        /\ UNCHANGED <<tree, request, stage, hostDir, todo>>
    BY DEF Walk
  <1>2. IsTree(tree) /\ request \in Request BY TreeType
  <1>3. walk' \in WalkState BY <1>1, <1>2, WalkOnFacts DEF HostInv
  <1>4. Checked' = Checked BY <1>1, CheckedStays
  <1>5. ASSUME NEW k \in 1..Len(Checked), Checking(k) PROVE Checking(k)'
    <2>1. Checked[k] \in Path BY <1>2, CheckedType, ElementOfSeq
    <2>2. Fits(tree, Checked[k], walk') BY <1>1, <1>2, <1>5, <2>1, WalkOnFits DEF HostInv, Checking
    <2>3. \A i \in 1..(k - 1) : Inside(Checked[i])' BY <1>1, <1>4, <1>5, OutsideStays DEF Checking
    <2> QED BY <1>1, <1>4, <1>5, <2>2, <2>3 DEF Checking
  <1>6. stage \in {"hostdir", "check"} BY <1>1 DEF HostInv
  <1>7. FileFound => FileFound' BY <1>1, FoundStays
  <1> QED BY <1>1, <1>3, <1>4, <1>5, <1>6, <1>7 DEF HostInv, CoveredStaysBelow

LEMMA SetHostDirKeeps == ASSUME HostInv, SetHostDir PROVE HostInv'
  <1>1. UNCHANGED <<tree, request>> /\ stage = "hostdir" BY DEF SetHostDir
  <1>2. CASE Return("failed")
    <2>1. UNCHANGED hostDir BY <1>2 DEF SetHostDir, Return
    <2> QED BY <1>1, <1>2, <2>1, Returned DEF Return
  <1>3. CASE ~ Return("failed")
    <2>1. /\ hostDir' = walk.at /\ stage' = "check"
          /\ todo' = Checked /\ walk' = StartWalk(Head(Checked))
      BY <1>3 DEF SetHostDir
    <2>2. IsTree(tree) /\ request \in Request BY TreeType
    <2>3. /\ Checked \in Seq(Path) /\ Len(Checked) \in Nat \ {0} /\ Head(Checked) = Checked[1]
      BY <2>2, CheckedType
    <2>4. 1 \in 1..Len(Checked) BY <2>3
    <2>5. Checked[1] \in Path BY <2>3, <2>4, ElementOfSeq
    <2>6. walk' \in WalkState /\ Fits(tree, Checked[1], walk') BY <2>1, <2>2, <2>3, <2>5, StartFits
    <2>7. Checked' = Checked BY <1>1, CheckedStays
    <2>8. SubSeq(Checked, 1, Len(Checked)) = Checked BY <2>3, SubSeqFull
    <2>9. Checking(1)' BY <1>1, <2>1, <2>4, <2>6, <2>7, <2>8 DEF Checking
    <2>10. FileFound => FileFound' BY <1>1, FoundStays
    <2>11. hostDir' \in Path BY <2>1 DEF HostInv, WalkState
    <2> QED BY <1>1, <2>1, <2>4, <2>6, <2>7, <2>9, <2>10, <2>11
         DEF HostInv, CoveredStaysBelow
  <1> QED BY <1>2, <1>3

LEMMA CheckPathKeeps == ASSUME HostInv, CheckPath PROVE HostInv'
  <1>1. /\ stage = "check" /\ walk.result # "walking" /\ walk \in WalkState
        /\ UNCHANGED <<tree, request, hostDir>> /\ FileFound' /\ hostDir' \in Path
    BY FoundStays DEF CheckPath, HostInv
  <1>2. IsTree(tree) /\ request \in Request BY TreeType
  <1>3. Checked \in Seq(Path) /\ Len(Checked) \in Nat \ {0} BY <1>2, CheckedType
  <1>4. Checked' = Checked /\ RealHostDir' = RealHostDir BY <1>1, CheckedStays, OutsideStays
  <1>5. PICK k \in 1..Len(Checked) : Checking(k) BY <1>1 DEF HostInv
  <1> DEFINE path == Checked[k]
  <1>6. path \in Path BY <1>3, ElementOfSeq
  <1>7. /\ todo = SubSeq(Checked, k, Len(Checked)) /\ Fits(tree, path, walk)
        /\ \A i \in 1..(k - 1) : Inside(Checked[i])
    BY <1>5 DEF Checking
  <1> HIDE DEF path
  <1>8. /\ walk.result \in {"ok", "error"}
        /\ walk.result = "ok" =>
             \A u \in {tree, Grown(tree)} : Eval(u, path).result = "ok" => Eval(u, path).at = walk.at
        /\ walk.result = "error" => Eval(Grown(tree), path).result # "ok"
    BY <1>1, <1>2, <1>6, <1>7, Verdict
  <1>9. CASE walk.result = "ok" /\ Below(RealHostDir, walk.at)
    <2>1. /\ todo' = Tail(todo)
          /\ \/ Tail(todo) # <<>> /\ stage' = "check" /\ walk' = StartWalk(Head(Tail(todo)))
             \/ Tail(todo) = <<>> /\ stage' = "forwarded" /\ walk' = NoWalk
      BY <1>9 DEF CheckPath
    <2>2. Inside(path) BY <1>8, <1>9 DEF Inside, Outside
    <2>3. \A i \in 1..k : Inside(Checked[i])'
      <3>1. \A i \in 1..k : i = k \/ i \in 1..(k - 1) BY <1>3
      <3>2. \A i \in 1..k : Inside(Checked[i]) BY <1>7, <2>2, <3>1 DEF path
      <3> QED BY <1>1, <1>4, <3>2, OutsideStays
    <2>4. /\ Tail(todo) = SubSeq(Checked, k + 1, Len(Checked))
          /\ Tail(todo) = <<>> <=> k = Len(Checked)
          /\ k < Len(Checked) => k + 1 \in 1..Len(Checked) /\ Head(Tail(todo)) = Checked[k + 1]
      BY <1>3, <1>7, TodoFacts
    <2>5. CASE k = Len(Checked)
      <3>1. stage' = "forwarded" /\ walk' = NoWalk BY <2>1, <2>4, <2>5
      <3>2. DOMAIN Checked = 1..k BY <1>3, <2>5, LenProperties
      <3>3. CoveredStaysBelow' BY <1>4, <2>3, <3>2 DEF CoveredStaysBelow, Inside
      <3> QED BY <1>1, <3>1, <3>3, NoWalkType DEF HostInv
    <2>6. CASE k # Len(Checked)
      <3>1. k < Len(Checked) BY <1>3, <2>6
      <3>2. k + 1 \in 1..Len(Checked) /\ Head(Tail(todo)) = Checked[k + 1] BY <2>4, <3>1
      <3>3. stage' = "check" /\ walk' = StartWalk(Checked[k + 1]) BY <2>1, <2>4, <2>6, <3>2
      <3>4. Checked[k + 1] \in Path BY <1>3, <3>2, ElementOfSeq
      <3>5. walk' \in WalkState /\ Fits(tree, Checked[k + 1], walk')
        BY <1>2, <3>3, <3>4, StartFits
      <3>6. k + 1 - 1 = k BY <1>3
      <3>7. Checking(k + 1)'
        BY <1>1, <1>4, <2>1, <2>3, <2>4, <3>2, <3>5, <3>6 DEF Checking
      <3> QED BY <1>1, <1>4, <3>2, <3>3, <3>5, <3>7
           DEF HostInv, CoveredStaysBelow
    <2> QED BY <2>5, <2>6
  <1>10. CASE ~(walk.result = "ok" /\ Below(RealHostDir, walk.at))
    <2>1. stage' = "refused" /\ walk' = NoWalk BY <1>10 DEF CheckPath, Return
    <2> QED BY <1>1, <2>1, NoWalkType DEF HostInv, CoveredStaysBelow
  <1> QED BY <1>9, <1>10

\* A path that is refused leads out, or nowhere.
LEMMA RefusedLeads ==
  ASSUME HostInv, CheckPath, stage' = "refused"
  PROVE  \/ Eval(Grown(tree), Head(todo)).result # "ok"
         \/ ~Below(RealHostDir, Eval(Grown(tree), Head(todo)).at)
  <1>1. /\ stage = "check" /\ walk \in WalkState
        /\ walk.result # "walking"
        /\ walk.result = "error" \/ ~Below(RealHostDir, walk.at)
    BY DEF CheckPath, HostInv
  <1>2. IsTree(tree) /\ request \in Request BY TreeType
  <1>3. Checked \in Seq(Path) /\ Len(Checked) \in Nat \ {0} BY <1>2, CheckedType
  <1>4. PICK k \in 1..Len(Checked) : Checking(k) BY <1>1 DEF HostInv
  <1>5. Checked[k] \in Path BY <1>3, ElementOfSeq
  <1>6. todo = SubSeq(Checked, k, Len(Checked)) /\ Fits(tree, Checked[k], walk)
    BY <1>4 DEF Checking
  <1>7. Head(todo) = Checked[k] BY <1>3, <1>6, TodoFacts
  <1>8. \/ Eval(Grown(tree), Checked[k]).result # "ok"
        \/ ~Below(RealHostDir, Eval(Grown(tree), Checked[k]).at)
    BY <1>1, <1>2, <1>5, <1>6, Verdict
  <1> QED BY <1>7, <1>8

\* What is forwarded is in the host directory, and found there again.
LEMMA ForwardedPlaced ==
  ASSUME HostInv, GuestNameIsNew, stage = "forwarded", hostDir = RealHostDir
  PROVE  \E r : Placed(r)
  <1> DEFINE file == ResolvedFile
  <1>1. IsTree(tree) /\ request \in Request /\ tree \in Trees /\ hostDir \in Path
    BY TreeType DEF HostInv
  <1>2. request.file \in Path BY <1>1 DEF Request
  <1>3. Eval(tree, request.file).result = "ok" BY DEF HostInv, FileFound
  <1>4. file \in Path BY <1>1, <1>2, EvalFacts DEF ResolvedFile, WalkState
  <1>5. Kind(tree, file) \in {"dir", "file"} BY <1>1, <1>2, <1>3, EvalLands DEF ResolvedFile
  <1> HIDE DEF file
  <1>6. Nodes(tree) BY <1>1 DEF IsTree, Nodes
  <1>7. file \in DOMAIN tree BY <1>5, <1>6, KindFacts
  <1>8. \A n \in 0..Len(file) : n < Len(file) => Kind(tree, SubSeq(file, 1, n)) = "dir"
    BY <1>1, <1>7, TreeDirs
  <1>9. Eval(tree, file).result = "ok" /\ Eval(tree, file).at = file
    <2>1. \A n \in 1..Len(file) : n \in 0..Len(file)
      <3>1. Len(file) \in Nat BY <1>4, LenProperties DEF Path
      <3> QED BY <3>1
    <2> QED BY <1>4, <1>5, <1>6, <1>8, <2>1, EvalThere
  <1>10. Below(hostDir, file)
    <2>1. Checked[1] = file /\ 1 \in DOMAIN Checked
      <3>1. Len(Checked) \in Nat \ {0} /\ Checked \in Seq(Path) BY <1>1, CheckedType
      <3>2. 1 \in 1..Len(Checked) BY <3>1
      <3>3. 1 \in DOMAIN Checked BY <3>1, <3>2, LenProperties
      <3>4. Checked[1] = TopologyFile BY <1>1, CheckedType
      <3> QED BY <3>3, <3>4 DEF TopologyFile, file
    <2>2. ~ Outside(tree, file) BY <2>1 DEF HostInv, CoveredStaysBelow
    <2> QED BY <1>9, <2>2 DEF Outside
  <1>11. PICK r \in Path : file = hostDir \o r BY <1>1, <1>4, <1>10, SplitFacts
  <1>12. SubSeq(file, Len(hostDir) + 1, Len(file)) = r BY <1>1, <1>11, JoinFacts
  <1>13. r \in Seq(OtherName)
    <2>1. file \in Seq(OtherPart) BY <1>1, <1>7 DEF GuestNameIsNew, OtherPart
    <2>2. Len(hostDir) \in 0..Len(file) /\ Len(file) \in Len(hostDir)..Len(file)
      <3>1. Len(hostDir) \in Nat /\ Len(r) \in Nat /\ Len(file) = Len(hostDir) + Len(r)
        BY <1>1, <1>11, JoinFacts
      <3> QED BY <3>1
    <2>3. SubSeq(file, Len(hostDir) + 1, Len(file)) \in Seq(OtherPart)
      BY <2>1, <2>2, SuffixFacts
    <2> QED BY <1>11, <1>12, <2>3, OtherPath
  <1>14. Rel = r BY <1>1, <1>4, <1>10, <1>12, RelIs DEF TopologyFile, file
  <1>15. Placed(r)
    BY <1>1, <1>4, <1>5, <1>8, <1>11, <1>13, <1>14 DEF Placed, file
  <1> QED BY <1>15

LEMMA SameSeen ==
  ASSUME HostInv, GuestNameIsNew
  PROVE  GuestSeesTheSame
  <1> SUFFICES ASSUME stage = "forwarded", hostDir = RealHostDir
               PROVE  GuestSeesTheSame
    BY DEF GuestSeesTheSame
  <1> DEFINE inGuest(path) == GuestDir \o SubSeq(path, Len(hostDir) + 1, Len(path))
             name == Clean(GuestDir \o Rel)
             there(i) == Eval(Guest, SourcePath(Dir(name), request.sources[i]))
             here(i) == Eval(tree, SourcePath(Dir(ResolvedFile), request.sources[i]))
  <1>1. PICK r : Placed(r) BY ForwardedPlaced
  <1>2. ResolvedFile = hostDir \o r /\ hostDir \in Path /\ r \in Path BY <1>1 DEF Placed
  <1>3. \A q \in Path : inGuest(hostDir \o q) = GuestDir \o q BY <1>2, JoinFacts
  <1>4. /\ name = GuestDir \o r
        /\ Eval(Guest, GuestDir \o r).result = "ok" /\ Eval(Guest, GuestDir \o r).at = GuestDir \o r
    BY <1>1, FileInGuest
  <1> HIDE DEF name
  <1>5. Eval(Guest, name).result = "ok" /\ Eval(Guest, name).at = inGuest(ResolvedFile)
    BY <1>2, <1>3, <1>4
  <1>6. ASSUME NEW i \in DOMAIN request.sources
        PROVE  there(i).result = "ok" /\ Below(GuestDir, there(i).at) =>
                 here(i).result = "ok" /\ there(i).at = inGuest(here(i).at)
    <2> DEFINE source == request.sources[i]
    <2>1. source.parts \in Seq(OtherPart)
      BY DEF HostInv, GuestNameIsNew, OtherPart
    <2>2. source \in [abs : BOOLEAN, parts : Seq(Part)]
      <3>1. request.sources \in Seq([abs : BOOLEAN, parts : Seq(Part)]) BY TreeType DEF Request
      <3> QED BY <3>1, ElementOfSeq, LenProperties
    <2> HIDE DEF source
    <2>3. LET t == Eval(Guest, SourcePath(Dir(GuestDir \o r), source))
              h == Eval(tree, SourcePath(Dir(ResolvedFile), source))
          IN  t.result = "ok" /\ Below(GuestDir, t.at) =>
                h.result = "ok" /\ Matches(hostDir, t.at, h.at)
      BY <1>1, <2>1, <2>2, SourceInGuest
    <2>4. there(i).result = "ok" /\ Below(GuestDir, there(i).at) =>
            here(i).result = "ok" /\ Matches(hostDir, there(i).at, here(i).at)
      BY <1>4, <2>3 DEF source
    <2> HIDE DEF there, here
    <2>5. ASSUME Matches(hostDir, there(i).at, here(i).at)
          PROVE  there(i).at = inGuest(here(i).at)
      <3>1. PICK q \in Seq(OtherName) :
                   there(i).at = GuestDir \o q /\ here(i).at = hostDir \o q
        BY <2>5 DEF Matches
      <3>2. q \in Path BY OtherFacts
      <3> QED BY <1>3, <3>1, <3>2
    <2> QED BY <2>4, <2>5
  <1>7. \A guest : guest = Guest =>
          /\ Eval(guest, name).result = "ok" /\ Eval(guest, name).at = inGuest(ResolvedFile)
          /\ \A i \in DOMAIN request.sources :
               LET source == Eval(guest, SourcePath(Dir(name), request.sources[i]))
               IN  source.result = "ok" /\ Below(GuestDir, source.at) =>
                     here(i).result = "ok" /\ source.at = inGuest(here(i).at)
    BY <1>5, <1>6
  <1> QED BY <1>7 DEF GuestSeesTheSame, name

-----------------------------------------------------------------------------
(* frridge-mp.                                                             *)

LEMMA MpStepKeeps == ASSUME HostInv, [MpNext]_<<vars, shellVars>> PROVE HostInv'
  <1>1. CASE Check
    BY <1>1, StatFileKeeps, WalkKeeps, SetHostDirKeeps, CheckPathKeeps DEF Check, Next
  <1>2. CASE Contact
    <2>1. /\ stage' = "guest" /\ walk' = NoWalk
          /\ tree' = CHOOSE t \in Trees : TRUE
          /\ request' = CHOOSE r \in Requests : TRUE
          /\ hostDir' = <<>> /\ <<>> \in Path
      BY <1>2 DEF Contact, Path
    <2>2. tree' \in Trees /\ request' \in Requests BY <2>1 DEF HostInv
    <2> QED BY <2>1, <2>2, NoWalkType DEF HostInv, FileFound, CoveredStaysBelow
  <1>3. CASE Use \/ UNCHANGED <<vars, shellVars>>
    <2>1. UNCHANGED <<tree, request, stage, hostDir, todo, walk>> BY <1>3 DEF Use, vars
    <2>2. Checked' = Checked /\ RealHostDir' = RealHostDir
          /\ \A path : Inside(path) => Inside(path)'
      BY <2>1, CheckedStays, OutsideStays
    <2>3. \A t, path : Outside(t, path)' <=> Outside(t, path) BY <2>2 DEF Outside
    <2>4. \A k : Checking(k) => Checking(k)' BY <2>1, <2>2 DEF Checking
    <2>5. CoveredStaysBelow => CoveredStaysBelow'
      BY <2>1, <2>2, <2>3 DEF CoveredStaysBelow
    <2>6. FileFound => FileFound' BY <2>1, FoundStays
    <2> QED BY <2>1, <2>2, <2>4, <2>5, <2>6 DEF HostInv
  <1> QED BY <1>1, <1>2, <1>3 DEF MpNext

\* The invariant of the checks: while a path is checked the walk is on its
\* way, and the paths before it are inside.
THEOREM HostHolds == MpSpec => []HostInv
  <1>1. MpInit => HostInv
    <2>1. <<>> \in Path BY DEF Path
    <2> QED BY <2>1, NoWalkType
         DEF MpInit, Init, HostInv, FileFound, CoveredStaysBelow
  <1> QED BY <1>1, MpStepKeeps, PTL DEF MpSpec

\* What is forwarded stays below the host directory, as the kernel resolves
\* it, now and when what is missing has been made, in every file system and
\* for every topology (root.go 248-334).
THEOREM ForwardedStaysBelow == MpSpec => []CoveredStaysBelow
  <1>1. HostInv => CoveredStaysBelow BY DEF HostInv
  <1> QED BY <1>1, HostHolds, PTL

\* No path is refused that would be below: a source that is missing is for the
\* command in the guest to judge (root.go 291-292).
THEOREM RefusedLeadsOut == MpSpec => RefusedIsOutside
  <1>1. HostInv /\ [MpNext]_<<vars, shellVars>> =>
          [stage = "check" /\ stage' = "refused" =>
             LET eval == Eval(Grown(tree), Head(todo))
             IN  eval.result # "ok" \/ ~Below(RealHostDir, eval.at)]_vars
    <2> SUFFICES ASSUME HostInv, [MpNext]_<<vars, shellVars>>, stage = "check", stage' = "refused"
                 PROVE  \/ Eval(Grown(tree), Head(todo)).result # "ok"
                        \/ ~Below(RealHostDir, Eval(Grown(tree), Head(todo)).at)
      OBVIOUS
    <2>1. CheckPath
      BY DEF MpNext, Check, Next, StatFile, Walk, SetHostDir, Return, Contact, Use, vars
    <2> QED BY <2>1, RefusedLeads
  <1> QED BY <1>1, HostHolds, PTL DEF MpSpec, RefusedIsOutside

\* The guest reads the topology that was checked, and what it finds in its mount
\* for a mount source is what was checked for it, in every file system and for
\* every topology that do not use the name of the guest's directory (root.go
\* 205-226; config.go 250-281, 556-562).
THEOREM GuestFindsTheSame == GuestNameIsNew => (MpSpec => []GuestSeesTheSame)
  <1> SUFFICES ASSUME GuestNameIsNew PROVE MpSpec => []GuestSeesTheSame OBVIOUS
  <1>1. HostInv => GuestSeesTheSame BY SameSeen
  <1> QED BY <1>1, HostHolds, PTL

\* After its checks a frridge-mp command is one command of the guest's shell:
\* MpCommand implements GuestShell's specification.
THEOREM MpIsOneShell == MpSpec => ShellSpec
  <1>1. MpInit => Off BY DEF MpInit
  <1>2. [MpNext]_<<vars, shellVars>> => [ShellStep]_shellVars
    BY DEF MpNext, Check, Contact, Use, ShellStep
  <1> QED BY <1>1, <1>2, PTL DEF MpSpec, ShellSpec

\* So what frridge-mp takes for the command's status and output is.
THEOREM MpAnswersAreTrue == MpSpec => []AnswerIsTheCommands
  BY MpIsOneShell, AnswersAreTrue, PTL

\* And an undisturbed command gets its status through.
THEOREM MpUndisturbedGetThrough == MpSpec => []UndisturbedIsAnswered
  BY MpIsOneShell, UndisturbedGetThrough, PTL
=============================================================================
