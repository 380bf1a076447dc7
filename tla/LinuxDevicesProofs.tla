------------------------- MODULE LinuxDevicesProofs --------------------------
(***************************************************************************)
(* A `linux:` section that passes validateLinux can be built, and is built *)
(* as declared; one that is rejected for a device or a namespace could not *)
(* be built: proofs about LinuxDevices, for any section.                   *)
(*                                                                         *)
(* First the order of places; then what claims stand behind each call;     *)
(* then what the check leaves when it accepts; then the construction, of   *)
(* an accepted section step by step, of any section as a whole.            *)
(***************************************************************************)
EXTENDS LinuxDevices, FiniteSetTheorems, TLAPS

-----------------------------------------------------------------------------
(* The order of places.                                                    *)

Place == Nat \X Nat \X Nat \X Nat

\* c stands at an earlier place than d, whatever the steps.
Sooner(c, d) == \E n \in 1..4 : c.at[n] < d.at[n] /\ \A m \in 1..(n - 1) : c.at[m] = d.at[m]

LEMMA SoonerIs ==
  ASSUME NEW c, NEW d, c.at \in Place, d.at \in Place
  PROVE  Sooner(c, d) <=>
           \/ c.at[1] < d.at[1]
           \/ c.at[1] = d.at[1] /\ c.at[2] < d.at[2]
           \/ c.at[1] = d.at[1] /\ c.at[2] = d.at[2] /\ c.at[3] < d.at[3]
           \/ c.at[1] = d.at[1] /\ c.at[2] = d.at[2] /\ c.at[3] = d.at[3] /\ c.at[4] < d.at[4]
  <1>1. 1..4 = {1, 2, 3, 4} OBVIOUS
  <1>2. 1..(1 - 1) = {} /\ 1..(2 - 1) = {1} /\ 1..(3 - 1) = {1, 2} /\ 1..(4 - 1) = {1, 2, 3}
    OBVIOUS
  <1> DEFINE At(n) == c.at[n] < d.at[n] /\ \A m \in 1..(n - 1) : c.at[m] = d.at[m]
  <1>3. At(1) <=> c.at[1] < d.at[1] BY <1>2
  <1>4. At(2) <=> c.at[1] = d.at[1] /\ c.at[2] < d.at[2] BY <1>2
  <1>5. At(3) <=> c.at[1] = d.at[1] /\ c.at[2] = d.at[2] /\ c.at[3] < d.at[3] BY <1>2
  <1>6. At(4) <=> c.at[1] = d.at[1] /\ c.at[2] = d.at[2] /\ c.at[3] = d.at[3]
                  /\ c.at[4] < d.at[4] BY <1>2
  <1>7. Sooner(c, d) <=> At(1) \/ At(2) \/ At(3) \/ At(4) BY <1>1 DEF Sooner
  <1> QED BY <1>3, <1>4, <1>5, <1>6, <1>7

LEMMA BeforeIs ==
  ASSUME NEW c, NEW d
  PROVE  Before(c, d) <=> Sooner(c, d) \/ (c.at = d.at /\ c.step < d.step)
  BY DEF Before, Sooner

\* A walk goes one way.
LEMMA SoonerOrder ==
  ASSUME NEW c, NEW d, NEW e, c.at \in Place, d.at \in Place, e.at \in Place
  PROVE  /\ c.at = d.at => ~ Sooner(c, d)
         /\ ~ (Sooner(c, d) /\ Sooner(d, c))
         /\ Sooner(c, d) /\ Sooner(d, e) => Sooner(c, e)
  <1>1. /\ c.at[1] \in Nat /\ c.at[2] \in Nat /\ c.at[3] \in Nat /\ c.at[4] \in Nat
        /\ d.at[1] \in Nat /\ d.at[2] \in Nat /\ d.at[3] \in Nat /\ d.at[4] \in Nat
        /\ e.at[1] \in Nat /\ e.at[2] \in Nat /\ e.at[3] \in Nat /\ e.at[4] \in Nat
    BY DEF Place
  <1>2. c.at = d.at => ~ Sooner(c, d) BY <1>1, SoonerIs
  <1>3. ~ (Sooner(c, d) /\ Sooner(d, c)) BY <1>1, SoonerIs
  <1>4. Sooner(c, d) /\ Sooner(d, e) => Sooner(c, e) BY <1>1, SoonerIs
  <1> QED BY <1>2, <1>3, <1>4

LEMMA SoonerSame ==
  ASSUME NEW c, NEW d, NEW c2, NEW d2, c2.at = c.at, d2.at = d.at, Sooner(c, d)
  PROVE  Sooner(c2, d2)
  BY DEF Sooner

Placed(c) == c.at \in Place /\ c.step \in Nat

LEMMA BeforeOrder ==
  ASSUME NEW c, NEW d, NEW e, Placed(c), Placed(d), Placed(e)
  PROVE  /\ ~ Before(c, c)
         /\ ~ (Before(c, d) /\ Before(d, c))
         /\ Before(c, d) /\ Before(d, e) => Before(c, e)
         /\ Before(c, d) /\ Before(d, e) /\ c.at = e.at => d.at = c.at
  <1> USE DEF Placed
  <1>1. ~ Before(c, c) BY SoonerOrder, BeforeIs
  <1>2. ~ (Before(c, d) /\ Before(d, c)) BY SoonerOrder, BeforeIs
  <1>3. ASSUME Before(c, d), Before(d, e) PROVE Before(c, e)
    <2>1. CASE Sooner(c, d) /\ Sooner(d, e) BY <2>1, SoonerOrder, BeforeIs
    <2>2. CASE Sooner(c, d) /\ d.at = e.at BY <2>2, SoonerSame, BeforeIs
    <2>3. CASE Sooner(d, e) /\ c.at = d.at BY <2>3, SoonerSame, BeforeIs
    <2>4. CASE c.at = d.at /\ d.at = e.at BY <1>3, <2>4, SoonerOrder, BeforeIs
    <2> QED BY <1>3, <2>1, <2>2, <2>3, <2>4, BeforeIs
  <1>4. ASSUME Before(c, d), Before(d, e), c.at = e.at PROVE d.at = c.at
    <2>1. ~ (Sooner(c, d) /\ Sooner(d, e)) BY <1>4, SoonerOrder
    <2>2. Sooner(c, d) => Sooner(e, d) BY <1>4, SoonerSame
    <2>3. Sooner(d, e) => Sooner(d, c) BY <1>4, SoonerSame
    <2> QED BY <1>4, <2>1, <2>2, <2>3, SoonerOrder, BeforeIs
  <1> QED BY <1>1, <1>2, <1>3, <1>4
-----------------------------------------------------------------------------
(* What claims and calls a section has.                                    *)

AClaim(at, step, table, name, to) ==
    [at |-> at, step |-> step, table |-> table, name |-> name, to |-> to]
ACall(at, step, op, name, arg) ==
    [at |-> at, step |-> step, op |-> op, name |-> name, arg |-> arg]

ClaimParts(s) ==
    /\ \A i \in DOMAIN s.vrfs : VrfClaims(i, s.vrfs[i]) \subseteq ClaimsOf(s)
    /\ \A i \in DOMAIN s.bonds : BondClaims(i, s.bonds[i]) \subseteq ClaimsOf(s)
    /\ \A i \in DOMAIN s.interfaces : InterfaceClaims(i, s.interfaces[i]) \subseteq ClaimsOf(s)
    /\ \A i \in DOMAIN s.veths : VethClaims(i, s.veths[i]) \subseteq ClaimsOf(s)
    /\ \A i \in DOMAIN s.bridges : BridgeClaims(i, s.bridges[i]) \subseteq ClaimsOf(s)
    /\ \A i \in DOMAIN s.veths : VethDevices(i, s.veths[i]) \subseteq ClaimsOf(s)

LEMMA HasClaimParts == ASSUME NEW s PROVE ClaimParts(s)
  BY DEF ClaimParts, ClaimsOf, Each

CallParts(s) ==
    /\ \A i \in DOMAIN s.vrfs : VrfCalls(i, s.vrfs[i]) \subseteq CallsOf(s)
    /\ \A i \in DOMAIN s.bonds : BondCalls(i, s.bonds[i]) \subseteq CallsOf(s)
    /\ \A i \in DOMAIN s.bridges : BridgeCalls(i, s.bridges[i]) \subseteq CallsOf(s)
    /\ \A i \in DOMAIN s.bonds : BondMasterCalls(i, s.bonds[i]) \subseteq CallsOf(s)
    /\ \A i \in DOMAIN s.interfaces : InterfaceCalls(i, s.interfaces[i]) \subseteq CallsOf(s)
    /\ \A i \in DOMAIN s.veths : VethCalls(i, s.veths[i]) \subseteq CallsOf(s)
    /\ \A i \in DOMAIN s.routes : RouteCalls(i, s.routes[i]) \subseteq CallsOf(s)

LEMMA HasCallParts == ASSUME NEW s PROVE CallParts(s)
  BY DEF CallParts, CallsOf, Each

\* A claim is one of an entry.
LEMMA ClaimCases ==
  ASSUME NEW s, NEW c \in ClaimsOf(s)
  PROVE  \/ \E i \in DOMAIN s.vrfs : c \in VrfClaims(i, s.vrfs[i])
         \/ \E i \in DOMAIN s.bonds : c \in BondClaims(i, s.bonds[i])
         \/ \E i \in DOMAIN s.interfaces : c \in InterfaceClaims(i, s.interfaces[i])
         \/ \E i \in DOMAIN s.veths : c \in VethClaims(i, s.veths[i])
         \/ \E i \in DOMAIN s.bridges : c \in BridgeClaims(i, s.bridges[i])
         \/ \E i \in DOMAIN s.veths : c \in VethDevices(i, s.veths[i])
  BY DEF ClaimsOf, Each

LEMMA CallCases ==
  ASSUME NEW s, NEW c \in CallsOf(s)
  PROVE  \/ \E i \in DOMAIN s.vrfs : c \in VrfCalls(i, s.vrfs[i])
         \/ \E i \in DOMAIN s.bonds : c \in BondCalls(i, s.bonds[i])
         \/ \E i \in DOMAIN s.bridges : c \in BridgeCalls(i, s.bridges[i])
         \/ \E i \in DOMAIN s.bonds : c \in BondMasterCalls(i, s.bonds[i])
         \/ \E i \in DOMAIN s.interfaces : c \in InterfaceCalls(i, s.interfaces[i])
         \/ \E i \in DOMAIN s.veths : c \in VethCalls(i, s.veths[i])
         \/ \E i \in DOMAIN s.routes : c \in RouteCalls(i, s.routes[i])
  BY DEF CallsOf, Each

\* What the entries of a section are.
LEMMA EntryFacts ==
  ASSUME NEW s \in Linux
  PROVE  /\ \A i \in DOMAIN s.vrfs : i \in Nat /\ s.vrfs[i] \in Name
         /\ \A i \in DOMAIN s.bonds : i \in Nat /\ s.bonds[i] \in Bond
         /\ \A i \in DOMAIN s.interfaces : i \in Nat /\ s.interfaces[i] \in Interface
         /\ \A i \in DOMAIN s.veths : i \in Nat /\ s.veths[i] \in Veth
         /\ \A i \in DOMAIN s.routes : i \in Nat /\ s.routes[i] \in Name \cup {None}
         /\ \A i \in DOMAIN s.bridges : i \in Nat /\ s.bridges[i] \in Bridge
  <1>1. ASSUME NEW S, NEW q \in Seq(S), NEW i \in DOMAIN q PROVE i \in Nat /\ q[i] \in S
    BY <1>1
  <1>2. /\ s.vrfs \in Seq(Vrf) /\ s.bonds \in Seq(Bond) /\ s.interfaces \in Seq(Interface)
        /\ s.veths \in Seq(Veth) /\ s.routes \in Seq(Name \cup {None}) /\ s.bridges \in Seq(Bridge)
    BY DEF Linux
  <1> QED BY <1>1, <1>2 DEF Vrf

LEMMA SeqFacts ==
  ASSUME NEW S, NEW q \in Seq(S), NEW i \in DOMAIN q PROVE i \in Nat /\ q[i] \in S
  OBVIOUS

-----------------------------------------------------------------------------
(* What is claimed of what a call makes, and the other calls at its place. *)

\* The pair that is made at a place: of a veth entry or of a namespace.
PairPlace(at) == at[1] = 8 \/ (at[1] = 5 /\ at[3] = 3)
PairAt(s, at) ==
    IF at[1] = 8
    THEN ACall(at, 1, "addveth", s.veths[at[2]].name, s.veths[at[2]].peer)
    ELSE LET b == s.bridges[at[2]]
             ns == b.namespaces[at[4]]
         IN  ACall(at, 1, "addveth", HostVeth(b.name, ns), PeerVeth(b.name, ns))

\* The call that obeys a claim on a master, and the one for a namespace.
MasterPlace(k) ==
    CASE k.step = 1 -> <<k.at, 1>>
      [] k.step = 2 /\ k.at[1] = 2 -> <<<<6, k.at[2], 0, 0>>, 1>>
      [] k.step = 2 /\ k.at[1] = 3 -> <<<<7, k.at[2], 0, 0>>, 3>>
      [] k.step = 2 /\ k.at[1] = 4 -> <<<<8, k.at[2], 0, 0>>, 3>>
      [] k.step = 2 /\ k.at[1] = 5 -> <<k.at, 3>>
NetnsPlace(k) == IF k.at[1] = 4 THEN <<8, k.at[2], 0, 0>> ELSE k.at

HashNames == {"fnh", "fnp"} \X Name \X Namespace
NamespaceClaim(s, at, ns) == AClaim(at, 1, "namespace", ns, None) \in ClaimsOf(s)

IsHost(s, at, name) ==
    \E b \in Name, ns \in Namespace : name = HostVeth(b, ns) /\ NamespaceClaim(s, at, ns)

AddOK(s, c) ==
    /\ c.step = 1 /\ c.name \in Name /\ c.arg \in {"vrf", "bond", "bridge", "vxlan"}
    /\ AClaim(c.at, 1, "device", c.name, None) \in ClaimsOf(s)

UserPair(s, c) ==
    /\ c.name \in Name /\ c.arg \in Name
    /\ AClaim(c.at, 1, "device", c.name, None) \in ClaimsOf(s)
    /\ AClaim(c.at, 2, "device", c.arg, None) \in ClaimsOf(s)
    /\ \E k \in ClaimsOf(s) : k.table = "peer" /\ k.name = c.arg /\ k.to = c.name

HashPair(s, c) ==
    \E b \in Name, ns \in Namespace :
      c.name = HostVeth(b, ns) /\ c.arg = PeerVeth(b, ns) /\ NamespaceClaim(s, c.at, ns)

PairOK(s, c) ==
    c.step = 1 /\ PairPlace(c.at) /\ c = PairAt(s, c.at) /\ (UserPair(s, c) \/ HashPair(s, c))

EnslaveOK(s, c) ==
    /\ c.step \in {1, 3}
    /\ \/ c.name \in Name /\ \E k \in ClaimsOf(s) :
            k.table = "master" /\ k.name = c.name /\ k.step \in {1, 2} /\ MasterPlace(k) = <<c.at, c.step>>
       \/ c.step = 3 /\ IsHost(s, c.at, c.name)
    /\ PairPlace(c.at) => PairAt(s, c.at) \in CallsOf(s) /\ c.name = PairAt(s, c.at).name

NetnsOK(s, c) ==
    /\ c.step = 4 /\ c.name \in Namespace /\ c.arg = None
    /\ \E k \in ClaimsOf(s) : k.table = "namespace" /\ k.name = c.name /\ NetnsPlace(k) = c.at

MoveOK(s, c) ==
    /\ c.step = 5 /\ c.arg \in Namespace /\ PairPlace(c.at)
    /\ PairAt(s, c.at) \in CallsOf(s) /\ c.name = PairAt(s, c.at).arg
    /\ ACall(c.at, 4, "netns", c.arg, None) \in CallsOf(s)

CallOK(s, c) ==
    /\ c.at \in Place /\ c.step \in Nat /\ c = ACall(c.at, c.step, c.op, c.name, c.arg)
    /\ \/ c.op = "add" /\ AddOK(s, c)
       \/ c.op = "addveth" /\ PairOK(s, c)
       \/ c.op = "find"
       \/ c.op = "enslave" /\ EnslaveOK(s, c)
       \/ c.op = "netns" /\ NetnsOK(s, c)
       \/ c.op = "move" /\ MoveOK(s, c)

LEMMA VrfCallsOK ==
  ASSUME NEW s \in Linux, NEW i \in DOMAIN s.vrfs, NEW c \in VrfCalls(i, s.vrfs[i])
  PROVE  CallOK(s, c)
  <1>1. i \in Nat /\ s.vrfs[i] \in Name BY EntryFacts
  <1>2. AClaim(<<1, i, 0, 0>>, 1, "device", s.vrfs[i], None) \in ClaimsOf(s)
    BY HasClaimParts DEF ClaimParts, VrfClaims, Device, Claim, AClaim
  <1>3. \/ c = ACall(<<1, i, 0, 0>>, 1, "add", s.vrfs[i], "vrf")
        \/ c = ACall(<<1, i, 0, 0>>, 2, "find", s.vrfs[i], None)
    BY DEF VrfCalls, Configure, Call, When, ACall
  <1>4. <<1, i, 0, 0>> \in Place BY <1>1 DEF Place
  <1> QED BY <1>1, <1>2, <1>3, <1>4 DEF CallOK, ACall, AddOK

LEMMA BondCallsOK ==
  ASSUME NEW s \in Linux, NEW i \in DOMAIN s.bonds, NEW c \in BondCalls(i, s.bonds[i])
  PROVE  CallOK(s, c)
  <1> DEFINE b == s.bonds[i]
  <1>1. i \in Nat /\ b \in Bond BY EntryFacts
  <1>2. b.name \in Name /\ b.ports \in Seq(Name) BY <1>1 DEF Bond
  <1>3. AClaim(<<2, i, 0, 0>>, 1, "device", b.name, None) \in ClaimsOf(s)
    BY HasClaimParts DEF ClaimParts, BondClaims, Device, Claim, AClaim
  <1>4. \A j \in DOMAIN b.ports :
          Master(<<2, i, 1, j>>, 1, b.ports[j], b.name) \subseteq ClaimsOf(s)
    BY HasClaimParts DEF ClaimParts, BondClaims, Each
  <1>5. \A j \in DOMAIN b.ports :
          AClaim(<<2, i, 1, j>>, 1, "master", b.ports[j], b.name) \in ClaimsOf(s)
    BY <1>2, <1>4, NoneAssumption DEF Master, When, Claim, AClaim, AnyName
  <1>6. \/ c = ACall(<<2, i, 0, 0>>, 1, "add", b.name, "bond")
        \/ c = ACall(<<2, i, 0, 0>>, 2, "find", b.name, None)
        \/ \E j \in DOMAIN b.ports : c = ACall(<<2, i, 1, j>>, 1, "enslave", b.ports[j], b.name)
    BY DEF BondCalls, Configure, Call, When, ACall, Each
  <1>7. <<2, i, 0, 0>> \in Place BY <1>1 DEF Place
  <1>8. CASE c = ACall(<<2, i, 0, 0>>, 1, "add", b.name, "bond")
    BY <1>2, <1>3, <1>7, <1>8 DEF CallOK, ACall, AddOK
  <1>9. CASE c = ACall(<<2, i, 0, 0>>, 2, "find", b.name, None)
    BY <1>7, <1>9 DEF CallOK, ACall
  <1>10. ASSUME NEW j \in DOMAIN b.ports,
                c = ACall(<<2, i, 1, j>>, 1, "enslave", b.ports[j], b.name)
         PROVE  CallOK(s, c)
    <2>1. j \in Nat /\ b.ports[j] \in Name BY <1>2
    <2>2. <<2, i, 1, j>> \in Place BY <1>1, <2>1 DEF Place
    <2>3. c.at = <<2, i, 1, j>> /\ c.step = 1 /\ c.op = "enslave" /\ c.name = b.ports[j]
      BY <1>10 DEF ACall
    <2> DEFINE k == AClaim(<<2, i, 1, j>>, 1, "master", b.ports[j], b.name)
    <2>4. k \in ClaimsOf(s) /\ k.table = "master" /\ k.name = c.name /\ k.step = 1
          /\ MasterPlace(k) = <<c.at, c.step>>
      BY <1>5, <2>3 DEF AClaim, MasterPlace
    <2>5. ~ PairPlace(c.at) BY <2>3 DEF PairPlace
    <2> HIDE DEF k
    <2>6. EnslaveOK(s, c) BY <2>1, <2>3, <2>4, <2>5 DEF EnslaveOK
    <2> QED BY <1>10, <2>2, <2>3, <2>6 DEF CallOK, ACall
  <1> QED BY <1>6, <1>8, <1>9, <1>10

LEMMA BondMasterCallsOK ==
  ASSUME NEW s \in Linux, NEW i \in DOMAIN s.bonds, NEW c \in BondMasterCalls(i, s.bonds[i])
  PROVE  CallOK(s, c)
  <1> DEFINE b == s.bonds[i]
             k == AClaim(<<2, i, 0, 0>>, 2, "master", b.name, b.master)
  <1>1. i \in Nat /\ b \in Bond BY EntryFacts
  <1>2. b.name \in Name BY <1>1 DEF Bond
  <1>3. b.master # None /\ c = ACall(<<6, i, 0, 0>>, 1, "enslave", b.name, b.master)
    BY DEF BondMasterCalls, When, Call, ACall
  <1>4. Master(<<2, i, 0, 0>>, 2, b.name, b.master) \subseteq ClaimsOf(s)
    BY HasClaimParts DEF ClaimParts, BondClaims
  <1>5. k \in ClaimsOf(s) BY <1>3, <1>4 DEF Master, When, Claim, AClaim
  <1>6. <<6, i, 0, 0>> \in Place BY <1>1 DEF Place
  <1>7. c.at = <<6, i, 0, 0>> /\ c.step = 1 /\ c.op = "enslave" /\ c.name = b.name
    BY <1>3 DEF ACall
  <1>8. k.table = "master" /\ k.name = c.name /\ k.step = 2 /\ MasterPlace(k) = <<c.at, c.step>>
    BY <1>7 DEF AClaim, MasterPlace
  <1>9. ~ PairPlace(c.at) BY <1>7 DEF PairPlace
  <1> HIDE DEF k
  <1>10. EnslaveOK(s, c) BY <1>2, <1>5, <1>7, <1>8, <1>9 DEF EnslaveOK
  <1> QED BY <1>3, <1>6, <1>7, <1>10 DEF CallOK, ACall

LEMMA InterfaceCallsOK ==
  ASSUME NEW s \in Linux, NEW i \in DOMAIN s.interfaces,
         NEW c \in InterfaceCalls(i, s.interfaces[i])
  PROVE  CallOK(s, c)
  <1> DEFINE f == s.interfaces[i]
             k == AClaim(<<3, i, 0, 0>>, 2, "master", f.name, f.master)
  <1>1. i \in Nat /\ f \in Interface BY EntryFacts
  <1>2. f.name \in Name BY <1>1 DEF Interface
  <1>3. \/ c = ACall(<<7, i, 0, 0>>, 2, "find", f.name, None)
        \/ f.master # None /\ c = ACall(<<7, i, 0, 0>>, 3, "enslave", f.name, f.master)
    BY DEF InterfaceCalls, Configure, When, Call, ACall
  <1>4. <<7, i, 0, 0>> \in Place BY <1>1 DEF Place
  <1>5. CASE c = ACall(<<7, i, 0, 0>>, 2, "find", f.name, None)
    BY <1>4, <1>5 DEF CallOK, ACall
  <1>6. CASE f.master # None /\ c = ACall(<<7, i, 0, 0>>, 3, "enslave", f.name, f.master)
    <2>1. Master(<<3, i, 0, 0>>, 2, f.name, f.master) \subseteq ClaimsOf(s)
      BY HasClaimParts DEF ClaimParts, InterfaceClaims
    <2>2. k \in ClaimsOf(s) BY <1>6, <2>1 DEF Master, When, Claim, AClaim
    <2>3. c.at = <<7, i, 0, 0>> /\ c.step = 3 /\ c.op = "enslave" /\ c.name = f.name
      BY <1>6 DEF ACall
    <2>4. k.table = "master" /\ k.name = c.name /\ k.step = 2
          /\ MasterPlace(k) = <<c.at, c.step>>
      BY <2>3 DEF AClaim, MasterPlace
    <2>5. ~ PairPlace(c.at) BY <2>3 DEF PairPlace
    <2> HIDE DEF k
    <2>6. EnslaveOK(s, c) BY <1>2, <2>2, <2>3, <2>4, <2>5 DEF EnslaveOK
    <2> QED BY <1>4, <1>6, <2>3, <2>6 DEF CallOK, ACall
  <1> QED BY <1>3, <1>5, <1>6

LEMMA RouteCallsOK ==
  ASSUME NEW s \in Linux, NEW i \in DOMAIN s.routes, NEW c \in RouteCalls(i, s.routes[i])
  PROVE  CallOK(s, c)
  <1>1. i \in Nat BY EntryFacts
  <1>2. c = ACall(<<9, i, 0, 0>>, 2, "find", s.routes[i], None)
    BY DEF RouteCalls, When, Call, ACall
  <1>3. <<9, i, 0, 0>> \in Place BY <1>1 DEF Place
  <1> QED BY <1>2, <1>3 DEF CallOK, ACall

LEMMA VethCallsOK ==
  ASSUME NEW s \in Linux, NEW i \in DOMAIN s.veths, NEW c \in VethCalls(i, s.veths[i])
  PROVE  CallOK(s, c)
  <1> DEFINE v == s.veths[i]
             at == <<8, i, 0, 0>>
  <1>1. i \in Nat /\ v \in Veth BY EntryFacts
  <1>2. v.name \in Name /\ v.peer \in Name /\ v.namespace \in Namespace \cup {None}
    BY <1>1 DEF Veth
  <1>3. at \in Place /\ PairPlace(at) BY <1>1 DEF Place, PairPlace
  <1>4. PairAt(s, at) = ACall(at, 1, "addveth", v.name, v.peer) BY DEF PairAt
  <1>5. PairAt(s, at).name = v.name /\ PairAt(s, at).arg = v.peer BY <1>4 DEF ACall
  <1>6. PairAt(s, at) \in CallsOf(s)
    BY <1>4, HasCallParts DEF CallParts, VethCalls, Call, ACall
  <1>7. /\ VethDevices(i, v) \subseteq ClaimsOf(s) /\ VethClaims(i, v) \subseteq ClaimsOf(s)
        /\ VethCalls(i, v) \subseteq CallsOf(s)
    BY HasClaimParts, HasCallParts DEF ClaimParts, CallParts
  <1>8. \/ c = ACall(at, 1, "addveth", v.name, v.peer)
        \/ c = ACall(at, 2, "find", v.name, None)
        \/ v.master # None /\ c = ACall(at, 3, "enslave", v.name, v.master)
        \/ v.namespace # None /\ c = ACall(at, 4, "netns", v.namespace, None)
        \/ v.namespace # None /\ c = ACall(at, 5, "move", v.peer, v.namespace)
    BY DEF VethCalls, Configure, MovePeer, When, Call, ACall
  <1>9. CASE c = ACall(at, 1, "addveth", v.name, v.peer)
    <2>1. c.at = at /\ c.step = 1 /\ c.op = "addveth" /\ c.name = v.name /\ c.arg = v.peer
      BY <1>9 DEF ACall
    <2>2. AClaim(at, 1, "device", v.name, None) \in ClaimsOf(s)
          /\ AClaim(at, 2, "device", v.peer, None) \in ClaimsOf(s)
      BY <1>7 DEF VethDevices, Device, Claim, AClaim
    <2> DEFINE k == AClaim(<<4, i, 0, 0>>, 1, "peer", v.peer, v.name)
    <2>3. k \in ClaimsOf(s) BY <1>7 DEF VethClaims, Claim, AClaim
    <2>4. k.table = "peer" /\ k.name = v.peer /\ k.to = v.name BY DEF AClaim
    <2> HIDE DEF k, at
    <2>5. UserPair(s, c) BY <1>2, <2>1, <2>2, <2>3, <2>4 DEF UserPair
    <2> QED BY <1>3, <1>4, <1>9, <2>1, <2>5 DEF CallOK, PairOK
  <1>10. CASE c = ACall(at, 2, "find", v.name, None) BY <1>3, <1>10 DEF CallOK, ACall
  <1>11. CASE v.master # None /\ c = ACall(at, 3, "enslave", v.name, v.master)
    <2>1. c.at = at /\ c.step = 3 /\ c.op = "enslave" /\ c.name = v.name BY <1>11 DEF ACall
    <2> DEFINE k == AClaim(<<4, i, 0, 0>>, 2, "master", v.name, v.master)
    <2>2. k \in ClaimsOf(s) BY <1>7, <1>11 DEF VethClaims, Master, When, Claim, AClaim
    <2>3. k.table = "master" /\ k.name = c.name /\ k.step = 2
          /\ MasterPlace(k) = <<c.at, c.step>>
      BY <2>1 DEF AClaim, MasterPlace
    <2> HIDE DEF k, at
    <2>4. EnslaveOK(s, c) BY <1>2, <1>5, <1>6, <2>1, <2>2, <2>3 DEF EnslaveOK
    <2> QED BY <1>3, <1>11, <2>1, <2>4 DEF CallOK, ACall
  <1>12. CASE v.namespace # None /\ c = ACall(at, 4, "netns", v.namespace, None)
    <2>1. c.at = at /\ c.step = 4 /\ c.op = "netns" /\ c.name = v.namespace /\ c.arg = None
      BY <1>12 DEF ACall
    <2> DEFINE k == AClaim(<<4, i, 0, 0>>, 3, "namespace", v.namespace, None)
    <2>2. k \in ClaimsOf(s) BY <1>7, <1>12 DEF VethClaims, When, Claim, AClaim
    <2>3. k.table = "namespace" /\ k.name = c.name /\ NetnsPlace(k) = c.at
      BY <2>1 DEF AClaim, NetnsPlace
    <2> HIDE DEF k, at
    <2>4. NetnsOK(s, c) BY <1>2, <1>12, <2>1, <2>2, <2>3 DEF NetnsOK
    <2> QED BY <1>3, <1>12, <2>1, <2>4 DEF CallOK, ACall
  <1>13. CASE v.namespace # None /\ c = ACall(at, 5, "move", v.peer, v.namespace)
    <2>1. c.at = at /\ c.step = 5 /\ c.op = "move" /\ c.name = v.peer /\ c.arg = v.namespace
      BY <1>13 DEF ACall
    <2>2. ACall(at, 4, "netns", v.namespace, None) \in CallsOf(s)
      BY <1>7, <1>13 DEF VethCalls, MovePeer, When, Call, ACall
    <2> HIDE DEF at
    <2>3. MoveOK(s, c) BY <1>2, <1>3, <1>5, <1>6, <1>13, <2>1, <2>2 DEF MoveOK
    <2> QED BY <1>3, <1>13, <2>1, <2>3 DEF CallOK, ACall
  <1> QED BY <1>8, <1>9, <1>10, <1>11, <1>12, <1>13

\* What the entries of a bridge are.
LEMMA BridgeFacts ==
  ASSUME NEW s \in Linux, NEW i \in DOMAIN s.bridges
  PROVE  /\ i \in Nat /\ s.bridges[i].name \in Name
         /\ \A j \in DOMAIN s.bridges[i].ports : j \in Nat /\ s.bridges[i].ports[j] \in Name
         /\ \A j \in DOMAIN s.bridges[i].vxlans : j \in Nat /\ s.bridges[i].vxlans[j] \in Name
         /\ \A j \in DOMAIN s.bridges[i].namespaces :
              j \in Nat /\ s.bridges[i].namespaces[j] \in Namespace
  <1>1. i \in Nat /\ s.bridges[i] \in Bridge BY EntryFacts
  <1> DEFINE b == s.bridges[i]
  <1>2. /\ b.name \in Name /\ b.ports \in Seq(Name) /\ b.vxlans \in Seq(Name)
        /\ b.namespaces \in Seq(Namespace)
    BY <1>1 DEF Bridge
  <1> HIDE DEF b
  <1>3. /\ \A j \in DOMAIN b.ports : j \in Nat /\ b.ports[j] \in Name
        /\ \A j \in DOMAIN b.vxlans : j \in Nat /\ b.vxlans[j] \in Name
        /\ \A j \in DOMAIN b.namespaces : j \in Nat /\ b.namespaces[j] \in Namespace
    BY <1>2
  <1> QED BY <1>1, <1>2, <1>3 DEF b

LEMMA BridgeItselfOK ==
  ASSUME NEW s \in Linux, NEW i \in DOMAIN s.bridges, NEW c,
         c \in Call(<<5, i, 0, 0>>, 1, "add", s.bridges[i].name, "bridge")
                 \cup Configure(<<5, i, 0, 0>>, s.bridges[i].name, s.bridges[i].master)
  PROVE  CallOK(s, c)
  <1> DEFINE b == s.bridges[i]
             at == <<5, i, 0, 0>>
             k == AClaim(at, 2, "master", b.name, b.master)
  <1>1. i \in Nat /\ b.name \in Name BY BridgeFacts
  <1>2. at \in Place /\ ~ PairPlace(at) BY <1>1 DEF Place, PairPlace
  <1>3. \/ c = ACall(at, 1, "add", b.name, "bridge")
        \/ c = ACall(at, 2, "find", b.name, None)
        \/ b.master # None /\ c = ACall(at, 3, "enslave", b.name, b.master)
    BY DEF Configure, When, Call, ACall
  <1>4. /\ AClaim(at, 1, "device", b.name, None) \in ClaimsOf(s)
        /\ b.master # None => k \in ClaimsOf(s)
    BY HasClaimParts DEF ClaimParts, BridgeClaims, Device, Master, When, Claim, AClaim
  <1>5. k.table = "master" /\ k.name = b.name /\ k.step = 2 /\ MasterPlace(k) = <<at, 3>>
    BY DEF AClaim, MasterPlace
  <1> HIDE DEF k, at
  <1>6. CASE c = ACall(at, 1, "add", b.name, "bridge")
    BY <1>1, <1>2, <1>4, <1>6 DEF CallOK, ACall, AddOK
  <1>7. CASE c = ACall(at, 2, "find", b.name, None) BY <1>2, <1>7 DEF CallOK, ACall
  <1>8. CASE b.master # None /\ c = ACall(at, 3, "enslave", b.name, b.master)
    <2>1. c.at = at /\ c.step = 3 /\ c.op = "enslave" /\ c.name = b.name BY <1>8 DEF ACall
    <2>2. EnslaveOK(s, c) BY <1>1, <1>2, <1>4, <1>5, <1>8, <2>1 DEF EnslaveOK
    <2> QED BY <1>2, <1>8, <2>1, <2>2 DEF CallOK, ACall
  <1> QED BY <1>3, <1>6, <1>7, <1>8

LEMMA BridgePortsOK ==
  ASSUME NEW s \in Linux, NEW i \in DOMAIN s.bridges, NEW j \in DOMAIN s.bridges[i].ports, NEW c,
         c \in Call(<<5, i, 1, j>>, 1, "enslave", s.bridges[i].ports[j], s.bridges[i].name)
  PROVE  CallOK(s, c)
  <1> DEFINE b == s.bridges[i]
             at == <<5, i, 1, j>>
             k == AClaim(at, 1, "master", b.ports[j], b.name)
  <1>1. i \in Nat /\ j \in Nat /\ b.name \in Name /\ b.ports[j] \in Name BY BridgeFacts
  <1>2. at \in Place /\ ~ PairPlace(at) BY <1>1 DEF Place, PairPlace
  <1>3. c = ACall(at, 1, "enslave", b.ports[j], b.name) BY DEF Call, ACall
  <1>4. Master(at, 1, b.ports[j], b.name) \subseteq ClaimsOf(s)
    BY HasClaimParts DEF ClaimParts, BridgeClaims, Each
  <1>5. b.name # None BY <1>1, NoneAssumption DEF AnyName
  <1>6. k \in ClaimsOf(s) BY <1>4, <1>5 DEF Master, When, Claim, AClaim
  <1>7. k.table = "master" /\ k.name = b.ports[j] /\ k.step = 1 /\ MasterPlace(k) = <<at, 1>>
    BY DEF AClaim, MasterPlace
  <1> HIDE DEF k, at
  <1>8. c.at = at /\ c.step = 1 /\ c.op = "enslave" /\ c.name = b.ports[j] BY <1>3 DEF ACall
  <1>9. EnslaveOK(s, c) BY <1>1, <1>2, <1>6, <1>7, <1>8 DEF EnslaveOK
  <1> QED BY <1>2, <1>3, <1>8, <1>9 DEF CallOK, ACall

LEMMA VxlanCallsOK ==
  ASSUME NEW s \in Linux, NEW i \in DOMAIN s.bridges, NEW j \in DOMAIN s.bridges[i].vxlans, NEW c,
         c \in VxlanCalls(<<5, i, 2, j>>, s.bridges[i].vxlans[j], s.bridges[i].name)
  PROVE  CallOK(s, c)
  <1> DEFINE b == s.bridges[i]
             x == b.vxlans[j]
             at == <<5, i, 2, j>>
             k == AClaim(at, 2, "master", x, b.name)
  <1>1. i \in Nat /\ j \in Nat /\ b.name \in Name /\ x \in Name BY BridgeFacts
  <1>2. at \in Place /\ ~ PairPlace(at) BY <1>1 DEF Place, PairPlace
  <1>3. \/ c = ACall(at, 1, "add", x, "vxlan")
        \/ c = ACall(at, 2, "find", x, None)
        \/ c = ACall(at, 3, "enslave", x, b.name)
    BY DEF VxlanCalls, Configure, When, Call, ACall
  <1>4. VxlanClaims(i, j, x, b.name) \subseteq ClaimsOf(s)
    BY HasClaimParts DEF ClaimParts, BridgeClaims, Each
  <1>5. b.name # None BY <1>1, NoneAssumption DEF AnyName
  <1>6. AClaim(at, 1, "device", x, None) \in ClaimsOf(s) /\ k \in ClaimsOf(s)
    BY <1>4, <1>5 DEF VxlanClaims, Device, Master, When, Claim, AClaim
  <1>7. k.table = "master" /\ k.name = x /\ k.step = 2 /\ MasterPlace(k) = <<at, 3>>
    BY DEF AClaim, MasterPlace
  <1> HIDE DEF k, at
  <1>8. CASE c = ACall(at, 1, "add", x, "vxlan")
    BY <1>1, <1>2, <1>6, <1>8 DEF CallOK, ACall, AddOK
  <1>9. CASE c = ACall(at, 2, "find", x, None) BY <1>2, <1>9 DEF CallOK, ACall
  <1>10. CASE c = ACall(at, 3, "enslave", x, b.name)
    <2>1. c.at = at /\ c.step = 3 /\ c.op = "enslave" /\ c.name = x BY <1>10 DEF ACall
    <2>2. EnslaveOK(s, c) BY <1>1, <1>2, <1>6, <1>7, <2>1 DEF EnslaveOK
    <2> QED BY <1>2, <1>10, <2>1, <2>2 DEF CallOK, ACall
  <1> QED BY <1>3, <1>8, <1>9, <1>10

LEMMA BridgeNamespaceOK ==
  ASSUME NEW s \in Linux, NEW i \in DOMAIN s.bridges, NEW j \in DOMAIN s.bridges[i].namespaces,
         NEW c, c \in BridgeNamespaceCalls(<<5, i, 3, j>>, s.bridges[i].name,
                                           s.bridges[i].namespaces[j])
  PROVE  CallOK(s, c)
  <1> DEFINE b == s.bridges[i]
             ns == b.namespaces[j]
             at == <<5, i, 3, j>>
             host == HostVeth(b.name, ns)
             peer == PeerVeth(b.name, ns)
             k == AClaim(at, 1, "namespace", ns, None)
  <1>1. i \in Nat /\ j \in Nat /\ b.name \in Name /\ ns \in Namespace BY BridgeFacts
  <1>2. at \in Place /\ PairPlace(at) BY <1>1 DEF Place, PairPlace
  <1>3. PairAt(s, at) = ACall(at, 1, "addveth", host, peer) BY DEF PairAt
  <1>4. PairAt(s, at).name = host /\ PairAt(s, at).arg = peer BY <1>3 DEF ACall
  <1>5. BridgeNamespaceCalls(at, b.name, ns) \subseteq CallsOf(s)
    BY HasCallParts DEF CallParts, BridgeCalls, Each
  <1>6. PairAt(s, at) \in CallsOf(s) /\ ACall(at, 4, "netns", ns, None) \in CallsOf(s)
    BY <1>3, <1>5 DEF BridgeNamespaceCalls, MovePeer, Call, ACall
  <1>7. \/ c = ACall(at, 1, "addveth", host, peer)
        \/ c = ACall(at, 2, "find", host, None)
        \/ c = ACall(at, 3, "enslave", host, b.name)
        \/ c = ACall(at, 4, "netns", ns, None)
        \/ c = ACall(at, 5, "move", peer, ns)
    BY DEF BridgeNamespaceCalls, Configure, MovePeer, When, Call, ACall
  <1>8. k \in ClaimsOf(s)
    BY HasClaimParts DEF ClaimParts, BridgeClaims, Each, Claim, AClaim
  <1>9. k.table = "namespace" /\ k.name = ns /\ NetnsPlace(k) = at BY DEF AClaim, NetnsPlace
  <1>10. NamespaceClaim(s, at, ns) BY <1>8 DEF NamespaceClaim
  <1> HIDE DEF k, at
  <1>11. CASE c = ACall(at, 1, "addveth", host, peer)
    <2>1. c.at = at /\ c.step = 1 /\ c.op = "addveth" /\ c.name = host /\ c.arg = peer
      BY <1>11 DEF ACall
    <2>2. HashPair(s, c) BY <1>1, <1>10, <2>1 DEF HashPair
    <2>3. PairOK(s, c) BY <1>2, <1>3, <1>11, <2>1, <2>2 DEF PairOK
    <2>4. c = ACall(c.at, c.step, c.op, c.name, c.arg) BY <1>11, <2>1
    <2> QED BY <1>2, <2>1, <2>3, <2>4 DEF CallOK
  <1>12. CASE c = ACall(at, 2, "find", host, None) BY <1>2, <1>12 DEF CallOK, ACall
  <1>13. CASE c = ACall(at, 3, "enslave", host, b.name)
    <2>1. c.at = at /\ c.step = 3 /\ c.op = "enslave" /\ c.name = host BY <1>13 DEF ACall
    <2>2. IsHost(s, c.at, c.name) BY <1>1, <1>10, <2>1 DEF IsHost
    <2>3. EnslaveOK(s, c) BY <1>4, <1>6, <2>1, <2>2 DEF EnslaveOK
    <2> QED BY <1>2, <1>13, <2>1, <2>3 DEF CallOK, ACall
  <1>14. CASE c = ACall(at, 4, "netns", ns, None)
    <2>1. c.at = at /\ c.step = 4 /\ c.op = "netns" /\ c.name = ns /\ c.arg = None
      BY <1>14 DEF ACall
    <2>2. NetnsOK(s, c) BY <1>1, <1>8, <1>9, <2>1 DEF NetnsOK
    <2> QED BY <1>2, <1>14, <2>1, <2>2 DEF CallOK, ACall
  <1>15. CASE c = ACall(at, 5, "move", peer, ns)
    <2>1. c.at = at /\ c.step = 5 /\ c.op = "move" /\ c.name = peer /\ c.arg = ns
      BY <1>15 DEF ACall
    <2>2. MoveOK(s, c) BY <1>1, <1>2, <1>4, <1>6, <2>1 DEF MoveOK
    <2> QED BY <1>2, <1>15, <2>1, <2>2 DEF CallOK, ACall
  <1> QED BY <1>7, <1>11, <1>12, <1>13, <1>14, <1>15

LEMMA BridgeCallsOK ==
  ASSUME NEW s \in Linux, NEW i \in DOMAIN s.bridges, NEW c \in BridgeCalls(i, s.bridges[i])
  PROVE  CallOK(s, c)
  <1> DEFINE b == s.bridges[i]
  <1>1. \/ c \in Call(<<5, i, 0, 0>>, 1, "add", b.name, "bridge")
                   \cup Configure(<<5, i, 0, 0>>, b.name, b.master)
        \/ \E j \in DOMAIN b.ports : c \in Call(<<5, i, 1, j>>, 1, "enslave", b.ports[j], b.name)
        \/ \E j \in DOMAIN b.vxlans : c \in VxlanCalls(<<5, i, 2, j>>, b.vxlans[j], b.name)
        \/ \E j \in DOMAIN b.namespaces :
             c \in BridgeNamespaceCalls(<<5, i, 3, j>>, b.name, b.namespaces[j])
    BY DEF BridgeCalls, Each
  <1> QED BY <1>1, BridgeItselfOK, BridgePortsOK, VxlanCallsOK, BridgeNamespaceOK

LEMMA CallsOK ==
  ASSUME NEW s \in Linux, NEW c \in CallsOf(s) PROVE CallOK(s, c)
  BY CallCases, VrfCallsOK, BondCallsOK, BridgeCallsOK, BondMasterCallsOK, InterfaceCallsOK,
     VethCallsOK, RouteCallsOK

-----------------------------------------------------------------------------
(* Claims are well-formed; what is freed was claimed, and is moved.        *)

MovedAt(s, at, name) ==
    \E m \in CallsOf(s) : m.op = "move" /\ m.at = at /\ m.step = 5 /\ m.name = name

ClaimOK(s, k) ==
    /\ k.at \in Place /\ k.step \in Nat /\ k.table \in Tables \cup {"free"}
    /\ k.name \in Name \cup Namespace
    /\ k.table \in {"master", "peer"} <=> k.to \in Name
    /\ k.table = "device" => k.step \in {1, 2} /\ k.name \in Name
    /\ k.table = "free" => /\ k.step = 3 /\ k.name \in Name /\ MovedAt(s, k.at, k.name)
                           /\ AClaim(k.at, 2, "device", k.name, None) \in ClaimsOf(s)

\* The claims of an entry that are not about devices alone.
LEMMA ClaimOKs ==
  ASSUME NEW s, NEW at \in Place
  PROVE  /\ \A n \in {1, 2}, name \in Name : ClaimOK(s, AClaim(at, n, "device", name, None))
         /\ \A n \in {1, 2}, name \in Name, to \in Name :
              ClaimOK(s, AClaim(at, n, "master", name, to))
         /\ \A name \in Name : ClaimOK(s, AClaim(at, 1, "interface", name, None))
         /\ \A name \in Name, to \in Name : ClaimOK(s, AClaim(at, 1, "peer", name, to))
         /\ \A n \in {1, 3}, ns \in Namespace : ClaimOK(s, AClaim(at, n, "namespace", ns, None))
  BY NoneAssumption DEF ClaimOK, AClaim, Tables, AnyName

LEMMA MasterClaimOK ==
  ASSUME NEW s, NEW at \in Place, NEW n \in {1, 2}, NEW name \in Name,
         NEW master \in Name \cup {None}, NEW k \in Master(at, n, name, master)
  PROVE  ClaimOK(s, k)
  <1>1. master \in Name /\ k = AClaim(at, n, "master", name, master)
    BY DEF Master, When, Claim, AClaim
  <1> QED BY <1>1, ClaimOKs

LEMMA DeviceClaimOK ==
  ASSUME NEW s, NEW at \in Place, NEW n \in {1, 2}, NEW name \in Name, NEW k \in Device(at, n, name)
  PROVE  ClaimOK(s, k)
  <1>1. k = AClaim(at, n, "device", name, None) BY DEF Device, Claim, AClaim
  <1> QED BY <1>1, ClaimOKs

LEMMA NamespaceClaimOK ==
  ASSUME NEW s, NEW at \in Place, NEW n \in {1, 3}, NEW ns \in Namespace,
         NEW k \in Claim(at, n, "namespace", ns, None)
  PROVE  ClaimOK(s, k)
  <1>1. k = AClaim(at, n, "namespace", ns, None) BY DEF Claim, AClaim
  <1> QED BY <1>1, ClaimOKs

LEMMA VrfClaimsOK ==
  ASSUME NEW s \in Linux, NEW i \in DOMAIN s.vrfs, NEW k \in VrfClaims(i, s.vrfs[i])
  PROVE  ClaimOK(s, k)
  <1>1. i \in Nat /\ s.vrfs[i] \in Name BY EntryFacts
  <1>2. <<1, i, 0, 0>> \in Place BY <1>1 DEF Place
  <1> QED BY <1>1, <1>2, DeviceClaimOK DEF VrfClaims

LEMMA BondClaimsOK ==
  ASSUME NEW s \in Linux, NEW i \in DOMAIN s.bonds, NEW k \in BondClaims(i, s.bonds[i])
  PROVE  ClaimOK(s, k)
  <1> DEFINE b == s.bonds[i]
  <1>1. i \in Nat /\ b \in Bond BY EntryFacts
  <1>2. b.name \in Name /\ b.master \in Name \cup {None} /\ b.ports \in Seq(Name)
    BY <1>1 DEF Bond
  <1>3. \/ k \in Device(<<2, i, 0, 0>>, 1, b.name)
        \/ k \in Master(<<2, i, 0, 0>>, 2, b.name, b.master)
        \/ \E j \in DOMAIN b.ports : k \in Master(<<2, i, 1, j>>, 1, b.ports[j], b.name)
    BY DEF BondClaims, Each
  <1> HIDE DEF b
  <1>4. \A j \in DOMAIN b.ports : j \in Nat /\ b.ports[j] \in Name BY <1>2
  <1>5. <<2, i, 0, 0>> \in Place /\ \A j \in Nat : <<2, i, 1, j>> \in Place
    BY <1>1 DEF Place
  <1> QED BY <1>2, <1>3, <1>4, <1>5, DeviceClaimOK, MasterClaimOK

LEMMA InterfaceClaimsOK ==
  ASSUME NEW s \in Linux, NEW i \in DOMAIN s.interfaces,
         NEW k \in InterfaceClaims(i, s.interfaces[i])
  PROVE  ClaimOK(s, k)
  <1> DEFINE f == s.interfaces[i]
  <1>1. i \in Nat /\ f \in Interface BY EntryFacts
  <1>2. f.name \in Name /\ f.master \in Name \cup {None} BY <1>1 DEF Interface
  <1>3. \/ k = AClaim(<<3, i, 0, 0>>, 1, "interface", f.name, None)
        \/ k \in Master(<<3, i, 0, 0>>, 2, f.name, f.master)
    BY DEF InterfaceClaims, Claim, AClaim
  <1>4. <<3, i, 0, 0>> \in Place BY <1>1 DEF Place
  <1> HIDE DEF f
  <1> QED BY <1>2, <1>3, <1>4, ClaimOKs, MasterClaimOK

LEMMA VethClaimsOK ==
  ASSUME NEW s \in Linux, NEW i \in DOMAIN s.veths, NEW k \in VethClaims(i, s.veths[i])
  PROVE  ClaimOK(s, k)
  <1> DEFINE v == s.veths[i]
             at == <<4, i, 0, 0>>
  <1>1. i \in Nat /\ v \in Veth BY EntryFacts
  <1>2. /\ v.name \in Name /\ v.peer \in Name /\ v.master \in Name \cup {None}
        /\ v.namespace \in Namespace \cup {None}
    BY <1>1 DEF Veth
  <1>3. \/ k = AClaim(at, 1, "peer", v.peer, v.name)
        \/ k \in Master(at, 2, v.name, v.master)
        \/ v.namespace # None /\ k \in Claim(at, 3, "namespace", v.namespace, None)
    BY DEF VethClaims, When, Claim, AClaim
  <1>4. at \in Place BY <1>1 DEF Place
  <1> HIDE DEF v, at
  <1> QED BY <1>2, <1>3, <1>4, ClaimOKs, MasterClaimOK, NamespaceClaimOK

LEMMA BridgeClaimsOK ==
  ASSUME NEW s \in Linux, NEW i \in DOMAIN s.bridges, NEW k \in BridgeClaims(i, s.bridges[i])
  PROVE  ClaimOK(s, k)
  <1> DEFINE b == s.bridges[i]
  <1>1. i \in Nat /\ b \in Bridge BY EntryFacts
  <1>2. b.name \in Name /\ b.master \in Name \cup {None} BY <1>1 DEF Bridge
  <1>3. \/ k \in Device(<<5, i, 0, 0>>, 1, b.name)
        \/ k \in Master(<<5, i, 0, 0>>, 2, b.name, b.master)
        \/ \E j \in DOMAIN b.ports : k \in Master(<<5, i, 1, j>>, 1, b.ports[j], b.name)
        \/ \E j \in DOMAIN b.vxlans : k \in VxlanClaims(i, j, b.vxlans[j], b.name)
        \/ \E j \in DOMAIN b.namespaces :
             k \in Claim(<<5, i, 3, j>>, 1, "namespace", b.namespaces[j], None)
    BY DEF BridgeClaims, Each
  <1>4. /\ \A j \in DOMAIN b.ports : j \in Nat /\ b.ports[j] \in Name
        /\ \A j \in DOMAIN b.vxlans : j \in Nat /\ b.vxlans[j] \in Name
        /\ \A j \in DOMAIN b.namespaces : j \in Nat /\ b.namespaces[j] \in Namespace
    BY BridgeFacts
  <1> HIDE DEF b
  <1>5. /\ <<5, i, 0, 0>> \in Place
        /\ \A j \in Nat : <<5, i, 1, j>> \in Place /\ <<5, i, 2, j>> \in Place
                          /\ <<5, i, 3, j>> \in Place
    BY <1>1 DEF Place
  <1>6. ASSUME NEW j \in DOMAIN b.vxlans, k \in VxlanClaims(i, j, b.vxlans[j], b.name)
        PROVE  ClaimOK(s, k)
    BY <1>2, <1>4, <1>5, <1>6, DeviceClaimOK, MasterClaimOK DEF VxlanClaims
  <1>7. ASSUME NEW j \in DOMAIN b.ports, k \in Master(<<5, i, 1, j>>, 1, b.ports[j], b.name)
        PROVE  ClaimOK(s, k)
    BY <1>2, <1>4, <1>5, <1>7, MasterClaimOK
  <1>8. ASSUME NEW j \in DOMAIN b.namespaces,
               k \in Claim(<<5, i, 3, j>>, 1, "namespace", b.namespaces[j], None)
        PROVE  ClaimOK(s, k)
    BY <1>4, <1>5, <1>8, NamespaceClaimOK
  <1> QED BY <1>2, <1>3, <1>5, <1>6, <1>7, <1>8, DeviceClaimOK, MasterClaimOK

LEMMA VethDevicesOK ==
  ASSUME NEW s \in Linux, NEW i \in DOMAIN s.veths, NEW k \in VethDevices(i, s.veths[i])
  PROVE  ClaimOK(s, k)
  <1> DEFINE v == s.veths[i]
             at == <<8, i, 0, 0>>
  <1>1. i \in Nat /\ v \in Veth BY EntryFacts
  <1>2. v.name \in Name /\ v.peer \in Name BY <1>1 DEF Veth
  <1>3. \/ k \in Device(at, 1, v.name) \/ k \in Device(at, 2, v.peer)
        \/ v.namespace # None /\ k = AClaim(at, 3, "free", v.peer, None)
    BY DEF VethDevices, When, Claim, AClaim
  <1>4. at \in Place BY <1>1 DEF Place
  <1>5. AClaim(at, 2, "device", v.peer, None) \in ClaimsOf(s)
    BY HasClaimParts DEF ClaimParts, VethDevices, Device, Claim, AClaim
  <1>6. v.namespace # None => ACall(at, 5, "move", v.peer, v.namespace) \in CallsOf(s)
    BY HasCallParts DEF CallParts, VethCalls, MovePeer, When, Call, ACall
  <1> HIDE DEF v, at
  <1>7. v.namespace # None => MovedAt(s, at, v.peer)
    <2>1. \A ns : ACall(at, 5, "move", v.peer, ns) \in CallsOf(s) => MovedAt(s, at, v.peer)
      BY DEF MovedAt, ACall
    <2> QED BY <1>6, <2>1
  <1>8. CASE v.namespace # None /\ k = AClaim(at, 3, "free", v.peer, None)
    BY <1>2, <1>4, <1>5, <1>7, <1>8, NoneAssumption DEF ClaimOK, AClaim, AnyName
  <1> QED BY <1>2, <1>3, <1>4, <1>8, DeviceClaimOK

LEMMA ClaimsOK ==
  ASSUME NEW s \in Linux, NEW k \in ClaimsOf(s) PROVE ClaimOK(s, k)
  BY ClaimCases, VrfClaimsOK, BondClaimsOK, InterfaceClaimsOK, VethClaimsOK, BridgeClaimsOK,
     VethDevicesOK

\* What the section declares of masters and namespaces is called for.
Enslaves(s, name, master) ==
    \E e \in CallsOf(s) : e.op = "enslave" /\ e.name = name /\ e.arg = master

LEMMA MastersAreCalled ==
  ASSUME NEW s \in Linux, NEW pair \in MastersOf(s) PROVE Enslaves(s, pair[1], pair[2])
  <1>1. \A at, n, name, master :
          ACall(at, n, "enslave", name, master) \in CallsOf(s) => Enslaves(s, name, master)
    BY DEF Enslaves, ACall
  <1>2. \/ \E i \in DOMAIN s.bonds :
             \/ pair = <<s.bonds[i].name, s.bonds[i].master>> /\ s.bonds[i].master \in Name
             \/ \E j \in DOMAIN s.bonds[i].ports : pair = <<s.bonds[i].ports[j], s.bonds[i].name>>
        \/ \E i \in DOMAIN s.bridges :
             \/ pair = <<s.bridges[i].name, s.bridges[i].master>> /\ s.bridges[i].master \in Name
             \/ \E j \in DOMAIN s.bridges[i].ports :
                  pair = <<s.bridges[i].ports[j], s.bridges[i].name>>
        \/ \E i \in DOMAIN s.interfaces :
             pair = <<s.interfaces[i].name, s.interfaces[i].master>>
             /\ s.interfaces[i].master \in Name
        \/ \E i \in DOMAIN s.veths :
             pair = <<s.veths[i].name, s.veths[i].master>> /\ s.veths[i].master \in Name
    BY DEF MastersOf, Each
  <1>3. None \notin Name BY NoneAssumption DEF AnyName
  <1>4. ASSUME NEW i \in DOMAIN s.bonds, s.bonds[i].master \in Name
        PROVE  Enslaves(s, s.bonds[i].name, s.bonds[i].master)
    <2>1. ACall(<<6, i, 0, 0>>, 1, "enslave", s.bonds[i].name, s.bonds[i].master) \in CallsOf(s)
      BY <1>3, <1>4, HasCallParts DEF CallParts, BondMasterCalls, When, Call, ACall
    <2> QED BY <1>1, <2>1
  <1>5. ASSUME NEW i \in DOMAIN s.bonds, NEW j \in DOMAIN s.bonds[i].ports
        PROVE  Enslaves(s, s.bonds[i].ports[j], s.bonds[i].name)
    <2>1. ACall(<<2, i, 1, j>>, 1, "enslave", s.bonds[i].ports[j], s.bonds[i].name) \in CallsOf(s)
      BY HasCallParts DEF CallParts, BondCalls, Each, Call, ACall
    <2> QED BY <1>1, <2>1
  <1>6. ASSUME NEW i \in DOMAIN s.bridges, s.bridges[i].master \in Name
        PROVE  Enslaves(s, s.bridges[i].name, s.bridges[i].master)
    <2>1. ACall(<<5, i, 0, 0>>, 3, "enslave", s.bridges[i].name, s.bridges[i].master)
            \in CallsOf(s)
      BY <1>3, <1>6, HasCallParts DEF CallParts, BridgeCalls, Configure, When, Call, ACall
    <2> QED BY <1>1, <2>1
  <1>7. ASSUME NEW i \in DOMAIN s.bridges, NEW j \in DOMAIN s.bridges[i].ports
        PROVE  Enslaves(s, s.bridges[i].ports[j], s.bridges[i].name)
    <2>1. ACall(<<5, i, 1, j>>, 1, "enslave", s.bridges[i].ports[j], s.bridges[i].name)
            \in CallsOf(s)
      BY HasCallParts DEF CallParts, BridgeCalls, Each, Call, ACall
    <2> QED BY <1>1, <2>1
  <1>8. ASSUME NEW i \in DOMAIN s.interfaces, s.interfaces[i].master \in Name
        PROVE  Enslaves(s, s.interfaces[i].name, s.interfaces[i].master)
    <2>1. ACall(<<7, i, 0, 0>>, 3, "enslave", s.interfaces[i].name, s.interfaces[i].master)
            \in CallsOf(s)
      BY <1>3, <1>8, HasCallParts DEF CallParts, InterfaceCalls, Configure, When, Call, ACall
    <2> QED BY <1>1, <2>1
  <1>9. ASSUME NEW i \in DOMAIN s.veths, s.veths[i].master \in Name
        PROVE  Enslaves(s, s.veths[i].name, s.veths[i].master)
    <2>1. ACall(<<8, i, 0, 0>>, 3, "enslave", s.veths[i].name, s.veths[i].master) \in CallsOf(s)
      BY <1>3, <1>9, HasCallParts DEF CallParts, VethCalls, Configure, When, Call, ACall
    <2> QED BY <1>1, <2>1
  <1> QED BY <1>2, <1>4, <1>5, <1>6, <1>7, <1>8, <1>9

\* The pair of a namespace is made, and one of its ends moved there, at a place.
Moves(s, name, ns) ==
    \E m \in CallsOf(s) : m.op = "move" /\ m.arg = ns /\ PairAt(s, m.at).name = name

LEMMA NamespacesAreCalled ==
  ASSUME NEW s \in Linux, NEW pair \in NamespacesOf(s) PROVE Moves(s, pair[1], pair[2])
  <1>1. \A at, peer, ns :
          ACall(at, 5, "move", peer, ns) \in CallsOf(s) => Moves(s, PairAt(s, at).name, ns)
    BY DEF Moves, ACall
  <1>2. \/ \E i \in DOMAIN s.bridges : \E j \in DOMAIN s.bridges[i].namespaces :
             pair = <<HostVeth(s.bridges[i].name, s.bridges[i].namespaces[j]),
                      s.bridges[i].namespaces[j]>>
        \/ \E i \in DOMAIN s.veths :
             s.veths[i].namespace # None /\ pair = <<s.veths[i].name, s.veths[i].namespace>>
    BY DEF NamespacesOf, Each, When
  <1>3. ASSUME NEW i \in DOMAIN s.bridges, NEW j \in DOMAIN s.bridges[i].namespaces
        PROVE  Moves(s, HostVeth(s.bridges[i].name, s.bridges[i].namespaces[j]),
                     s.bridges[i].namespaces[j])
    <2> DEFINE b == s.bridges[i]
               ns == b.namespaces[j]
               at == <<5, i, 3, j>>
    <2>1. BridgeNamespaceCalls(at, b.name, ns) \subseteq CallsOf(s)
      BY HasCallParts DEF CallParts, BridgeCalls, Each
    <2>2. ACall(at, 5, "move", PeerVeth(b.name, ns), ns) \in CallsOf(s)
      BY <2>1 DEF BridgeNamespaceCalls, MovePeer, Call, ACall
    <2>3. PairAt(s, at).name = HostVeth(b.name, ns) BY DEF PairAt, ACall
    <2> QED BY <1>1, <2>2, <2>3
  <1>4. ASSUME NEW i \in DOMAIN s.veths, s.veths[i].namespace # None
        PROVE  Moves(s, s.veths[i].name, s.veths[i].namespace)
    <2> DEFINE v == s.veths[i]
               at == <<8, i, 0, 0>>
    <2>1. ACall(at, 5, "move", v.peer, v.namespace) \in CallsOf(s)
      BY <1>4, HasCallParts DEF CallParts, VethCalls, MovePeer, When, Call, ACall
    <2>2. PairAt(s, at).name = v.name BY DEF PairAt, ACall
    <2> QED BY <1>1, <2>1, <2>2
  <1> QED BY <1>2, <1>3, <1>4

-----------------------------------------------------------------------------
(* The check: what the claims made so far leave in the tables.             *)

Initial == {Lo} \cup LinkDevice
Once == {"master", "interface", "peer", "namespace"}

\* A walk over todos that has got as far as done: no free of that name since c.
FreedBetween(done, c, d) ==
    \E f \in done : f.table = "free" /\ f.name = c.name /\ Before(c, f) /\ Before(f, d)
FreedSince(done, c) == \E f \in done : f.table = "free" /\ f.name = c.name /\ Before(c, f)

\* Of the claims made: no device takes a name that was there before, or one
\* of a device that has not given it up; other names are claimed once.
NamesOK(done) ==
    /\ \A c \in done : c.table = "device" => c.name \notin Initial
    /\ \A c \in done : \A d \in done :
         c.table = "device" /\ d.table = "device" /\ c.name = d.name /\ Before(c, d)
           => FreedBetween(done, c, d)
    /\ \A c \in done : \A d \in done :
         c.table \in Once /\ d.table = c.table /\ d.name = c.name => d = c
    /\ \A c \in done : c.table = "peer" => c.name # c.to

\* The tables hold the names that are claimed.
TablesOK(done, tables) ==
    /\ tables \in [Tables -> SUBSET (Name \cup Namespace)]
    /\ Initial \subseteq tables["device"]
    /\ \A c \in done : c.table = "device" => c.name \in tables["device"] \/ FreedSince(done, c)
    /\ \A c \in done : c.table \in Once => c.name \in tables[c.table]
    /\ \A name \in tables["device"] : name \notin Initial =>
         \E c \in done : c.table = "device" /\ c.name = name /\ ~ FreedSince(done, c)
    /\ \A name \in tables["namespace"] : \E c \in done : c.table = "namespace" /\ c.name = name

\* What is done of a walk over all comes before what is left.
Walk(all, todos) ==
    /\ todos \subseteq all
    /\ \A c \in all \ todos : \A d \in todos : Before(c, d)

LEMMA WalkOn ==
  ASSUME NEW all, \A c \in all : Placed(c), NEW todos, Walk(all, todos),
         NEW c, First(c, todos)
  PROVE  /\ c \in all /\ c \notin all \ todos
         /\ Walk(all, todos \ {c})
         /\ all \ (todos \ {c}) = (all \ todos) \cup {c}
         /\ \A d \in all \ todos : Before(d, c)
         /\ \A d \in all : Before(d, c) => d \in all \ todos
         /\ \A d \in all : Before(c, d) => d \in todos
  <1>1. c \in all /\ c \in todos BY DEF First, Walk
  <1>2. \A d \in all \ todos : Before(d, c) BY <1>1 DEF Walk
  <1>3. \A d \in all : Before(d, c) => d \in all \ todos
    BY <1>1, BeforeOrder DEF First
  <1>4. \A d \in all : Before(c, d) => d \in todos BY <1>1, <1>2, BeforeOrder
  <1>5. Walk(all, todos \ {c}) BY <1>1 DEF Walk, First
  <1> QED BY <1>1, <1>2, <1>3, <1>4, <1>5

LEMMA WalkStart == ASSUME NEW all PROVE Walk(all, all) /\ all \ all = {}
  BY DEF Walk

LEMMA WalkEnd == ASSUME NEW all PROVE Walk(all, {}) /\ all \ {} = all
  BY DEF Walk

ClaimMade(c, tables) ==
    IF c.table = "free" THEN [tables EXCEPT !["device"] = @ \ {c.name}]
    ELSE [tables EXCEPT ![c.table] = @ \cup {c.name}]

Clash(c, tables) ==
    c.table # "free" /\ (c.name \in tables[c.table] \/ (c.table = "peer" /\ c.name = c.to))

LEMMA ClaimsPlaced == ASSUME NEW s \in Linux PROVE \A c \in ClaimsOf(s) : Placed(c)
  BY ClaimsOK DEF ClaimOK, Placed

LEMMA ClaimStep ==
  ASSUME NEW s \in Linux, NEW todos, Walk(ClaimsOf(s), todos), NEW c, First(c, todos),
         NEW tables, NamesOK(ClaimsOf(s) \ todos), TablesOK(ClaimsOf(s) \ todos, tables),
         ~ Clash(c, tables)
  PROVE  /\ NamesOK((ClaimsOf(s) \ todos) \cup {c})
         /\ TablesOK((ClaimsOf(s) \ todos) \cup {c}, ClaimMade(c, tables))
  <1> DEFINE all == ClaimsOf(s)
             done == all \ todos
             more == done \cup {c}
             next == ClaimMade(c, tables)
  <1>1. \A d \in all : Placed(d) BY ClaimsPlaced
  <1>2. /\ c \in all /\ c \notin done /\ \A d \in done : Before(d, c)
        /\ \A d \in all : Before(d, c) => d \in done
    BY <1>1, WalkOn
  <1>3. ClaimOK(s, c) BY <1>2, ClaimsOK
  <1>4. \A d \in done : ClaimOK(s, d) BY ClaimsOK
  <1>5. \A d \in more : ~ Before(c, d) BY <1>1, <1>2, BeforeOrder
  <1>6. /\ tables \in [Tables -> SUBSET (Name \cup Namespace)]
        /\ c.table \in Tables \cup {"free"} /\ c.name \in Name \cup Namespace
        /\ Tables = {"device"} \cup Once /\ "free" \notin Tables
    BY <1>3 DEF TablesOK, ClaimOK, Once, Tables
  <1>7. /\ c.table = "free" => /\ next["device"] = tables["device"] \ {c.name}
                               /\ \A t \in Once : next[t] = tables[t]
        /\ c.table # "free" => /\ next[c.table] = tables[c.table] \cup {c.name}
                               /\ \A t \in Tables \ {c.table} : next[t] = tables[t]
    BY <1>6 DEF ClaimMade, Once
  <1>8. next \in [Tables -> SUBSET (Name \cup Namespace)] BY <1>6 DEF ClaimMade
  <1>9. c.table # "free" => c.name \notin tables[c.table] BY DEF Clash
  <1>10. c.table = "peer" => c.name # c.to BY DEF Clash
  <1>11. c.table = "free" => \E d \in done : d.table = "device" /\ d.name = c.name
    <2> SUFFICES ASSUME c.table = "free" PROVE \E d \in done : d.table = "device" /\ d.name = c.name
      OBVIOUS
    <2> DEFINE d == AClaim(c.at, 2, "device", c.name, None)
    <2>1. d \in all /\ c.step = 3 BY <1>3 DEF ClaimOK
    <2>2. d.at = c.at /\ d.step = 2 /\ d.table = "device" /\ d.name = c.name BY DEF AClaim
    <2> HIDE DEF d
    <2>3. Before(d, c) BY <2>1, <2>2, BeforeIs
    <2> QED BY <1>2, <2>1, <2>2, <2>3
  <1> HIDE DEF all, done, next
  <1>12. NamesOK(done) /\ TablesOK(done, tables) BY DEF done, all
  <1>13. NamesOK(more)
    <2>1. \A d \in more : d.table = "device" => d.name \notin Initial
      BY <1>9, <1>12 DEF NamesOK, TablesOK
    <2>2. ASSUME NEW d \in more, NEW e \in more,
                 d.table = "device" /\ e.table = "device" /\ d.name = e.name /\ Before(d, e)
          PROVE  FreedBetween(more, d, e)
      <3>1. d \in done BY <1>5, <2>2
      <3>2. CASE e \in done
        <4>1. FreedBetween(done, d, e) BY <1>12, <2>2, <3>1, <3>2 DEF NamesOK
        <4> QED BY <4>1 DEF FreedBetween
      <3>3. CASE e = c
        <4>1. FreedSince(done, d) BY <1>9, <1>12, <2>2, <3>1, <3>3 DEF TablesOK
        <4> QED BY <1>2, <3>3, <4>1 DEF FreedBetween, FreedSince
      <3> QED BY <3>2, <3>3
    <2>3. ASSUME NEW d \in more, NEW e \in more,
                 d.table \in Once /\ e.table = d.table /\ e.name = d.name
          PROVE  e = d
      <3>1. CASE d \in done /\ e \in done BY <1>12, <2>3, <3>1 DEF NamesOK
      <3>2. CASE d = c /\ e \in done BY <1>9, <1>12, <2>3, <3>2 DEF TablesOK, Once
      <3>3. CASE d \in done /\ e = c BY <1>9, <1>12, <2>3, <3>3 DEF TablesOK, Once
      <3> QED BY <3>1, <3>2, <3>3
    <2>4. \A d \in more : d.table = "peer" => d.name # d.to BY <1>10, <1>12 DEF NamesOK
    <2> QED BY <2>1, <2>2, <2>3, <2>4 DEF NamesOK
  <1>14. \A d \in done : FreedSince(more, d) <=>
           FreedSince(done, d) \/ (c.table = "free" /\ c.name = d.name)
    BY <1>2 DEF FreedSince
  <1>15. ~ FreedSince(more, c) BY <1>5 DEF FreedSince
  <1>16. TablesOK(more, next)
    <2>1. Initial \subseteq next["device"]
      BY <1>6, <1>7, <1>11, <1>12 DEF TablesOK, NamesOK, Once
    <2>2. ASSUME NEW d \in more, d.table = "device"
          PROVE  d.name \in next["device"] \/ FreedSince(more, d)
      <3>1. CASE d \in done BY <1>6, <1>7, <1>12, <1>14, <2>2, <3>1 DEF TablesOK
      <3>2. CASE d = c BY <1>7, <2>2, <3>2
      <3> QED BY <3>1, <3>2
    <2>3. ASSUME NEW d \in more, d.table \in Once PROVE d.name \in next[d.table]
      <3>1. CASE d \in done BY <1>6, <1>7, <1>12, <2>3, <3>1 DEF TablesOK
      <3>2. CASE d = c BY <1>6, <1>7, <2>3, <3>2
      <3> QED BY <3>1, <3>2
    <2>4. ASSUME NEW name \in next["device"], name \notin Initial
          PROVE  \E d \in more : d.table = "device" /\ d.name = name /\ ~ FreedSince(more, d)
      <3>1. CASE c.table = "device" /\ c.name = name BY <1>15, <3>1
      <3>2. CASE ~ (c.table = "device" /\ c.name = name)
        <4>1. name \in tables["device"] /\ ~ (c.table = "free" /\ c.name = name)
          BY <1>6, <1>7, <2>4, <3>2
        <4> QED BY <1>12, <1>14, <2>4, <4>1 DEF TablesOK
      <3> QED BY <3>1, <3>2
    <2>5. ASSUME NEW name \in next["namespace"]
          PROVE  \E d \in more : d.table = "namespace" /\ d.name = name
      <3>1. "namespace" \in Once /\ "namespace" \in Tables BY DEF Once, Tables
      <3>2. name \in tables["namespace"] \/ (c.table = "namespace" /\ c.name = name)
        BY <1>6, <1>7, <3>1
      <3> QED BY <1>12, <3>2 DEF TablesOK
    <2> QED BY <1>8, <2>1, <2>2, <2>3, <2>4, <2>5 DEF TablesOK
  <1> QED BY <1>13, <1>16 DEF all, done, next

-----------------------------------------------------------------------------
(* The kernel.                                                             *)

DeviceType == [name : AnyName, kind : Kinds, home : Namespace \cup {None},
               master : Nat, mate : Nat]
WorldType == [devices : Seq(DeviceType), namespaces : SUBSET Namespace]

Count(w) == Len(w.devices)

\* No two devices of the router's own namespace have one name.
Unique(w) ==
    \A i \in 1..Count(w) : \A j \in 1..Count(w) :
      w.devices[i].home = None /\ w.devices[j].home = None
      /\ w.devices[i].name = w.devices[j].name => i = j

LEMMA WorldFacts ==
  ASSUME NEW w \in WorldType
  PROVE  /\ w.devices \in Seq(DeviceType) /\ Count(w) \in Nat /\ DOMAIN w.devices = 1..Count(w)
         /\ w.namespaces \in SUBSET Namespace
         /\ \A i \in 1..Count(w) : w.devices[i] \in DeviceType
         /\ w = [devices |-> w.devices, namespaces |-> w.namespaces]
  BY DEF WorldType, Count

LEMMA DeviceFacts ==
  ASSUME NEW d \in DeviceType
  PROVE  /\ d.name \in AnyName /\ d.kind \in Kinds /\ d.home \in Namespace \cup {None}
         /\ d.master \in Nat /\ d.mate \in Nat
  BY DEF DeviceType

LEMMA FindFacts ==
  ASSUME NEW w \in WorldType, NEW name
  PROVE  /\ Find(w, name) \in 0..Count(w)
         /\ Find(w, name) # 0 => /\ Find(w, name) \in 1..Count(w)
                                 /\ w.devices[Find(w, name)].name = name
                                 /\ w.devices[Find(w, name)].home = None
         /\ \A i \in 1..Count(w) :
              w.devices[i].name = name /\ w.devices[i].home = None =>
                /\ Find(w, name) # 0
                /\ Unique(w) => Find(w, name) = i
  <1> DEFINE found == {i \in 1..Count(w) : w.devices[i].name = name /\ w.devices[i].home = None}
  <1>1. DOMAIN w.devices = 1..Count(w) /\ Count(w) \in Nat BY WorldFacts
  <1>2. Find(w, name) = IF found = {} THEN 0 ELSE CHOOSE i \in found : TRUE BY <1>1 DEF Find
  <1>3. found # {} => Find(w, name) \in found BY <1>2
  <1>4. found = {} => Find(w, name) = 0 BY <1>2
  <1>5. 0 \notin found /\ \A i \in found : i \in 1..Count(w) /\ i \in 0..Count(w) BY <1>1
  <1>6. CASE found = {} BY <1>1, <1>4, <1>6
  <1>7. CASE found # {}
    <2>1. Find(w, name) \in found BY <1>3, <1>7
    <2> HIDE DEF Find
    <2> QED BY <1>5, <2>1 DEF Unique
  <1> QED BY <1>6, <1>7

\* v is w with more devices, whose names were free.
Grown(w, v) ==
    /\ v.namespaces = w.namespaces /\ Count(w) <= Count(v)
    /\ \A i \in 1..Count(w) : v.devices[i] = w.devices[i]
    /\ \A i \in (Count(w) + 1)..Count(v) :
         /\ v.devices[i].home = None /\ v.devices[i].master = 0
         /\ Find(w, v.devices[i].name) = 0
         /\ \A j \in (Count(w) + 1)..Count(v) : v.devices[j].name = v.devices[i].name => j = i

LEMMA GrownUnique ==
  ASSUME NEW w \in WorldType, NEW v \in WorldType, Unique(w), Grown(w, v)
  PROVE  /\ Unique(v)
         /\ \A name : Find(w, name) # 0 => Find(v, name) = Find(w, name)
  <1>1. Count(w) \in Nat /\ Count(v) \in Nat /\ Count(w) <= Count(v) BY WorldFacts DEF Grown
  <1>2. \A i \in 1..Count(v) : i \in 1..Count(w) \/ i \in (Count(w) + 1)..Count(v) BY <1>1
  <1>3. Unique(v)
    <2> SUFFICES ASSUME NEW i \in 1..Count(v), NEW j \in 1..Count(v), v.devices[i].home = None,
                        v.devices[j].home = None, v.devices[i].name = v.devices[j].name
                 PROVE  i = j
      BY DEF Unique
    <2>1. \A k \in 1..Count(w) : \A l \in (Count(w) + 1)..Count(v) :
            v.devices[k].home = None => v.devices[k].name # v.devices[l].name
      BY FindFacts DEF Grown
    <2>2. CASE i \in 1..Count(w) /\ j \in 1..Count(w) BY <2>2 DEF Grown, Unique
    <2>3. CASE i \in (Count(w) + 1)..Count(v) /\ j \in (Count(w) + 1)..Count(v)
      BY <2>3 DEF Grown
    <2> QED BY <1>2, <2>1, <2>2, <2>3
  <1>4. ASSUME NEW name, Find(w, name) # 0 PROVE Find(v, name) = Find(w, name)
    <2>1. /\ Find(w, name) \in 1..Count(w) /\ w.devices[Find(w, name)].name = name
          /\ w.devices[Find(w, name)].home = None
      BY <1>4, FindFacts
    <2>2. Find(w, name) \in 1..Count(v) BY <1>1, <2>1
    <2>3. v.devices[Find(w, name)] = w.devices[Find(w, name)] BY <2>1 DEF Grown
    <2> QED BY <1>3, <2>1, <2>2, <2>3, FindFacts
  <1> QED BY <1>3, <1>4

\* v is w, but for masters and the homes of one device.
LEMMA SameFind ==
  ASSUME NEW w \in WorldType, NEW v \in WorldType, Unique(w), Count(v) = Count(w),
         NEW gone, \A i \in 1..Count(w) :
           /\ v.devices[i].name = w.devices[i].name
           /\ i # gone => v.devices[i].home = w.devices[i].home
           /\ i = gone => v.devices[i].home # None
  PROVE  /\ Unique(v)
         /\ \A name : Find(w, name) # gone => Find(v, name) = Find(w, name)
  <1>1. Unique(v) BY DEF Unique
  <1>2. ASSUME NEW name, Find(w, name) # gone, Find(w, name) # 0 PROVE Find(v, name) = Find(w, name)
    <2>1. /\ Find(w, name) \in 1..Count(w) /\ w.devices[Find(w, name)].name = name
          /\ w.devices[Find(w, name)].home = None
      BY <1>2, FindFacts
    <2> QED BY <1>1, <1>2, <2>1, FindFacts
  <1>3. ASSUME NEW name, Find(w, name) = 0 PROVE Find(v, name) = 0
    <2> SUFFICES ASSUME Find(v, name) # 0 PROVE FALSE OBVIOUS
    <2>1. /\ Find(v, name) \in 1..Count(w) /\ v.devices[Find(v, name)].name = name
          /\ v.devices[Find(v, name)].home = None
      BY FindFacts
    <2> QED BY <1>3, <2>1, FindFacts
  <1> QED BY <1>1, <1>2, <1>3

LEMMA AfterAdd ==
  ASSUME NEW w \in WorldType, NEW c, c.op = "add", c.name \in Name,
         c.arg \in {"vrf", "bond", "bridge", "vxlan"}, Find(w, c.name) = 0
  PROVE  LET v == After(c, w)
         IN  /\ v \in WorldType /\ Grown(w, v) /\ Count(v) = Count(w) + 1
             /\ v.devices[Count(v)] = DeviceAt(c.name, c.arg, 0)
  <1> DEFINE v == After(c, w)
             new == DeviceAt(c.name, c.arg, 0)
  <1>1. v = [w EXCEPT !.devices = Append(@, new)] BY DEF After
  <1>2. new \in DeviceType BY DEF DeviceType, DeviceAt, Kinds, AnyName
  <1>3. v.devices = Append(w.devices, new) /\ v.namespaces = w.namespaces BY <1>1 DEF WorldType
  <1>4. v \in WorldType
    <2>1. v.devices \in Seq(DeviceType) BY <1>2, <1>3, WorldFacts
    <2>2. v = [w EXCEPT !.devices = v.devices] BY <1>1, <1>3
    <2> QED BY <2>1, <2>2 DEF WorldType
  <1>5. new.home = None /\ new.master = 0 /\ new.name = c.name BY DEF DeviceAt
  <1> HIDE DEF v, new
  <1>6. /\ Count(w) \in Nat /\ Count(v) = Count(w) + 1
        /\ \A i \in 1..Count(w) : v.devices[i] = w.devices[i]
        /\ v.devices[Count(v)] = new
    BY <1>2, <1>3, WorldFacts DEF Count
  <1>7. (Count(w) + 1)..Count(v) = {Count(v)} /\ Count(w) <= Count(v) BY <1>6
  <1>8. Find(w, new.name) = 0 BY <1>5
  <1>9. Grown(w, v) BY <1>3, <1>5, <1>6, <1>7, <1>8 DEF Grown
  <1> QED BY <1>4, <1>6, <1>9 DEF v, new

LEMMA AfterPair ==
  ASSUME NEW w \in WorldType, NEW c, c.op = "addveth", c.name \in AnyName, c.arg \in AnyName,
         Find(w, c.name) = 0, Find(w, c.arg) = 0, c.name # c.arg
  PROVE  LET v == After(c, w)
             n == Count(w)
         IN  /\ v \in WorldType /\ Grown(w, v) /\ Count(v) = n + 2
             /\ v.devices[n + 1] = DeviceAt(c.name, "veth", n + 2)
             /\ v.devices[n + 2] = DeviceAt(c.arg, "veth", n + 1)
  <1> DEFINE v == After(c, w)
             n == Count(w)
             near == DeviceAt(c.name, "veth", n + 2)
             far == DeviceAt(c.arg, "veth", n + 1)
  <1>1. v = [w EXCEPT !.devices = @ \o <<near, far>>] BY DEF After, Count
  <1>2. n \in Nat /\ w.devices \in Seq(DeviceType) BY WorldFacts
  <1>3. near \in DeviceType /\ far \in DeviceType BY <1>2 DEF DeviceType, DeviceAt, Kinds
  <1>4. v.devices = w.devices \o <<near, far>> /\ v.namespaces = w.namespaces
    BY <1>1 DEF WorldType
  <1>5. near.home = None /\ near.master = 0 /\ near.name = c.name
        /\ far.home = None /\ far.master = 0 /\ far.name = c.arg BY DEF DeviceAt
  <1> HIDE DEF v, near, far
  <1>6. <<near, far>> \in Seq(DeviceType) /\ Len(<<near, far>>) = 2 BY <1>3
  <1>7. v.devices \in Seq(DeviceType) BY <1>2, <1>4, <1>6
  <1>8. v \in WorldType
    <2>1. v = [w EXCEPT !.devices = v.devices] BY <1>1, <1>4
    <2> QED BY <1>7, <2>1 DEF WorldType
  <1>9. /\ Count(v) = n + 2 /\ \A i \in 1..n : v.devices[i] = w.devices[i]
        /\ v.devices[n + 1] = near /\ v.devices[n + 2] = far
    BY <1>2, <1>4, <1>6 DEF Count
  <1>10. (n + 1)..Count(v) = {n + 1, n + 2} /\ n <= Count(v) BY <1>2, <1>9
  <1>11. Grown(w, v)
    <2>1. Find(w, near.name) = 0 /\ Find(w, far.name) = 0 /\ near.name # far.name BY <1>5
    <2> HIDE DEF n
    <2>2. \A i \in (n + 1)..Count(v) :
            /\ v.devices[i].home = None /\ v.devices[i].master = 0
            /\ Find(w, v.devices[i].name) = 0
            /\ \A j \in (n + 1)..Count(v) : v.devices[j].name = v.devices[i].name => j = i
      BY <1>5, <1>9, <1>10, <2>1
    <2> QED BY <1>4, <1>9, <1>10, <2>2 DEF Grown, n
  <1> QED BY <1>8, <1>9, <1>11 DEF v, near, far

LEMMA AfterEnslave ==
  ASSUME NEW w \in WorldType, NEW c, c.op = "enslave", Find(w, c.name) # 0, Find(w, c.arg) # 0
  PROVE  LET v == After(c, w)
         IN  /\ v \in WorldType /\ Count(v) = Count(w) /\ v.namespaces = w.namespaces
             /\ \A i \in 1..Count(w) :
                  v.devices[i] = IF i = Find(w, c.name)
                                 THEN [w.devices[i] EXCEPT !.master = Find(w, c.arg)]
                                 ELSE w.devices[i]
  <1> DEFINE v == After(c, w)
             x == Find(w, c.name)
             y == Find(w, c.arg)
  <1>1. v = [w EXCEPT !.devices[x].master = y] BY DEF After
  <1>2. x \in 1..Count(w) /\ y \in Nat
    <2>1. Find(w, c.arg) \in 0..Count(w) /\ Count(w) \in Nat BY FindFacts, WorldFacts
    <2> QED BY <2>1, FindFacts
  <1> HIDE DEF x, y
  <1>3. /\ v.devices = [w.devices EXCEPT ![x] = [w.devices[x] EXCEPT !.master = y]]
        /\ v.namespaces = w.namespaces
        /\ v = [w EXCEPT !.devices = [w.devices EXCEPT ![x] = [w.devices[x] EXCEPT !.master = y]]]
    BY <1>1, <1>2 DEF WorldType
  <1>4. w.devices \in Seq(DeviceType) /\ w.devices[x] \in DeviceType
        /\ DOMAIN w.devices = 1..Count(w) /\ Count(w) \in Nat
    BY <1>2, WorldFacts
  <1>5. [w.devices[x] EXCEPT !.master = y] \in DeviceType BY <1>2, <1>4 DEF DeviceType
  <1>6. v.devices \in Seq(DeviceType) /\ Len(v.devices) = Count(w)
    BY <1>2, <1>3, <1>4, <1>5 DEF Count
  <1>7. v \in WorldType BY <1>3, <1>6 DEF WorldType
  <1>8. \A i \in 1..Count(w) : v.devices[i] = IF i = x THEN [w.devices[i] EXCEPT !.master = y]
                                              ELSE w.devices[i]
    BY <1>2, <1>3, <1>4
  <1> HIDE DEF v
  <1>9. Count(v) = Count(w) BY <1>6 DEF Count
  <1> QED BY <1>3, <1>7, <1>8, <1>9 DEF v, x, y

LEMMA AfterMove ==
  ASSUME NEW w \in WorldType, NEW c, c.op = "move", Find(w, c.name) # 0, c.arg \in Namespace
  PROVE  LET v == After(c, w)
         IN  /\ v \in WorldType /\ Count(v) = Count(w) /\ v.namespaces = w.namespaces
             /\ \A i \in 1..Count(w) :
                  v.devices[i] = IF i = Find(w, c.name)
                                 THEN [w.devices[i] EXCEPT !.home = c.arg, !.master = 0]
                                 ELSE w.devices[i]
  <1> DEFINE v == After(c, w)
             x == Find(w, c.name)
  <1>1. v = [w EXCEPT !.devices[x].home = c.arg, !.devices[x].master = 0] BY DEF After
  <1>2. x \in 1..Count(w) BY FindFacts
  <1> HIDE DEF x
  <1>3. w.devices \in Seq(DeviceType) /\ w.devices[x] \in DeviceType
        /\ DOMAIN w.devices = 1..Count(w) /\ Count(w) \in Nat
    BY <1>2, WorldFacts
  <1> DEFINE d == [w.devices[x] EXCEPT !.home = c.arg, !.master = 0]
  <1>4. /\ v.devices = [w.devices EXCEPT ![x] = d] /\ v.namespaces = w.namespaces
        /\ v = [w EXCEPT !.devices = [w.devices EXCEPT ![x] = d]]
    BY <1>1, <1>2, <1>3 DEF WorldType
  <1>5. d \in DeviceType BY <1>3 DEF DeviceType
  <1> HIDE DEF d
  <1>6. v.devices \in Seq(DeviceType) /\ Len(v.devices) = Count(w)
    BY <1>2, <1>3, <1>4, <1>5 DEF Count
  <1>7. v \in WorldType BY <1>4, <1>6 DEF WorldType
  <1>8. \A i \in 1..Count(w) : v.devices[i] = IF i = x THEN d ELSE w.devices[i]
    BY <1>2, <1>3, <1>4
  <1> HIDE DEF v
  <1>9. Count(v) = Count(w) BY <1>6 DEF Count
  <1> QED BY <1>4, <1>7, <1>8, <1>9 DEF v, x, d

LEMMA AfterNetns ==
  ASSUME NEW w \in WorldType, NEW c, c.op = "netns", c.name \in Namespace
  PROVE  LET v == After(c, w)
         IN  /\ v \in WorldType /\ v.devices = w.devices
             /\ v.namespaces = w.namespaces \cup {c.name}
  BY DEF After, WorldType

-----------------------------------------------------------------------------
(* What the claims of an accepted section say of its calls.                *)

Accepted(s) == s \in Linux /\ NamesOK(ClaimsOf(s))

Makes(c, name) ==
    c.op \in {"add", "addveth"} /\ (c.name = name \/ (c.op = "addveth" /\ c.arg = name))

LEMMA CallsPlaced == ASSUME NEW s \in Linux PROVE \A c \in CallsOf(s) : Placed(c)
  BY CallsOK DEF CallOK, Placed

LEMMA CallIs ==
  ASSUME NEW s \in Linux, NEW c \in CallsOf(s)
  PROVE  /\ c = ACall(c.at, c.step, c.op, c.name, c.arg)
         /\ c.op = "add" => AddOK(s, c)
         /\ c.op = "addveth" => PairOK(s, c)
         /\ c.op = "enslave" => EnslaveOK(s, c)
         /\ c.op = "netns" => NetnsOK(s, c)
         /\ c.op = "move" => MoveOK(s, c)
         /\ c.op \in {"add", "addveth", "find", "enslave", "netns", "move"}
  BY CallsOK DEF CallOK

LEMMA HostNames ==
  ASSUME NEW b \in Name, NEW ns \in Namespace, NEW b2 \in Name, NEW ns2 \in Namespace
  PROVE  /\ HostVeth(b, ns) \in HashNames /\ PeerVeth(b, ns) \in HashNames
         /\ HostVeth(b, ns) \notin Name /\ PeerVeth(b, ns) \notin Name
         /\ HostVeth(b, ns) = HostVeth(b2, ns2) => ns = ns2
         /\ PeerVeth(b, ns) = PeerVeth(b2, ns2) => ns = ns2
         /\ HostVeth(b, ns) # PeerVeth(b2, ns2)
  <1>1. HostVeth(b, ns) \in HashNames /\ PeerVeth(b, ns) \in HashNames
    BY DEF HostVeth, PeerVeth, HashNames
  <1>2. Name \cap HashNames = {} BY HashAssumption DEF HashNames
  <1> QED BY <1>1, <1>2 DEF HostVeth, PeerVeth

\* At one place one pair is made.
LEMMA PairOfPlace ==
  ASSUME NEW s \in Linux, NEW a \in CallsOf(s), NEW b \in CallsOf(s),
         a.op = "addveth", b.op = "addveth", a.at = b.at
  PROVE  a = b
  BY CallIs DEF PairOK

LEMMA NamespacesOnce ==
  ASSUME NEW s, Accepted(s), NEW at, NEW at2, NEW ns,
         NamespaceClaim(s, at, ns), NamespaceClaim(s, at2, ns)
  PROVE  at = at2
  <1>1. AClaim(at, 1, "namespace", ns, None) = AClaim(at2, 1, "namespace", ns, None)
    BY DEF NamespaceClaim, Accepted, NamesOK, AClaim, Once
  <1> QED BY <1>1 DEF AClaim

LEMMA NetnsOnce ==
  ASSUME NEW s, Accepted(s), NEW c \in CallsOf(s), NEW d \in CallsOf(s),
         c.op = "netns", d.op = "netns", c.name = d.name
  PROVE  c = d
  <1>1. NetnsOK(s, c) /\ NetnsOK(s, d) BY CallIs DEF Accepted
  <1>2. PICK k \in ClaimsOf(s) : k.table = "namespace" /\ k.name = c.name /\ NetnsPlace(k) = c.at
    BY <1>1 DEF NetnsOK
  <1>3. PICK l \in ClaimsOf(s) : l.table = "namespace" /\ l.name = d.name /\ NetnsPlace(l) = d.at
    BY <1>1 DEF NetnsOK
  <1>4. k = l BY <1>2, <1>3 DEF Accepted, NamesOK, Once
  <1>5. c.at = d.at /\ c.step = d.step /\ c.arg = d.arg BY <1>1, <1>2, <1>3, <1>4 DEF NetnsOK
  <1>6. c = ACall(c.at, c.step, c.op, c.name, c.arg) /\ d = ACall(d.at, d.step, d.op, d.name, d.arg)
    BY CallIs DEF Accepted
  <1> QED BY <1>5, <1>6

LEMMA MoveOnce ==
  ASSUME NEW s, Accepted(s), NEW c \in CallsOf(s), NEW d \in CallsOf(s),
         c.op = "move", d.op = "move", c.arg = d.arg
  PROVE  c = d
  <1>1. MoveOK(s, c) /\ MoveOK(s, d) BY CallIs DEF Accepted
  <1>2. ACall(c.at, 4, "netns", c.arg, None) = ACall(d.at, 4, "netns", d.arg, None)
    BY <1>1, NetnsOnce DEF MoveOK, ACall
  <1>3. c.at = d.at BY <1>2 DEF ACall
  <1>4. c.step = d.step /\ c.name = d.name BY <1>1, <1>3 DEF MoveOK
  <1>5. c = ACall(c.at, c.step, c.op, c.name, c.arg) /\ d = ACall(d.at, d.step, d.op, d.name, d.arg)
    BY CallIs DEF Accepted
  <1> QED BY <1>3, <1>4, <1>5

\* No device is given two masters.
LEMMA EnslavedOnce ==
  ASSUME NEW s, Accepted(s), NEW c \in CallsOf(s), NEW d \in CallsOf(s),
         c.op = "enslave", d.op = "enslave", c.name = d.name
  PROVE  c.at = d.at /\ c.step = d.step
  <1>1. EnslaveOK(s, c) /\ EnslaveOK(s, d) BY CallIs DEF Accepted
  <1>2. CASE c.name \in Name
    <2>1. ~ IsHost(s, c.at, c.name) /\ ~ IsHost(s, d.at, d.name) BY <1>2, HostNames DEF IsHost
    <2>2. PICK k \in ClaimsOf(s) : k.table = "master" /\ k.name = c.name
                                   /\ MasterPlace(k) = <<c.at, c.step>>
      BY <1>1, <2>1 DEF EnslaveOK
    <2>3. PICK l \in ClaimsOf(s) : l.table = "master" /\ l.name = d.name
                                   /\ MasterPlace(l) = <<d.at, d.step>>
      BY <1>1, <2>1 DEF EnslaveOK
    <2>4. k = l BY <2>2, <2>3 DEF Accepted, NamesOK, Once
    <2>5. <<c.at, c.step>> = <<d.at, d.step>> BY <2>2, <2>3, <2>4
    <2> QED BY <2>5
  <1>3. CASE c.name \notin Name
    <2>1. IsHost(s, c.at, c.name) /\ IsHost(s, d.at, d.name) /\ c.step = 3 /\ d.step = 3
      BY <1>1, <1>3 DEF EnslaveOK
    <2>2. PICK b \in Name, ns \in Namespace :
            c.name = HostVeth(b, ns) /\ NamespaceClaim(s, c.at, ns)
      BY <2>1 DEF IsHost
    <2>3. PICK b2 \in Name, ns2 \in Namespace :
            d.name = HostVeth(b2, ns2) /\ NamespaceClaim(s, d.at, ns2)
      BY <2>1 DEF IsHost
    <2>4. ns = ns2 BY <2>2, <2>3, HostNames
    <2> QED BY <2>1, <2>2, <2>3, <2>4, NamespacesOnce
  <1> QED BY <1>2, <1>3

\* The ends of a pair have two names.
LEMMA PairEnds ==
  ASSUME NEW s, Accepted(s), NEW a \in CallsOf(s), a.op = "addveth"
  PROVE  a.name # a.arg
  <1>1. UserPair(s, a) \/ HashPair(s, a) BY CallIs DEF Accepted, PairOK
  <1>2. CASE UserPair(s, a)
    BY <1>2 DEF UserPair, Accepted, NamesOK
  <1>3. CASE HashPair(s, a) BY <1>3, HostNames DEF HashPair
  <1> QED BY <1>1, <1>2, <1>3

\* A device that is made carries a name that was claimed for it there, or a
\* hash of a namespace that was.
LEMMA MakesIs ==
  ASSUME NEW s \in Linux, NEW c \in CallsOf(s), NEW name, Makes(c, name)
  PROVE  /\ c.step = 1 /\ name \in AnyName
         /\ \/ /\ name \in Name
               /\ \E n \in {1, 2} : AClaim(c.at, n, "device", name, None) \in ClaimsOf(s)
            \/ /\ name \notin Name /\ c.op = "addveth"
               /\ \E b \in Name, ns \in Namespace :
                    NamespaceClaim(s, c.at, ns) /\ c.name = HostVeth(b, ns)
                    /\ name \in {HostVeth(b, ns), PeerVeth(b, ns)}
  <1>1. CASE c.op = "add"
    <2>1. AddOK(s, c) /\ name = c.name BY <1>1, CallIs DEF Makes
    <2> QED BY <2>1 DEF AddOK, AnyName
  <1>2. CASE c.op = "addveth"
    <2>1. PairOK(s, c) /\ (name = c.name \/ name = c.arg) BY <1>2, CallIs DEF Makes
    <2>2. CASE UserPair(s, c) BY <2>1, <2>2 DEF UserPair, PairOK, AnyName
    <2>3. CASE HashPair(s, c)
      <3>1. PICK b \in Name, ns \in Namespace :
              c.name = HostVeth(b, ns) /\ c.arg = PeerVeth(b, ns) /\ NamespaceClaim(s, c.at, ns)
        BY <2>3 DEF HashPair
      <3>2. name \notin Name /\ name \in AnyName
        BY <2>1, <3>1, HostNames DEF HashNames, AnyName
      <3> QED BY <1>2, <2>1, <3>1, <3>2 DEF PairOK
    <2> QED BY <2>1, <2>2, <2>3 DEF PairOK
  <1> QED BY <1>1, <1>2 DEF Makes

\* No device is made with a name that was there before, and a name that is
\* used again was moved away in between.
LEMMA MadeAgain ==
  ASSUME NEW s, Accepted(s), NEW c \in CallsOf(s), NEW name, Makes(c, name)
  PROVE  /\ name \notin Initial
         /\ \A d \in CallsOf(s) : Makes(d, name) /\ Before(d, c) =>
              \E m \in CallsOf(s) : m.op = "move" /\ m.name = name /\ Before(d, m) /\ Before(m, c)
  <1> USE DEF Accepted
  <1>1. Initial \subseteq Name BY NameAssumption DEF Initial
  <1>2. CASE name \in Name
    <2>1. PICK n \in {1, 2} : AClaim(c.at, n, "device", name, None) \in ClaimsOf(s)
      BY <1>2, MakesIs
    <2> DEFINE k == AClaim(c.at, n, "device", name, None)
    <2>2. k \in ClaimsOf(s) /\ k.table = "device" /\ k.name = name /\ k.at = c.at /\ k.step = n
      BY <2>1 DEF AClaim
    <2> HIDE DEF k
    <2>3. name \notin Initial BY <2>2 DEF NamesOK
    <2>4. ASSUME NEW d \in CallsOf(s), Makes(d, name), Before(d, c)
          PROVE  \E m \in CallsOf(s) : m.op = "move" /\ m.name = name
                                       /\ Before(d, m) /\ Before(m, c)
      <3>1. PICK o \in {1, 2} : AClaim(d.at, o, "device", name, None) \in ClaimsOf(s)
        BY <1>2, <2>4, MakesIs
      <3> DEFINE l == AClaim(d.at, o, "device", name, None)
      <3>2. l \in ClaimsOf(s) /\ l.table = "device" /\ l.name = name /\ l.at = d.at /\ l.step = o
        BY <3>1 DEF AClaim
      <3> HIDE DEF l
      <3>3. c.step = 1 /\ d.step = 1 BY <2>4, MakesIs
      <3>4. Sooner(d, c) BY <2>4, <3>3, BeforeIs
      <3>5. Before(l, k) BY <2>2, <3>2, <3>4, SoonerSame, BeforeIs
      <3>6. PICK f \in ClaimsOf(s) : f.table = "free" /\ f.name = name
                                     /\ Before(l, f) /\ Before(f, k)
        BY <2>2, <3>2, <3>5 DEF NamesOK, FreedBetween
      <3>7. f.step = 3 /\ MovedAt(s, f.at, name) BY <3>6, ClaimsOK DEF ClaimOK
      <3>8. PICK m \in CallsOf(s) : m.op = "move" /\ m.at = f.at /\ m.step = 5 /\ m.name = name
        BY <3>7 DEF MovedAt
      <3>9. Before(d, m) BY <3>2, <3>3, <3>6, <3>8, SoonerSame, BeforeIs
      <3>10. Before(m, c) BY <2>2, <3>6, <3>7, <3>8, SoonerSame, BeforeIs
      <3> QED BY <3>8, <3>9, <3>10
    <2> QED BY <2>3, <2>4
  <1>3. CASE name \notin Name
    <2>1. PICK b \in Name, ns \in Namespace :
            NamespaceClaim(s, c.at, ns) /\ name \in {HostVeth(b, ns), PeerVeth(b, ns)}
      BY <1>3, MakesIs
    <2>2. ASSUME NEW d \in CallsOf(s), Makes(d, name), Before(d, c) PROVE FALSE
      <3>1. PICK b2 \in Name, ns2 \in Namespace :
              NamespaceClaim(s, d.at, ns2) /\ name \in {HostVeth(b2, ns2), PeerVeth(b2, ns2)}
        BY <1>3, <2>2, MakesIs
      <3>2. ns = ns2 BY <2>1, <3>1, HostNames
      <3>3. c.at = d.at BY <2>1, <3>1, <3>2, NamespacesOnce
      <3>4. c.step = 1 /\ d.step = 1 BY <2>2, MakesIs
      <3>5. Placed(c) /\ Placed(d) BY CallsPlaced
      <3> QED BY <2>2, <3>3, <3>4, <3>5, BeforeIs, SoonerOrder DEF Placed
    <2> QED BY <1>1, <1>3, <2>2
  <1> QED BY <1>2, <1>3

-----------------------------------------------------------------------------
(* The construction: what is true of the devices made so far.              *)

MovedSince(done, c, name) ==
    \E m \in done : m.op = "move" /\ m.name = name /\ Before(c, m)

\* A device in the router's own namespace was there before, or was made and
\* has not been moved since.
Origins(done, w) ==
    \A i \in 1..Count(w) : w.devices[i].home = None =>
      \/ w.devices[i].name \in Initial
      \/ \E c \in done : Makes(c, w.devices[i].name) /\ ~ MovedSince(done, c, w.devices[i].name)

\* Other namespaces are made for the devices that are moved there.
Homes(done, w) ==
    /\ \A ns \in w.namespaces : \E c \in done : c.op = "netns" /\ c.name = ns
    /\ \A i \in 1..Count(w) : w.devices[i].home # None =>
         /\ w.devices[i].home \in w.namespaces
         /\ \E m \in done : m.op = "move" /\ m.arg = w.devices[i].home

MasterKinds == {"vrf", "bond", "bridge"}

Masters(w) ==
    \A i \in 1..Count(w) : w.devices[i].master # 0 =>
      /\ w.devices[i].home = None /\ w.devices[i].master \in 1..Count(w)
      /\ w.devices[w.devices[i].master].home = None
      /\ w.devices[w.devices[i].master].kind \in MasterKinds

Mates(w) ==
    \A i \in 1..Count(w) : w.devices[i].mate # 0 =>
      w.devices[i].mate \in 1..Count(w) /\ w.devices[w.devices[i].mate].mate = i

\* Every device that was given a master has that one.
EnslavedTo(w, name, master) ==
    /\ Find(w, name) # 0 /\ w.devices[Find(w, name)].master # 0
    /\ w.devices[w.devices[Find(w, name)].master].name = master

Enslaved(done, w) == \A e \in done : e.op = "enslave" => EnslavedTo(w, e.name, e.arg)

\* The other end of a pair, and where it is before and after its move.
Mate(w, a) == w.devices[Find(w, a.name)].mate

PairThere(w, a) ==
    /\ Find(w, a.name) # 0 /\ Mate(w, a) \in 1..Count(w)
    /\ w.devices[Mate(w, a)].kind = "veth"

MateStays(w, a) == w.devices[Mate(w, a)].home = None /\ w.devices[Mate(w, a)].name = a.arg

MateMoved(w, a, ns) ==
    /\ w.devices[Mate(w, a)].home = ns
    /\ \A i \in 1..Count(w) : w.devices[i].home = ns => i = Mate(w, a)

Pairs(s, done, w) ==
    \A a \in done : a.op = "addveth" =>
      /\ PairThere(w, a)
      /\ \A m \in CallsOf(s) : m.op = "move" /\ m.at = a.at =>
           IF m \in done THEN MateMoved(w, a, m.arg) ELSE MateStays(w, a)

\* Until it moves, a peer's name is nobody's who was given a master, nor that
\* of the near end of a pair.
Pending(s, done) ==
    \A a \in done : \A m \in CallsOf(s) \ done :
      a.op = "addveth" /\ m.op = "move" /\ m.at = a.at =>
        \A e \in done : e.op \in {"enslave", "addveth"} => e.name # a.arg

BuildOK(s, done, w) ==
    /\ w \in WorldType /\ Unique(w) /\ Origins(done, w) /\ Homes(done, w) /\ Masters(w)
    /\ Mates(w) /\ Enslaved(done, w) /\ Pairs(s, done, w) /\ Pending(s, done)

\* c is the next call, after those of done.
Upto(s, done, c) ==
    /\ Accepted(s) /\ done \subseteq CallsOf(s) /\ c \in CallsOf(s) /\ c \notin done
    /\ \A d \in done : Before(d, c)
    /\ \A d \in CallsOf(s) : Before(d, c) => d \in done
    /\ \A d \in CallsOf(s) : d \notin done /\ d # c => Before(c, d)

LEMMA UptoFacts ==
  ASSUME NEW s, NEW done, NEW c, Upto(s, done, c)
  PROVE  /\ s \in Linux
         /\ \A d \in done : d # c /\ ~ Before(c, d) /\ ~ (d.at = c.at /\ d.step = c.step)
         /\ \A d \in CallsOf(s) : Before(c, d) => d \notin done
         /\ \A a \in done : \A m \in CallsOf(s) :
              m \notin done /\ m # c /\ m.at = a.at => c.at = a.at
         /\ ~ Before(c, c)
  <1>1. s \in Linux BY DEF Upto, Accepted
  <1>2. \A d \in CallsOf(s) : Placed(d) BY <1>1, CallsPlaced
  <1>3. ASSUME NEW d \in done PROVE d # c /\ ~ Before(c, d) /\ ~ (d.at = c.at /\ d.step = c.step)
    <2>1. Before(d, c) /\ Placed(d) /\ Placed(c) BY <1>2 DEF Upto
    <2> QED BY <2>1, BeforeOrder, BeforeIs, SoonerOrder DEF Placed
  <1>4. ASSUME NEW a \in done, NEW m \in CallsOf(s), m \notin done, m # c, m.at = a.at
        PROVE  c.at = a.at
    <2>1. Before(a, c) /\ Before(c, m) /\ Placed(a) /\ Placed(c) /\ Placed(m)
      BY <1>2, <1>4 DEF Upto
    <2> QED BY <1>4, <2>1, BeforeOrder
  <1>5. ~ Before(c, c) BY <1>2, BeforeOrder DEF Upto
  <1> QED BY <1>1, <1>3, <1>4, <1>5

LEMMA UptoWalk ==
  ASSUME NEW s, Accepted(s), NEW todos, Walk(CallsOf(s), todos), NEW c, First(c, todos)
  PROVE  Upto(s, CallsOf(s) \ todos, c)
  <1>1. \A d \in CallsOf(s) : Placed(d) BY CallsPlaced DEF Accepted
  <1> QED BY <1>1, WalkOn DEF Upto, First

\* The names of an accepted section are free when they are needed.
LEMMA NamesAreFree ==
  ASSUME NEW s, NEW done, NEW c, Upto(s, done, c), NEW w, BuildOK(s, done, w)
  PROVE  /\ \A name : Makes(c, name) => Find(w, name) = 0
         /\ c.op = "addveth" => c.name # c.arg
         /\ c.op = "netns" => c.name \notin w.namespaces
  <1>1. ASSUME NEW name, Makes(c, name), Find(w, name) # 0 PROVE FALSE
    <2>1. PICK i \in 1..Count(w) : w.devices[i].name = name /\ w.devices[i].home = None
      BY <1>1, FindFacts DEF BuildOK
    <2>2. name \notin Initial BY <1>1, MadeAgain DEF Upto
    <2>3. PICK d \in done : Makes(d, name) /\ ~ MovedSince(done, d, name)
      BY <2>1, <2>2 DEF BuildOK, Origins
    <2>4. d \in CallsOf(s) /\ Before(d, c) BY DEF Upto
    <2>5. PICK m \in CallsOf(s) : m.op = "move" /\ m.name = name /\ Before(d, m) /\ Before(m, c)
      BY <1>1, <2>3, <2>4, MadeAgain DEF Upto
    <2>6. m \in done BY <2>5 DEF Upto
    <2> QED BY <2>3, <2>5, <2>6 DEF MovedSince
  <1>2. c.op = "addveth" => c.name # c.arg BY PairEnds DEF Upto
  <1>3. ASSUME c.op = "netns", c.name \in w.namespaces PROVE FALSE
    <2>1. PICK d \in done : d.op = "netns" /\ d.name = c.name BY <1>3 DEF BuildOK, Homes
    <2>2. d = c BY <1>3, <2>1, NetnsOnce DEF Upto
    <2> QED BY <2>2 DEF Upto
  <1> QED BY <1>1, <1>2, <1>3

LEMMA PendingStep ==
  ASSUME NEW s, NEW done, NEW c, Upto(s, done, c), NEW w, BuildOK(s, done, w)
  PROVE  Pending(s, done \cup {c})
  <1> SUFFICES ASSUME NEW a \in done \cup {c}, NEW m \in CallsOf(s) \ (done \cup {c}),
                      a.op = "addveth", m.op = "move", m.at = a.at,
                      NEW e \in done \cup {c}, e.op \in {"enslave", "addveth"}, e.name = a.arg
               PROVE  FALSE
    BY DEF Pending
  <1>1. a \in CallsOf(s) /\ e \in CallsOf(s) /\ c \in CallsOf(s) /\ m \notin done /\ m # c
        /\ Accepted(s) /\ s \in Linux
    BY DEF Upto, Accepted
  <1>2. a.name # a.arg BY <1>1, PairEnds
  <1>3. CASE a \in done /\ e \in done BY <1>1, <1>3 DEF BuildOK, Pending
  <1>4. CASE a = c /\ e \in done
    <2>1. Find(w, a.arg) = 0 BY <1>4, NamesAreFree DEF Makes
    <2>2. Find(w, e.name) # 0 BY <1>4 DEF BuildOK, Enslaved, EnslavedTo, Pairs, PairThere
    <2> QED BY <2>1, <2>2
  <1>5. CASE a = c /\ e = c BY <1>2, <1>5
  <1>6. CASE a \in done /\ e = c
    <2>1. c.at = a.at BY <1>1, <1>6, UptoFacts
    <2>2. PairOK(s, a) BY <1>1, CallIs
    <2>3. CASE c.op = "addveth"
      <3>1. c = a BY <1>1, <2>1, <2>3, PairOfPlace
      <3> QED BY <1>6, <3>1 DEF Upto
    <2>4. CASE c.op = "enslave"
      <3>1. EnslaveOK(s, c) BY <1>1, <2>4, CallIs
      <3>2. c.name = a.name BY <2>1, <2>2, <3>1 DEF EnslaveOK, PairOK
      <3> QED BY <1>2, <1>6, <3>2
    <2> QED BY <1>6, <2>3, <2>4
  <1> QED BY <1>3, <1>4, <1>5, <1>6

\* What the construction keeps when devices are added: all of it, with the
\* new devices' origins and mates, and the new pair's ends.
LEMMA GrowStep ==
  ASSUME NEW s, NEW done, NEW c, Upto(s, done, c), NEW w, BuildOK(s, done, w),
         NEW v \in WorldType, Grown(w, v), c.op \in {"add", "addveth"},
         \A i \in (Count(w) + 1)..Count(v) :
           /\ Makes(c, v.devices[i].name)
           /\ v.devices[i].mate # 0 =>
                v.devices[i].mate \in 1..Count(v) /\ v.devices[v.devices[i].mate].mate = i,
         c.op = "addveth" => PairThere(v, c) /\ MateStays(v, c)
  PROVE  BuildOK(s, done \cup {c}, v)
  <1> DEFINE more == done \cup {c}
  <1>1. w \in WorldType /\ Unique(w) BY DEF BuildOK
  <1>2. Unique(v) /\ \A name : Find(w, name) # 0 => Find(v, name) = Find(w, name)
    BY <1>1, GrownUnique
  <1>3. Count(w) \in Nat /\ Count(v) \in Nat /\ Count(w) <= Count(v) BY <1>1, WorldFacts DEF Grown
  <1>4. /\ \A i \in 1..Count(v) : i \in 1..Count(w) \/ i \in (Count(w) + 1)..Count(v)
        /\ \A i \in 1..Count(w) : i \in 1..Count(v) /\ v.devices[i] = w.devices[i]
        /\ \A i \in (Count(w) + 1)..Count(v) :
             v.devices[i].home = None /\ v.devices[i].master = 0
        /\ v.namespaces = w.namespaces
    BY <1>3 DEF Grown
  <1>5. \A name : \A d \in done : MovedSince(more, d, name) => MovedSince(done, d, name)
    BY DEF MovedSince
  <1>6. \A name : ~ MovedSince(more, c, name)
    BY UptoFacts DEF MovedSince
  <1>7. Origins(more, v)
    <2> SUFFICES ASSUME NEW i \in 1..Count(v), v.devices[i].home = None,
                        v.devices[i].name \notin Initial
                 PROVE  \E d \in more : /\ Makes(d, v.devices[i].name)
                                        /\ ~ MovedSince(more, d, v.devices[i].name)
      BY DEF Origins
    <2>1. CASE i \in 1..Count(w) BY <1>4, <1>5, <2>1 DEF BuildOK, Origins
    <2>2. CASE i \in (Count(w) + 1)..Count(v) BY <1>6, <2>2
    <2> QED BY <1>4, <2>1, <2>2
  <1>8. Homes(more, v) BY <1>4 DEF BuildOK, Homes
  <1>9. Masters(v) BY <1>4 DEF BuildOK, Masters
  <1>10. Mates(v)
    <2> SUFFICES ASSUME NEW i \in 1..Count(v), v.devices[i].mate # 0
                 PROVE  v.devices[i].mate \in 1..Count(v) /\ v.devices[v.devices[i].mate].mate = i
      BY DEF Mates
    <2>1. CASE i \in 1..Count(w) BY <1>4, <2>1 DEF BuildOK, Mates
    <2>2. CASE i \in (Count(w) + 1)..Count(v) BY <2>2
    <2> QED BY <1>4, <2>1, <2>2
  <1>11. \A name : Find(w, name) # 0 =>
           Find(w, name) \in 1..Count(w) /\ v.devices[Find(v, name)] = w.devices[Find(w, name)]
    BY <1>1, <1>2, <1>4, FindFacts
  <1>12. Enslaved(more, v)
    <2> SUFFICES ASSUME NEW e \in done, e.op = "enslave" PROVE EnslavedTo(v, e.name, e.arg)
      BY DEF Enslaved
    <2> DEFINE x == Find(w, e.name)
    <2>1. EnslavedTo(w, e.name, e.arg) BY DEF BuildOK, Enslaved
    <2>2. x # 0 /\ w.devices[x].master # 0 /\ w.devices[w.devices[x].master].name = e.arg
      BY <2>1 DEF EnslavedTo
    <2>3. x \in 1..Count(w) /\ Find(v, e.name) = x /\ v.devices[x] = w.devices[x]
      BY <1>2, <1>11, <2>2
    <2>4. w.devices[x].master \in 1..Count(w) BY <2>2, <2>3 DEF BuildOK, Masters
    <2>5. v.devices[w.devices[x].master] = w.devices[w.devices[x].master] BY <1>4, <2>4
    <2> HIDE DEF x
    <2> QED BY <2>2, <2>3, <2>5 DEF EnslavedTo, x
  <1>13. Pairs(s, more, v)
    <2>1. ASSUME NEW a \in done, a.op = "addveth"
          PROVE  /\ PairThere(v, a)
                 /\ \A m \in CallsOf(s) : m.op = "move" /\ m.at = a.at =>
                      IF m \in more THEN MateMoved(v, a, m.arg) ELSE MateStays(v, a)
      <3>1. PairThere(w, a) BY <2>1 DEF BuildOK, Pairs
      <3>2. Mate(v, a) = Mate(w, a) /\ Find(v, a.name) # 0
        BY <1>2, <1>11, <3>1 DEF Mate, PairThere
      <3>3. Mate(w, a) \in 1..Count(w) /\ v.devices[Mate(w, a)] = w.devices[Mate(w, a)]
        BY <1>4, <3>1 DEF PairThere
      <3>4. PairThere(v, a) BY <1>4, <3>1, <3>2, <3>3 DEF PairThere
      <3>5. ASSUME NEW m \in CallsOf(s), m.op = "move" /\ m.at = a.at
            PROVE  IF m \in more THEN MateMoved(v, a, m.arg) ELSE MateStays(v, a)
        <4>1. m \in more <=> m \in done BY <3>5
        <4>2. CASE m \in done
          <5>1. MateMoved(w, a, m.arg) BY <2>1, <3>5, <4>2 DEF BuildOK, Pairs
          <5>2. m.arg # None
            BY <3>5, UptoFacts, CallIs, NoneAssumption DEF MoveOK
          <5> QED BY <1>4, <3>2, <3>3, <4>1, <4>2, <5>1, <5>2 DEF MateMoved
        <4>3. CASE m \notin done
          <5>1. MateStays(w, a) BY <2>1, <3>5, <4>3 DEF BuildOK, Pairs
          <5> QED BY <3>2, <3>3, <4>1, <4>3, <5>1 DEF MateStays
        <4> QED BY <4>2, <4>3
      <3> QED BY <3>4, <3>5
    <2>2. ASSUME c.op = "addveth", NEW m \in CallsOf(s), m.op = "move" /\ m.at = c.at
          PROVE  m \notin more
      <3>1. m.step = 5 /\ c.step = 1
        BY <2>2, CallIs, UptoFacts DEF MoveOK, PairOK, Upto
      <3>2. Before(c, m) BY <2>2, <3>1, BeforeIs
      <3> QED BY <2>2, <3>2, UptoFacts
    <2> QED BY <2>1, <2>2 DEF Pairs
  <1>14. Pending(s, more) BY PendingStep
  <1> QED BY <1>2, <1>7, <1>8, <1>9, <1>10, <1>12, <1>13, <1>14 DEF BuildOK

LEMMA AddStep ==
  ASSUME NEW s, NEW done, NEW c, Upto(s, done, c), NEW w, BuildOK(s, done, w),
         c.op = "add"
  PROVE  BuildOK(s, done \cup {c}, After(c, w))
  <1> DEFINE v == After(c, w)
  <1>1. w \in WorldType BY DEF BuildOK
  <1>2. AddOK(s, c) BY CallIs, UptoFacts DEF Upto
  <1>3. Makes(c, c.name) /\ Find(w, c.name) = 0 BY NamesAreFree DEF Makes
  <1>4. /\ v \in WorldType /\ Grown(w, v) /\ Count(v) = Count(w) + 1
        /\ v.devices[Count(v)] = DeviceAt(c.name, c.arg, 0)
    BY <1>1, <1>2, <1>3, AfterAdd DEF AddOK
  <1> HIDE DEF v
  <1>5. Count(w) \in Nat /\ (Count(w) + 1)..Count(v) = {Count(v)} BY <1>1, <1>4, WorldFacts
  <1>6. v.devices[Count(v)].name = c.name /\ v.devices[Count(v)].mate = 0
    BY <1>4 DEF DeviceAt
  <1>7. BuildOK(s, done \cup {c}, v) BY <1>3, <1>4, <1>5, <1>6, GrowStep
  <1> QED BY <1>7 DEF v

LEMMA PairStep ==
  ASSUME NEW s, NEW done, NEW c, Upto(s, done, c), NEW w, BuildOK(s, done, w),
         c.op = "addveth"
  PROVE  BuildOK(s, done \cup {c}, After(c, w))
  <1> DEFINE v == After(c, w)
             n == Count(w)
  <1>1. w \in WorldType /\ Unique(w) BY DEF BuildOK
  <1>2. Makes(c, c.name) /\ Makes(c, c.arg) BY DEF Makes
  <1>3. Find(w, c.name) = 0 /\ Find(w, c.arg) = 0 /\ c.name # c.arg BY <1>2, NamesAreFree
  <1>4. c.name \in AnyName /\ c.arg \in AnyName BY <1>2, MakesIs, UptoFacts DEF Upto
  <1>5. /\ v \in WorldType /\ Grown(w, v) /\ Count(v) = n + 2
        /\ v.devices[n + 1] = DeviceAt(c.name, "veth", n + 2)
        /\ v.devices[n + 2] = DeviceAt(c.arg, "veth", n + 1)
    BY <1>1, <1>3, <1>4, AfterPair
  <1> HIDE DEF v
  <1>6. n \in Nat /\ (n + 1)..Count(v) = {n + 1, n + 2} /\ n + 1 \in 1..Count(v)
        /\ n + 2 \in 1..Count(v)
    BY <1>1, <1>5, WorldFacts
  <1> HIDE DEF n
  <1>7. /\ v.devices[n + 1].name = c.name /\ v.devices[n + 1].mate = n + 2
        /\ v.devices[n + 1].home = None
        /\ v.devices[n + 2].name = c.arg /\ v.devices[n + 2].mate = n + 1
        /\ v.devices[n + 2].home = None /\ v.devices[n + 2].kind = "veth"
    BY <1>5 DEF DeviceAt
  <1>8. Unique(v) BY <1>1, <1>5, GrownUnique
  <1>9. Find(v, c.name) = n + 1 /\ Find(v, c.name) # 0 BY <1>5, <1>6, <1>7, <1>8, FindFacts
  <1>10. PairThere(v, c) /\ MateStays(v, c)
    BY <1>6, <1>7, <1>9 DEF PairThere, MateStays, Mate
  <1>11. BuildOK(s, done \cup {c}, v)
    <2>1. \A i \in (n + 1)..Count(v) :
            /\ Makes(c, v.devices[i].name)
            /\ v.devices[i].mate # 0 =>
                 v.devices[i].mate \in 1..Count(v) /\ v.devices[v.devices[i].mate].mate = i
      BY <1>2, <1>6, <1>7
    <2> QED BY <1>5, <1>10, <2>1, GrowStep DEF n
  <1> QED BY <1>11 DEF v

\* Devices as they were: a find, or a new namespace.
LEMMA StillStep ==
  ASSUME NEW s, NEW done, NEW c, Upto(s, done, c), NEW w, BuildOK(s, done, w),
         c.op \in {"find", "netns"}, NEW v \in WorldType, v.devices = w.devices,
         v.namespaces = IF c.op = "netns" THEN w.namespaces \cup {c.name} ELSE w.namespaces
  PROVE  BuildOK(s, done \cup {c}, v)
  <1> DEFINE more == done \cup {c}
  <1>1. /\ Count(v) = Count(w) /\ \A name : Find(v, name) = Find(w, name)
        /\ \A a : Mate(v, a) = Mate(w, a)
    BY DEF Count, Find, Mate
  <1>2. Unique(v) /\ Masters(v) /\ Mates(v) BY <1>1 DEF BuildOK, Unique, Masters, Mates
  <1>3. \A name : \A d \in done : MovedSince(more, d, name) => MovedSince(done, d, name)
    BY DEF MovedSince
  <1>4. Origins(more, v) BY <1>1, <1>3 DEF BuildOK, Origins
  <1>5. Homes(more, v) BY <1>1 DEF BuildOK, Homes
  <1>6. Enslaved(more, v) BY <1>1 DEF BuildOK, Enslaved, EnslavedTo
  <1>7. Pairs(s, more, v)
    BY <1>1 DEF BuildOK, Pairs, PairThere, MateStays, MateMoved
  <1>8. Pending(s, more) BY PendingStep
  <1> QED BY <1>2, <1>4, <1>5, <1>6, <1>7, <1>8 DEF BuildOK

LEMMA EnslaveStep ==
  ASSUME NEW s, NEW done, NEW c, Upto(s, done, c), NEW w, BuildOK(s, done, w),
         c.op = "enslave", CanDo(c, w)
  PROVE  BuildOK(s, done \cup {c}, After(c, w))
  <1> DEFINE more == done \cup {c}
             v == After(c, w)
             x == Find(w, c.name)
             y == Find(w, c.arg)
  <1>1. w \in WorldType /\ Unique(w) BY DEF BuildOK
  <1>2. x # 0 /\ y # 0 /\ c.name # c.arg /\ w.devices[y].kind \in MasterKinds
    BY DEF CanDo, MasterKinds
  <1>3. /\ v \in WorldType /\ Count(v) = Count(w) /\ v.namespaces = w.namespaces
        /\ \A i \in 1..Count(w) :
             v.devices[i] = IF i = x THEN [w.devices[i] EXCEPT !.master = y] ELSE w.devices[i]
    BY <1>1, <1>2, AfterEnslave
  <1>4. /\ x \in 1..Count(w) /\ w.devices[x].home = None /\ w.devices[x].name = c.name
        /\ y \in 1..Count(w) /\ w.devices[y].home = None /\ w.devices[y].name = c.arg
    BY <1>1, <1>2, FindFacts
  <1> HIDE DEF v, x, y
  <1>5. /\ \A i \in 1..Count(w) : w.devices[i] \in DeviceType
        /\ \A i \in 1..Count(w) :
             /\ v.devices[i].name = w.devices[i].name /\ v.devices[i].home = w.devices[i].home
             /\ v.devices[i].kind = w.devices[i].kind /\ v.devices[i].mate = w.devices[i].mate
             /\ v.devices[i].master = IF i = x THEN y ELSE w.devices[i].master
    <2>1. \A i \in 1..Count(w) : w.devices[i] \in DeviceType BY <1>1, WorldFacts
    <2> QED BY <1>3, <2>1 DEF DeviceType
  <1>6. Unique(v) /\ \A name : Find(v, name) = Find(w, name)
    <2>1. Unique(v) BY <1>1, <1>3, <1>5 DEF Unique
    <2>2. ASSUME NEW name PROVE Find(v, name) = Find(w, name)
      <3>1. Find(w, name) # Count(w) + 1
        <4>1. Find(w, name) \in 0..Count(w) /\ Count(w) \in Nat BY <1>1, FindFacts, WorldFacts
        <4> QED BY <4>1
      <3>2. \A i \in 1..Count(w) : i # Count(w) + 1 BY <1>1, WorldFacts
      <3> QED BY <1>1, <1>3, <1>5, <3>1, <3>2, SameFind
    <2> QED BY <2>1, <2>2
  <1>7. \A a : Mate(v, a) = Mate(w, a) \/ Find(w, a.name) = 0
    BY <1>1, <1>5, <1>6, FindFacts DEF Mate
  <1>8. \A name : \A d \in done : MovedSince(more, d, name) => MovedSince(done, d, name)
    BY DEF MovedSince
  <1>9. Origins(more, v) BY <1>3, <1>5, <1>8 DEF BuildOK, Origins
  <1>10. Homes(more, v) BY <1>3, <1>5 DEF BuildOK, Homes
  <1>11. Masters(v)
    <2> SUFFICES ASSUME NEW i \in 1..Count(w), v.devices[i].master # 0
                 PROVE  /\ v.devices[i].home = None /\ v.devices[i].master \in 1..Count(w)
                        /\ v.devices[v.devices[i].master].home = None
                        /\ v.devices[v.devices[i].master].kind \in MasterKinds
      BY <1>3 DEF Masters
    <2>1. CASE i = x BY <1>2, <1>4, <1>5, <2>1
    <2>2. CASE i # x BY <1>5, <2>2 DEF BuildOK, Masters
    <2> QED BY <2>1, <2>2
  <1>12. Mates(v) BY <1>3, <1>5 DEF BuildOK, Mates
  <1>13. Enslaved(more, v)
    <2> SUFFICES ASSUME NEW e \in more, e.op = "enslave" PROVE EnslavedTo(v, e.name, e.arg)
      BY DEF Enslaved
    <2>1. CASE e = c
      BY <1>2, <1>4, <1>5, <1>6, <2>1 DEF EnslavedTo, x
    <2>2. CASE e \in done
      <3> DEFINE d == Find(w, e.name)
      <3>1. EnslavedTo(w, e.name, e.arg) BY <2>2 DEF BuildOK, Enslaved
      <3>2. d # 0 /\ w.devices[d].master # 0 /\ w.devices[w.devices[d].master].name = e.arg
        BY <3>1 DEF EnslavedTo
      <3>3. d \in 1..Count(w) /\ w.devices[d].name = e.name BY <1>1, <3>2, FindFacts
      <3>4. w.devices[d].master \in 1..Count(w) BY <3>2, <3>3 DEF BuildOK, Masters
      <3>5. e.name # c.name BY <2>2, EnslavedOnce, UptoFacts DEF Upto
      <3>6. d # x BY <1>4, <3>3, <3>5
      <3> HIDE DEF d
      <3>7. v.devices[d].master = w.devices[d].master BY <1>5, <3>3, <3>6
      <3> QED BY <1>5, <1>6, <3>2, <3>4, <3>7 DEF EnslavedTo, d
    <2> QED BY <2>1, <2>2
  <1>14. Pairs(s, more, v)
    <2> SUFFICES ASSUME NEW a \in done, a.op = "addveth"
                 PROVE  /\ PairThere(v, a)
                        /\ \A m \in CallsOf(s) : m.op = "move" /\ m.at = a.at =>
                             IF m \in more THEN MateMoved(v, a, m.arg) ELSE MateStays(v, a)
      BY DEF Pairs
    <2>1. PairThere(w, a) BY DEF BuildOK, Pairs
    <2>2. Mate(v, a) = Mate(w, a) /\ Mate(w, a) \in 1..Count(w)
      BY <1>7, <2>1 DEF PairThere
    <2>3. PairThere(v, a) BY <1>3, <1>5, <1>6, <2>1, <2>2 DEF PairThere
    <2>4. ASSUME NEW m \in CallsOf(s), m.op = "move" /\ m.at = a.at
          PROVE  IF m \in more THEN MateMoved(v, a, m.arg) ELSE MateStays(v, a)
      <3>1. IF m \in done THEN MateMoved(w, a, m.arg) ELSE MateStays(w, a)
        BY <2>4 DEF BuildOK, Pairs
      <3> QED BY <1>3, <1>5, <2>2, <2>4, <3>1 DEF MateMoved, MateStays
    <2> QED BY <2>3, <2>4
  <1>15. Pending(s, more) BY PendingStep
  <1>16. BuildOK(s, more, v)
    BY <1>3, <1>6, <1>9, <1>10, <1>11, <1>12, <1>13, <1>14, <1>15 DEF BuildOK
  <1> QED BY <1>16 DEF v

LEMMA MoveStep ==
  ASSUME NEW s, NEW done, NEW c, Upto(s, done, c), NEW w, BuildOK(s, done, w),
         c.op = "move", CanDo(c, w)
  PROVE  BuildOK(s, done \cup {c}, After(c, w))
  <1> DEFINE more == done \cup {c}
             v == After(c, w)
             p == Find(w, c.name)
             near == PairAt(s, c.at)
  <1>1. w \in WorldType /\ Unique(w) BY DEF BuildOK
  <1>2. p # 0 /\ c.arg \in w.namespaces BY DEF CanDo
  <1>3. MoveOK(s, c) /\ s \in Linux BY CallIs, UptoFacts DEF Upto
  <1>4. /\ v \in WorldType /\ Count(v) = Count(w) /\ v.namespaces = w.namespaces
        /\ \A i \in 1..Count(w) :
             v.devices[i] = IF i = p THEN [w.devices[i] EXCEPT !.home = c.arg, !.master = 0]
                            ELSE w.devices[i]
    BY <1>1, <1>2, <1>3, AfterMove DEF MoveOK
  <1>5. p \in 1..Count(w) /\ w.devices[p].home = None /\ w.devices[p].name = c.name
    BY <1>1, <1>2, FindFacts
  <1>6. c.arg # None /\ c.arg \in Namespace BY <1>3, NoneAssumption DEF MoveOK
  <1>7. near \in done /\ near.op = "addveth" /\ near.at = c.at /\ near.arg = c.name
    <2>1. near \in CallsOf(s) /\ near.arg = c.name /\ c.step = 5 BY <1>3 DEF MoveOK
    <2>2. near.op = "addveth" /\ near.at = c.at /\ near.step = 1 BY DEF PairAt, ACall
    <2>3. Before(near, c) BY <2>1, <2>2, BeforeIs
    <2> QED BY <2>1, <2>2, <2>3 DEF Upto
  <1> HIDE DEF v, p, near
  <1>8. c \in CallsOf(s) /\ c \notin done /\ Accepted(s) /\ done \subseteq CallsOf(s) BY DEF Upto
  <1>9. Mate(w, near) = p /\ w.devices[p].kind = "veth"
    <2>1. PairThere(w, near) BY <1>7 DEF BuildOK, Pairs
    <2>2. MateStays(w, near) BY <1>7, <1>8 DEF BuildOK, Pairs
    <2>3. Mate(w, near) = Find(w, c.name)
      BY <1>1, <1>7, <2>1, <2>2, FindFacts DEF PairThere, MateStays
    <2> QED BY <2>1, <2>3 DEF PairThere, p
  <1>10. \A i \in 1..Count(w) :
           /\ v.devices[i].name = w.devices[i].name /\ v.devices[i].kind = w.devices[i].kind
           /\ v.devices[i].mate = w.devices[i].mate
           /\ v.devices[i].home = IF i = p THEN c.arg ELSE w.devices[i].home
           /\ v.devices[i].master = IF i = p THEN 0 ELSE w.devices[i].master
    <2>1. \A i \in 1..Count(w) : w.devices[i] \in DeviceType BY <1>1, WorldFacts
    <2> QED BY <1>4, <2>1 DEF DeviceType
  <1>11. Unique(v) /\ \A name : Find(w, name) # p => Find(v, name) = Find(w, name)
    <2>1. \A i \in 1..Count(w) :
            /\ v.devices[i].name = w.devices[i].name
            /\ i # p => v.devices[i].home = w.devices[i].home
            /\ i = p => v.devices[i].home # None
      BY <1>6, <1>10
    <2>2. v \in WorldType /\ Count(v) = Count(w) BY <1>4
    <2> QED BY <1>1, <2>1, <2>2, SameFind
  <1>12. \A name : name # c.name => Find(v, name) = Find(w, name)
    <2>1. \A name : Find(w, name) = p => name = c.name BY <1>1, <1>2, <1>5, FindFacts
    <2> QED BY <1>11, <2>1
  <1>13. \A e \in done : e.op \in {"enslave", "addveth"} => e.name # c.name
    BY <1>7, <1>8 DEF BuildOK, Pending
  <1>14. \A m \in done : m.op = "move" => m.arg # c.arg BY <1>8, MoveOnce
  <1>15. Origins(more, v)
    <2> SUFFICES ASSUME NEW i \in 1..Count(w), v.devices[i].home = None,
                        v.devices[i].name \notin Initial
                 PROVE  \E d \in more : /\ Makes(d, v.devices[i].name)
                                        /\ ~ MovedSince(more, d, v.devices[i].name)
      BY <1>4 DEF Origins
    <2>1. i # p /\ w.devices[i].home = None BY <1>6, <1>10
    <2>2. w.devices[i].name # c.name BY <1>1, <1>5, <2>1 DEF Unique
    <2>3. PICK d \in done : Makes(d, w.devices[i].name) /\ ~ MovedSince(done, d, w.devices[i].name)
      BY <1>10, <2>1 DEF BuildOK, Origins
    <2>4. ~ MovedSince(more, d, w.devices[i].name) BY <2>2, <2>3 DEF MovedSince
    <2> QED BY <1>10, <2>3, <2>4
  <1>16. Homes(more, v)
    <2>1. \A ns \in v.namespaces : \E d \in more : d.op = "netns" /\ d.name = ns
      BY <1>4 DEF BuildOK, Homes
    <2>2. ASSUME NEW i \in 1..Count(w), v.devices[i].home # None
          PROVE  /\ v.devices[i].home \in v.namespaces
                 /\ \E m \in more : m.op = "move" /\ m.arg = v.devices[i].home
      <3>1. CASE i = p BY <1>2, <1>4, <1>10, <3>1
      <3>2. CASE i # p
        <4>1. v.devices[i].home = w.devices[i].home BY <1>10, <3>2
        <4>2. /\ w.devices[i].home \in w.namespaces
              /\ \E m \in done : m.op = "move" /\ m.arg = w.devices[i].home
          BY <2>2, <4>1 DEF BuildOK, Homes
        <4> HIDE DEF more
        <4>3. v.namespaces = w.namespaces BY <1>4
        <4>4. done \subseteq more BY DEF more
        <4> QED BY <4>1, <4>2, <4>3, <4>4
      <3> QED BY <3>1, <3>2
    <2> QED BY <1>4, <2>1, <2>2 DEF Homes
  <1>17. Masters(v)
    <2> SUFFICES ASSUME NEW i \in 1..Count(w), v.devices[i].master # 0
                 PROVE  /\ v.devices[i].home = None /\ v.devices[i].master \in 1..Count(w)
                        /\ v.devices[v.devices[i].master].home = None
                        /\ v.devices[v.devices[i].master].kind \in MasterKinds
      BY <1>4 DEF Masters
    <2> DEFINE k == w.devices[i].master
    <2>1. i # p /\ v.devices[i].master = k /\ k # 0 BY <1>10
    <2>2. w.devices[i].home = None /\ k \in 1..Count(w) /\ w.devices[k].home = None
          /\ w.devices[k].kind \in MasterKinds
      BY <2>1 DEF BuildOK, Masters
    <2>3. k # p BY <1>9, <2>2 DEF MasterKinds
    <2> QED BY <1>10, <2>1, <2>2, <2>3
  <1>18. Mates(v)
    <2>1. \A i \in 1..Count(w) : v.devices[i].mate = w.devices[i].mate BY <1>10
    <2> QED BY <1>4, <2>1 DEF BuildOK, Mates
  <1>19. Enslaved(more, v)
    <2> SUFFICES ASSUME NEW e \in done, e.op = "enslave" PROVE EnslavedTo(v, e.name, e.arg)
      BY DEF Enslaved
    <2> DEFINE d == Find(w, e.name)
    <2>1. EnslavedTo(w, e.name, e.arg) BY DEF BuildOK, Enslaved
    <2>2. d # 0 /\ w.devices[d].master # 0 /\ w.devices[w.devices[d].master].name = e.arg
      BY <2>1 DEF EnslavedTo
    <2>3. d \in 1..Count(w) /\ w.devices[d].name = e.name BY <1>1, <2>2, FindFacts
    <2>4. w.devices[d].master \in 1..Count(w) BY <2>2, <2>3 DEF BuildOK, Masters
    <2>5. e.name # c.name BY <1>13
    <2>6. d # p /\ Find(v, e.name) = d BY <1>5, <1>12, <2>3, <2>5
    <2> HIDE DEF d
    <2> QED BY <1>10, <2>2, <2>3, <2>4, <2>6 DEF EnslavedTo
  <1>20. Pairs(s, more, v)
    <2> SUFFICES ASSUME NEW a \in done, a.op = "addveth"
                 PROVE  /\ PairThere(v, a)
                        /\ \A m \in CallsOf(s) : m.op = "move" /\ m.at = a.at =>
                             IF m \in more THEN MateMoved(v, a, m.arg) ELSE MateStays(v, a)
      BY DEF Pairs
    <2>1. PairThere(w, a) BY DEF BuildOK, Pairs
    <2>2. a.name # c.name BY <1>13
    <2>3. Find(v, a.name) = Find(w, a.name) /\ Find(w, a.name) \in 1..Count(w)
      BY <1>1, <1>12, <2>1, <2>2, FindFacts DEF PairThere
    <2>4. Mate(v, a) = Mate(w, a) /\ Mate(w, a) \in 1..Count(w)
      BY <1>10, <2>1, <2>3 DEF Mate, PairThere
    <2>5. PairThere(v, a) BY <1>4, <1>10, <2>1, <2>3, <2>4 DEF PairThere
    <2>6. ASSUME NEW m \in CallsOf(s), m.op = "move", m.at = a.at
          PROVE  IF m \in more THEN MateMoved(v, a, m.arg) ELSE MateStays(v, a)
      <3>1. CASE m \in done
        <4>1. MateMoved(w, a, m.arg) BY <2>6, <3>1 DEF BuildOK, Pairs
        <4>2. m.arg # None /\ m.arg # c.arg
          BY <1>3, <1>14, <2>6, <3>1, CallIs, NoneAssumption DEF MoveOK
        <4>3. Mate(w, a) # p BY <1>5, <4>1, <4>2 DEF MateMoved
        <4>4. \A i \in 1..Count(w) : v.devices[i].home = m.arg => w.devices[i].home = m.arg
          BY <1>10, <4>2
        <4> QED BY <1>4, <1>10, <2>4, <3>1, <4>1, <4>3, <4>4 DEF MateMoved
      <3>2. CASE m = c
        <4>1. a = near BY <1>3, <1>7, <1>8, <2>6, <3>2, PairOfPlace
        <4>2. Mate(v, a) = p BY <1>9, <2>4, <4>1
        <4>3. \A i \in 1..Count(w) : w.devices[i].home # c.arg
          BY <1>6, <1>14 DEF BuildOK, Homes
        <4>4. MateMoved(v, a, c.arg) BY <1>4, <1>5, <1>10, <4>2, <4>3 DEF MateMoved
        <4> QED BY <3>2, <4>4
      <3>3. CASE m \notin done /\ m # c
        <4>1. c.at = a.at BY <2>6, <3>3, UptoFacts
        <4>2. Before(c, m) BY <2>6, <3>3 DEF Upto
        <4>3. m.step = 5 /\ c.step = 5 BY <1>3, <2>6, CallIs DEF MoveOK
        <4>4. Placed(c) /\ Placed(m) BY <1>3, <1>8, CallsPlaced
        <4>5. FALSE BY <2>6, <4>1, <4>2, <4>3, <4>4, BeforeIs, SoonerOrder DEF Placed
        <4> QED BY <4>5
      <3> QED BY <3>1, <3>2, <3>3
    <2> QED BY <2>5, <2>6
  <1>21. Pending(s, more) BY PendingStep
  <1>22. BuildOK(s, more, v)
    BY <1>4, <1>11, <1>15, <1>16, <1>17, <1>18, <1>19, <1>20, <1>21 DEF BuildOK
  <1> QED BY <1>22 DEF v

\* A call that the kernel can do keeps all of it.
LEMMA CallStep ==
  ASSUME NEW s, NEW done, NEW c, Upto(s, done, c), NEW w, BuildOK(s, done, w), CanDo(c, w)
  PROVE  BuildOK(s, done \cup {c}, After(c, w))
  <1>1. c.op \in {"add", "addveth", "find", "enslave", "netns", "move"}
    BY CallIs, UptoFacts DEF Upto
  <1>2. CASE c.op = "find"
    <2>1. After(c, w) = w BY <1>2 DEF After
    <2>2. w \in WorldType BY DEF BuildOK
    <2> QED BY <1>2, <2>1, <2>2, StillStep
  <1>3. CASE c.op = "netns"
    <2>1. c.name \in Namespace BY <1>3, CallIs, UptoFacts DEF Upto, NetnsOK
    <2>2. w \in WorldType BY DEF BuildOK
    <2>3. After(c, w) \in WorldType /\ After(c, w).devices = w.devices
          /\ After(c, w).namespaces = w.namespaces \cup {c.name}
      BY <1>3, <2>1, <2>2, AfterNetns
    <2> QED BY <1>3, <2>3, StillStep
  <1> QED BY <1>1, <1>2, <1>3, AddStep, PairStep, EnslaveStep, MoveStep

-----------------------------------------------------------------------------
(* The container before the construction.                                  *)

LEMMA SetToSeqFacts ==
  ASSUME NEW S, IsFiniteSet(S)
  PROVE  /\ SetToSeq(S) \in Seq(S)
         /\ \A i \in 1..Len(SetToSeq(S)) : \A j \in 1..Len(SetToSeq(S)) :
              SetToSeq(S)[i] = SetToSeq(S)[j] => i = j
         /\ \A x \in S : \E i \in 1..Len(SetToSeq(S)) : SetToSeq(S)[i] = x
  <1> DEFINE n == Cardinality(S)
             q == SetToSeq(S)
  <1>1. n \in Nat /\ ExistsBijection(1..n, S) BY FS_CardinalityType
  <1>2. PICK f \in [1..n -> S] : IsInjective(f)
    BY <1>1 DEF ExistsBijection, Bijection, Injection, IsInjective
  <1>3. q \in [1..n -> S] /\ IsInjective(q) BY <1>2 DEF SetToSeq
  <1>4. \A x \in S : \E i \in 1..n : q[i] = x
    <2> HIDE DEF q
    <2>1. q \in Injection(1..n, S) BY <1>3 DEF Injection, IsInjective
    <2>2. 1 \in Int /\ n \in Int BY <1>1
    <2>3. Cardinality(1..n) = n BY <1>1, <2>2, FS_Interval
    <2>4. q \in Surjection(1..n, S) BY <2>1, <2>3, FS_Injection
    <2> QED BY <2>4 DEF Surjection
  <1> HIDE DEF q, n
  <1>5. q \in Seq(S) /\ Len(q) = n BY <1>1, <1>3
  <1>6. \A i \in 1..n : \A j \in 1..n : q[i] = q[j] => i = j BY <1>3 DEF IsInjective
  <1> QED BY <1>4, <1>5, <1>6 DEF q

LEMMA StartFacts ==
  /\ Start \in WorldType /\ Start.namespaces = {} /\ Unique(Start)
  /\ \A i \in 1..Count(Start) :
       /\ Start.devices[i].home = None /\ Start.devices[i].name \in Initial
       /\ Start.devices[i].master = 0 /\ Start.devices[i].mate = 0
  <1> DEFINE links == {DeviceAt(n, "link", 0) : n \in LinkDevice}
             lo == DeviceAt(Lo, "loopback", 0)
             q == SetToSeq(links)
             d == Start.devices
  <1>1. IsFiniteSet(links)
    <2> DEFINE f == [n \in LinkDevice |-> DeviceAt(n, "link", 0)]
    <2>1. f \in Surjection(LinkDevice, links) BY DEF Surjection
    <2> QED BY <2>1, LinkAssumption, FS_Surjection
  <1>2. /\ \A x \in links : /\ x \in DeviceType /\ x.name \in LinkDevice /\ x.home = None
                            /\ x.master = 0 /\ x.mate = 0
        /\ \A x \in links : \A y \in links : x.name = y.name => x = y
        /\ lo \in DeviceType /\ lo.name = Lo /\ lo.home = None /\ lo.master = 0 /\ lo.mate = 0
    BY NameAssumption DEF DeviceAt, DeviceType, Kinds, AnyName
  <1>3. q \in Seq(links) /\ \A i \in 1..Len(q) : \A j \in 1..Len(q) : q[i] = q[j] => i = j
    BY <1>1, SetToSeqFacts
  <1>4. d = <<lo>> \o q /\ Start.namespaces = {} BY DEF Start
  <1> HIDE DEF links, lo, q
  <1>5. q \in Seq(DeviceType)
    <2>1. links \subseteq DeviceType BY <1>2
    <2> QED BY <1>3, <2>1
  <1>6. d \in Seq(DeviceType) /\ Len(q) \in Nat /\ Len(d) = Len(q) + 1
        /\ d[1] = lo /\ \A i \in 2..Len(d) : d[i] = q[i - 1]
    BY <1>2, <1>4, <1>5
  <1>7. Start \in WorldType
    <2>1. Start = [devices |-> d, namespaces |-> {}] BY DEF Start
    <2> HIDE DEF d
    <2> QED BY <1>6, <2>1 DEF WorldType
  <1>8. \A i \in 1..Len(d) : i = 1 \/ (i \in 2..Len(d) /\ i - 1 \in 1..Len(q)) BY <1>6
  <1>9. \A i \in 2..Len(d) : d[i] \in links BY <1>3, <1>6, <1>8
  <1>10. \A i \in 1..Len(d) :
           d[i].home = None /\ d[i].name \in Initial /\ d[i].master = 0 /\ d[i].mate = 0
    BY <1>2, <1>6, <1>8, <1>9 DEF Initial
  <1>11. ASSUME NEW i \in 1..Len(d), NEW j \in 1..Len(d), d[i].name = d[j].name PROVE i = j
    <2>1. Lo \notin LinkDevice BY NameAssumption
    <2>2. CASE i = 1 /\ j = 1 BY <2>2
    <2>3. CASE i = 1 /\ j # 1 BY <1>2, <1>6, <1>8, <1>9, <1>11, <2>1, <2>3
    <2>4. CASE i # 1 /\ j = 1 BY <1>2, <1>6, <1>8, <1>9, <1>11, <2>1, <2>4
    <2>5. CASE i # 1 /\ j # 1
      <3>1. d[i] = d[j] BY <1>2, <1>8, <1>9, <1>11, <2>5
      <3>2. q[i - 1] = q[j - 1] /\ i - 1 \in 1..Len(q) /\ j - 1 \in 1..Len(q)
        BY <1>6, <1>8, <2>5, <3>1
      <3>3. i - 1 = j - 1 BY <1>3, <3>2
      <3> QED BY <3>3
    <2> QED BY <2>2, <2>3, <2>4, <2>5
  <1> QED BY <1>4, <1>7, <1>10, <1>11 DEF Unique, Count

LEMMA StartOK == ASSUME NEW s, Accepted(s) PROVE BuildOK(s, {}, Start)
  BY StartFacts
  DEF BuildOK, Origins, Homes, Masters, Mates, Enslaved, Pairs, Pending

-----------------------------------------------------------------------------
(* Sets of calls: finite, each with a last call, and one at a time.        *)

\* Of some sets in a finite set, one has no other of them in it.
LEMMA MinSubset ==
  ASSUME NEW S, IsFiniteSet(S), NEW T \in SUBSET SUBSET S, T # {}
  PROVE  \E x \in T : \A y \in T : y \subseteq x => y = x
  <1>1. T \subseteq FiniteSubsetsOf(S) BY FS_Subset DEF FiniteSubsetsOf
  <1>2. PICK x \in T : \A y \in T : ~ (<<y, x>> \in StrictSubsetOrdering(S))
    BY <1>1, FS_StrictSubsetOrderingWellFounded, WFMin
  <1>3. ASSUME NEW y \in T, y \subseteq x PROVE y = x
    BY <1>2, <1>3 DEF StrictSubsetOrdering
  <1> QED BY <1>3

Recursion(S, V, start, D, G) ==
    /\ IsFiniteSet(S) /\ start \in V
    /\ D \in [SUBSET S -> SUBSET S]
    /\ \A x \in SUBSET S : D[x] \subseteq x /\ (x # {} => D[x] # x)
    /\ G \in [(SUBSET S) \X V -> V]

Solves(f, S, V, start, D, G) ==
    /\ f \in [SUBSET S -> V]
    /\ \A x \in SUBSET S : f[x] = IF x = {} THEN start ELSE G[<<x, f[D[x]]>>]

\* A recursion over the sets in a finite set, from x down to a smaller set
\* D[x], has a solution: the least relation of sets and results that is closed
\* under it has one result for each.
LEMMA RecursionExists ==
  ASSUME NEW S, NEW V, NEW start, NEW D, NEW G, Recursion(S, V, start, D, G)
  PROVE  \E f : Solves(f, S, V, start, D, G)
  <1>0. /\ IsFiniteSet(S) /\ start \in V
        /\ D \in [SUBSET S -> SUBSET S]
        /\ \A x \in SUBSET S : D[x] \subseteq x /\ (x # {} => D[x] # x)
        /\ G \in [(SUBSET S) \X V -> V]
    BY DEF Recursion
  <1> DEFINE P == SUBSET S
             Closed(R) == /\ <<{}, start>> \in R
                          /\ \A x \in P \ {{}} : \A v \in V :
                               <<D[x], v>> \in R => <<x, G[<<x, v>>]>> \in R
             L == {p \in P \X V : \A R \in SUBSET (P \X V) : Closed(R) => p \in R}
             One(x) == \E v \in V : <<x, v>> \in L /\ \A u \in V : <<x, u>> \in L => u = v
             Result(x) == CHOOSE v \in V : <<x, v>> \in L
             f == [x \in P |-> Result(x)]
  <1>1. L \in SUBSET (P \X V) OBVIOUS
  <1>2. \A p \in P \X V : p \in L <=> \A R \in SUBSET (P \X V) : Closed(R) => p \in R OBVIOUS
  <1>3. {} \in P /\ \A x \in P : D[x] \in P BY <1>0
  <1>4. \A x \in P : \A v \in V : G[<<x, v>>] \in V BY <1>0
  <1> HIDE DEF P
  <1>5. Closed(L)
    <2>1. <<{}, start>> \in L BY <1>0, <1>2, <1>3
    <2>2. ASSUME NEW x \in P \ {{}}, NEW v \in V, <<D[x], v>> \in L
          PROVE  <<x, G[<<x, v>>]>> \in L
      <3>1. <<D[x], v>> \in P \X V /\ <<x, G[<<x, v>>]>> \in P \X V BY <1>3, <1>4
      <3>2. ASSUME NEW R \in SUBSET (P \X V), Closed(R) PROVE <<x, G[<<x, v>>]>> \in R
        BY <1>2, <2>2, <3>1, <3>2
      <3> QED BY <1>2, <3>1, <3>2
    <2> QED BY <2>1, <2>2
  <1> HIDE DEF L
  <1>6. ASSUME NEW x \in P, NEW u \in V, <<x, u>> \in L,
               x = {} => u # start,
               x # {} => \A v \in V : <<D[x], v>> \in L => u # G[<<x, v>>]
        PROVE  FALSE
    <2> DEFINE R == L \ {<<x, u>>}
    <2>1. R \in SUBSET (P \X V) BY <1>1
    <2>2. <<{}, start>> \in R BY <1>5, <1>6
    <2>3. ASSUME NEW y \in P \ {{}}, NEW v \in V, <<D[y], v>> \in R
          PROVE  <<y, G[<<y, v>>]>> \in R
      <3>1. <<y, G[<<y, v>>]>> \in L BY <1>5, <2>3
      <3>2. <<y, G[<<y, v>>]>> # <<x, u>> BY <1>6, <2>3
      <3> QED BY <3>1, <3>2
    <2>4. Closed(R) BY <2>2, <2>3
    <2> HIDE DEF Closed
    <2>5. <<x, u>> \in R
      <3>1. <<x, u>> \in P \X V OBVIOUS
      <3> HIDE DEF R
      <3> QED BY <1>2, <1>6, <2>1, <2>4, <3>1
    <2> QED BY <2>5
  <1>7. One({})
    <2>1. <<{}, start>> \in L BY <1>5
    <2> QED BY <1>0, <1>3, <1>6, <2>1
  <1>8. ASSUME NEW x \in P, x # {}, One(D[x]) PROVE One(x)
    <2>1. PICK v \in V : <<D[x], v>> \in L /\ \A u \in V : <<D[x], u>> \in L => u = v BY <1>8
    <2>2. <<x, G[<<x, v>>]>> \in L /\ G[<<x, v>>] \in V BY <1>4, <1>5, <1>8, <2>1
    <2>3. \A u \in V : <<x, u>> \in L => u = G[<<x, v>>] BY <1>6, <1>8, <2>1
    <2> QED BY <2>2, <2>3
  <1> HIDE DEF One
  <1>9. \A x \in P : One(x)
    <2> DEFINE T == {x \in P : ~ One(x)}
    <2> SUFFICES ASSUME T # {} PROVE FALSE OBVIOUS
    <2>0. T \in SUBSET SUBSET S BY DEF P
    <2> HIDE DEF T
    <2>1. PICK x \in T : \A y \in T : y \subseteq x => y = x BY <1>0, <2>0, MinSubset
    <2>2. x # {} /\ x \in P BY <1>7, <2>1 DEF T
    <2>3. D[x] \in P /\ D[x] \subseteq x /\ D[x] # x BY <1>0, <1>3, <2>2 DEF P
    <2> QED BY <1>8, <2>1, <2>2, <2>3 DEF T
  <1>10. ASSUME NEW x \in P PROVE f[x] \in V /\ <<x, f[x]>> \in L
    <2>1. \E v \in V : <<x, v>> \in L BY <1>9 DEF One
    <2>2. Result(x) \in V /\ <<x, Result(x)>> \in L BY <2>1
    <2> QED BY <2>2
  <1> HIDE DEF Result
  <1>11. ASSUME NEW x \in P, NEW u \in V, <<x, u>> \in L PROVE u = f[x]
    BY <1>9, <1>10, <1>11 DEF One
  <1>12. f = [x \in P |-> f[x]] OBVIOUS
  <1> HIDE DEF f
  <1>13. ASSUME NEW x \in P PROVE f[x] = IF x = {} THEN start ELSE G[<<x, f[D[x]]>>]
    <2>1. CASE x = {} BY <1>0, <1>5, <1>11, <2>1
    <2>2. CASE x # {}
      <3>1. f[D[x]] \in V /\ <<D[x], f[D[x]]>> \in L BY <1>3, <1>10
      <3>2. <<x, G[<<x, f[D[x]]>>]>> \in L BY <1>5, <2>2, <3>1
      <3>3. G[<<x, f[D[x]]>>] \in V BY <1>4, <3>1
      <3> QED BY <1>11, <2>2, <3>2, <3>3
    <2> QED BY <2>1, <2>2
  <1>14. f \in [P -> V] BY <1>10, <1>12
  <1> QED BY <1>13, <1>14 DEF P, Solves

\* The union of finitely many finite sets is finite.
LEMMA UnionFinite ==
  ASSUME NEW n \in Nat, NEW f, \A i \in 1..n : IsFiniteSet(f[i])
  PROVE  IsFiniteSet(UNION {f[i] : i \in 1..n})
  <1> DEFINE T == {f[i] : i \in 1..n}
             g == [i \in 1..n |-> f[i]]
  <1>1. g \in Surjection(1..n, T) BY DEF Surjection
  <1>0. n \in Int /\ 1 \in Int OBVIOUS
  <1>2. IsFiniteSet(1..n) BY <1>0, FS_Interval
  <1>3. IsFiniteSet(T) BY <1>1, <1>2, FS_Surjection
  <1> QED BY <1>3, FS_UNION

\* A section makes finitely many calls.
LEMMA CallFinite ==
  ASSUME NEW at, NEW n, NEW op, NEW name, NEW arg PROVE IsFiniteSet(Call(at, n, op, name, arg))
  BY FS_Singleton DEF Call

LEMMA ConfigureFinite ==
  ASSUME NEW at, NEW name, NEW master PROVE IsFiniteSet(Configure(at, name, master))
  BY CallFinite, FS_EmptySet, FS_Union DEF Configure, When

LEMMA MovePeerFinite ==
  ASSUME NEW at, NEW peer, NEW ns PROVE IsFiniteSet(MovePeer(at, peer, ns))
  BY CallFinite, FS_Union DEF MovePeer

LEMMA BondFinite ==
  ASSUME NEW i, NEW b \in Bond PROVE IsFiniteSet(BondCalls(i, b))
  <1> DEFINE n == Len(b.ports)
             f == [j \in 1..n |-> Call(<<2, i, 1, j>>, 1, "enslave", b.ports[j], b.name)]
             ports == UNION {f[j] : j \in 1..n}
  <1>1. b.ports \in Seq(Name) BY DEF Bond
  <1>2. n \in Nat /\ DOMAIN b.ports = 1..n BY <1>1
  <1>3. \A j \in 1..n : IsFiniteSet(f[j]) BY CallFinite
  <1> HIDE DEF f
  <1>4. IsFiniteSet(ports) BY <1>2, <1>3, UnionFinite
  <1>5. BondCalls(i, b) = (Call(<<2, i, 0, 0>>, 1, "add", b.name, "bond")
                            \cup Configure(<<2, i, 0, 0>>, b.name, None)) \cup ports
    BY <1>2 DEF BondCalls, Each, f
  <1> HIDE DEF ports
  <1> QED BY <1>4, <1>5, CallFinite, ConfigureFinite, FS_Union

LEMMA BridgeFinite ==
  ASSUME NEW i, NEW b \in Bridge PROVE IsFiniteSet(BridgeCalls(i, b))
  <1> DEFINE n == Len(b.ports)
             f == [j \in 1..n |-> Call(<<5, i, 1, j>>, 1, "enslave", b.ports[j], b.name)]
             ports == UNION {f[j] : j \in 1..n}
             m == Len(b.vxlans)
             g == [j \in 1..m |-> VxlanCalls(<<5, i, 2, j>>, b.vxlans[j], b.name)]
             vxlans == UNION {g[j] : j \in 1..m}
             l == Len(b.namespaces)
             h == [j \in 1..l |-> BridgeNamespaceCalls(<<5, i, 3, j>>, b.name, b.namespaces[j])]
             namespaces == UNION {h[j] : j \in 1..l}
  <1>1. b.ports \in Seq(Name) /\ b.vxlans \in Seq(Name) /\ b.namespaces \in Seq(Namespace)
    BY DEF Bridge
  <1>2. /\ n \in Nat /\ DOMAIN b.ports = 1..n
        /\ m \in Nat /\ DOMAIN b.vxlans = 1..m
        /\ l \in Nat /\ DOMAIN b.namespaces = 1..l
    BY <1>1
  <1>3. \A j \in 1..n : IsFiniteSet(f[j]) BY CallFinite
  <1>4. \A j \in 1..m : IsFiniteSet(g[j])
    BY CallFinite, ConfigureFinite, FS_Union DEF VxlanCalls
  <1>5. \A j \in 1..l : IsFiniteSet(h[j])
    BY CallFinite, ConfigureFinite, MovePeerFinite, FS_Union DEF BridgeNamespaceCalls
  <1> HIDE DEF f, g, h
  <1>6. IsFiniteSet(ports) /\ IsFiniteSet(vxlans) /\ IsFiniteSet(namespaces)
    BY <1>2, <1>3, <1>4, <1>5, UnionFinite
  <1>7. BridgeCalls(i, b) = (((Call(<<5, i, 0, 0>>, 1, "add", b.name, "bridge")
                               \cup Configure(<<5, i, 0, 0>>, b.name, b.master))
                              \cup ports) \cup vxlans) \cup namespaces
    BY <1>2 DEF BridgeCalls, Each, f, g, h
  <1> HIDE DEF ports, vxlans, namespaces
  <1> QED BY <1>6, <1>7, CallFinite, ConfigureFinite, FS_Union

LEMMA CallsFinite == ASSUME NEW s \in Linux PROVE IsFiniteSet(CallsOf(s))
  <1> DEFINE vrf == [i \in DOMAIN s.vrfs |-> VrfCalls(i, s.vrfs[i])]
             bond == [i \in DOMAIN s.bonds |-> BondCalls(i, s.bonds[i])]
             bridge == [i \in DOMAIN s.bridges |-> BridgeCalls(i, s.bridges[i])]
             master == [i \in DOMAIN s.bonds |-> BondMasterCalls(i, s.bonds[i])]
             interface == [i \in DOMAIN s.interfaces |-> InterfaceCalls(i, s.interfaces[i])]
             veth == [i \in DOMAIN s.veths |-> VethCalls(i, s.veths[i])]
             route == [i \in DOMAIN s.routes |-> RouteCalls(i, s.routes[i])]
  <1>1. /\ s.vrfs \in Seq(Vrf) /\ s.bonds \in Seq(Bond) /\ s.interfaces \in Seq(Interface)
        /\ s.veths \in Seq(Veth) /\ s.routes \in Seq(Name \cup {None}) /\ s.bridges \in Seq(Bridge)
    BY DEF Linux
  <1>2. /\ Len(s.vrfs) \in Nat /\ DOMAIN s.vrfs = 1..Len(s.vrfs)
        /\ Len(s.bonds) \in Nat /\ DOMAIN s.bonds = 1..Len(s.bonds)
        /\ Len(s.bridges) \in Nat /\ DOMAIN s.bridges = 1..Len(s.bridges)
        /\ Len(s.interfaces) \in Nat /\ DOMAIN s.interfaces = 1..Len(s.interfaces)
        /\ Len(s.veths) \in Nat /\ DOMAIN s.veths = 1..Len(s.veths)
        /\ Len(s.routes) \in Nat /\ DOMAIN s.routes = 1..Len(s.routes)
    BY <1>1
  <1>3. \A i \in DOMAIN s.vrfs : IsFiniteSet(vrf[i])
    BY CallFinite, ConfigureFinite, FS_Union DEF VrfCalls
  <1>4. \A i \in DOMAIN s.bonds : IsFiniteSet(bond[i]) BY <1>1, BondFinite
  <1>5. \A i \in DOMAIN s.bridges : IsFiniteSet(bridge[i]) BY <1>1, BridgeFinite
  <1>6. \A i \in DOMAIN s.bonds : IsFiniteSet(master[i])
    BY CallFinite, FS_EmptySet DEF BondMasterCalls, When
  <1>7. \A i \in DOMAIN s.interfaces : IsFiniteSet(interface[i])
    BY ConfigureFinite DEF InterfaceCalls
  <1>8. \A i \in DOMAIN s.veths : IsFiniteSet(veth[i])
    BY CallFinite, ConfigureFinite, MovePeerFinite, FS_EmptySet, FS_Union DEF VethCalls, When
  <1>9. \A i \in DOMAIN s.routes : IsFiniteSet(route[i])
    BY CallFinite, FS_EmptySet DEF RouteCalls, When
  <1> DEFINE vrfs == UNION {vrf[i] : i \in DOMAIN s.vrfs}
             bonds == UNION {bond[i] : i \in DOMAIN s.bonds}
             bridges == UNION {bridge[i] : i \in DOMAIN s.bridges}
             masters == UNION {master[i] : i \in DOMAIN s.bonds}
             interfaces == UNION {interface[i] : i \in DOMAIN s.interfaces}
             veths == UNION {veth[i] : i \in DOMAIN s.veths}
             routes == UNION {route[i] : i \in DOMAIN s.routes}
  <1>10. CallsOf(s) = vrfs \cup bonds \cup bridges \cup masters \cup interfaces
                      \cup veths \cup routes
    <2>1. Each(VrfCalls, s.vrfs) = vrfs BY DEF Each
    <2>2. Each(BondCalls, s.bonds) = bonds BY DEF Each
    <2>3. Each(BridgeCalls, s.bridges) = bridges BY DEF Each
    <2>4. Each(BondMasterCalls, s.bonds) = masters BY DEF Each
    <2>5. Each(InterfaceCalls, s.interfaces) = interfaces BY DEF Each
    <2>6. Each(VethCalls, s.veths) = veths BY DEF Each
    <2>7. Each(RouteCalls, s.routes) = routes BY DEF Each
    <2> HIDE DEF vrfs, bonds, bridges, masters, interfaces, veths, routes
    <2> QED BY <2>1, <2>2, <2>3, <2>4, <2>5, <2>6, <2>7 DEF CallsOf
  <1> HIDE DEF vrf, bond, bridge, master, interface, veth, route
  <1>11. IsFiniteSet(vrfs) /\ IsFiniteSet(bonds) /\ IsFiniteSet(bridges) /\ IsFiniteSet(masters)
         /\ IsFiniteSet(interfaces) /\ IsFiniteSet(veths) /\ IsFiniteSet(routes)
    BY <1>2, <1>3, <1>4, <1>5, <1>6, <1>7, <1>8, <1>9, UnionFinite
  <1> HIDE DEF vrfs, bonds, bridges, masters, interfaces, veths, routes
  <1> QED BY <1>10, <1>11, FS_Union

\* No two calls have one place and step: they are of one entry.
EntryCalls(s, at) ==
    CASE at[1] = 1 -> VrfCalls(at[2], s.vrfs[at[2]])
      [] at[1] = 2 -> BondCalls(at[2], s.bonds[at[2]])
      [] at[1] = 5 -> BridgeCalls(at[2], s.bridges[at[2]])
      [] at[1] = 6 -> BondMasterCalls(at[2], s.bonds[at[2]])
      [] at[1] = 7 -> InterfaceCalls(at[2], s.interfaces[at[2]])
      [] at[1] = 8 -> VethCalls(at[2], s.veths[at[2]])
      [] at[1] = 9 -> RouteCalls(at[2], s.routes[at[2]])

LEMMA BondOnce ==
  ASSUME NEW i, NEW b, NEW c \in BondCalls(i, b), NEW d \in BondCalls(i, b),
         c.at = d.at, c.step = d.step
  PROVE  c.at[1] = 2 /\ c.at[2] = i /\ c = d
  <1>1. ASSUME NEW x \in BondCalls(i, b)
        PROVE  \/ x = ACall(<<2, i, 0, 0>>, 1, "add", b.name, "bond")
               \/ x = ACall(<<2, i, 0, 0>>, 2, "find", b.name, None)
               \/ x = ACall(<<2, i, 1, x.at[4]>>, 1, "enslave", b.ports[x.at[4]], b.name)
    BY <1>1 DEF BondCalls, Configure, Call, When, ACall, Each
  <1> QED BY <1>1 DEF ACall

LEMMA ConfigureIs ==
  ASSUME NEW at, NEW name, NEW master, NEW c \in Configure(at, name, master)
  PROVE  \/ c = ACall(at, 2, "find", name, None)
         \/ master # None /\ c = ACall(at, 3, "enslave", name, master)
  BY DEF Configure, Call, When, ACall

LEMMA VxlanOnce ==
  ASSUME NEW at, NEW name, NEW bridge, NEW c \in VxlanCalls(at, name, bridge),
         NEW d \in VxlanCalls(at, name, bridge), c.step = d.step
  PROVE  c.at = at /\ c = d
  <1>1. ASSUME NEW x \in VxlanCalls(at, name, bridge)
        PROVE  \/ x = ACall(at, 1, "add", name, "vxlan")
               \/ x = ACall(at, 2, "find", name, None)
               \/ x = ACall(at, 3, "enslave", name, bridge)
    BY <1>1, ConfigureIs DEF VxlanCalls, Call, ACall
  <1> QED BY <1>1 DEF ACall

LEMMA NamespaceOnce ==
  ASSUME NEW at, NEW bridge, NEW ns, NEW c \in BridgeNamespaceCalls(at, bridge, ns),
         NEW d \in BridgeNamespaceCalls(at, bridge, ns), c.step = d.step
  PROVE  c.at = at /\ c = d
  <1>1. ASSUME NEW x \in BridgeNamespaceCalls(at, bridge, ns)
        PROVE  \/ x = ACall(at, 1, "addveth", HostVeth(bridge, ns), PeerVeth(bridge, ns))
               \/ x = ACall(at, 2, "find", HostVeth(bridge, ns), None)
               \/ x = ACall(at, 3, "enslave", HostVeth(bridge, ns), bridge)
               \/ x = ACall(at, 4, "netns", ns, None)
               \/ x = ACall(at, 5, "move", PeerVeth(bridge, ns), ns)
    BY <1>1, ConfigureIs DEF BridgeNamespaceCalls, MovePeer, Call, ACall
  <1> QED BY <1>1 DEF ACall

LEMMA VethOnce ==
  ASSUME NEW i, NEW v, NEW c \in VethCalls(i, v), NEW d \in VethCalls(i, v), c.step = d.step
  PROVE  c.at = <<8, i, 0, 0>> /\ c = d
  <1> DEFINE at == <<8, i, 0, 0>>
  <1>1. ASSUME NEW x \in VethCalls(i, v)
        PROVE  \/ x = ACall(at, 1, "addveth", v.name, v.peer)
               \/ x = ACall(at, 2, "find", v.name, None)
               \/ x = ACall(at, 3, "enslave", v.name, v.master)
               \/ x = ACall(at, 4, "netns", v.namespace, None)
               \/ x = ACall(at, 5, "move", v.peer, v.namespace)
    BY <1>1, ConfigureIs DEF VethCalls, MovePeer, When, Call, ACall
  <1> HIDE DEF at
  <1>2. c.at = at /\ c = d BY <1>1 DEF ACall
  <1> QED BY <1>2 DEF at

LEMMA FourParts ==
  ASSUME NEW at, NEW n, NEW i, NEW m, NEW j, at = <<n, i, m, j>>
  PROVE  at[1] = n /\ at[2] = i /\ at[3] = m /\ at[4] = j
  OBVIOUS

LEMMA BridgeOnce ==
  ASSUME NEW i, NEW b, NEW c \in BridgeCalls(i, b), NEW d \in BridgeCalls(i, b),
         c.at = d.at, c.step = d.step
  PROVE  c.at[1] = 5 /\ c.at[2] = i /\ c = d
  <1> DEFINE Itself(x) == \/ x = ACall(<<5, i, 0, 0>>, 1, "add", b.name, "bridge")
                          \/ x = ACall(<<5, i, 0, 0>>, 2, "find", b.name, None)
                          \/ x = ACall(<<5, i, 0, 0>>, 3, "enslave", b.name, b.master)
             Port(at) == ACall(at, 1, "enslave", b.ports[at[4]], b.name)
             Vxlan(at) == VxlanCalls(at, b.vxlans[at[4]], b.name)
             Inner(at) == BridgeNamespaceCalls(at, b.name, b.namespaces[at[4]])
             At(at, n) == at[1] = 5 /\ at[2] = i /\ at[3] = n
             Is(x) == \/ Itself(x) /\ At(x.at, 0)
                      \/ x = Port(x.at) /\ At(x.at, 1)
                      \/ x \in Vxlan(x.at) /\ At(x.at, 2)
                      \/ x \in Inner(x.at) /\ At(x.at, 3)
  <1>1. ASSUME NEW x \in BridgeCalls(i, b) PROVE Is(x)
    <2>1. \/ x = ACall(<<5, i, 0, 0>>, 1, "add", b.name, "bridge")
          \/ x \in Configure(<<5, i, 0, 0>>, b.name, b.master)
          \/ \E j : x = ACall(<<5, i, 1, j>>, 1, "enslave", b.ports[j], b.name)
          \/ \E j : x \in VxlanCalls(<<5, i, 2, j>>, b.vxlans[j], b.name)
          \/ \E j : x \in BridgeNamespaceCalls(<<5, i, 3, j>>, b.name, b.namespaces[j])
      BY <1>1 DEF BridgeCalls, Call, ACall, Each
    <2>2. CASE Itself(x)
      <3>1. x.at = <<5, i, 0, 0>> BY <2>2 DEF ACall
      <3> QED BY <2>2, <3>1, FourParts
    <2>3. ASSUME NEW j, x = ACall(<<5, i, 1, j>>, 1, "enslave", b.ports[j], b.name) PROVE Is(x)
      <3>1. x.at = <<5, i, 1, j>> BY <2>3 DEF ACall
      <3>2. At(x.at, 1) /\ x.at[4] = j BY <3>1, FourParts
      <3>3. x = Port(x.at) BY <2>3, <3>1, <3>2
      <3> QED BY <3>2, <3>3
    <2>4. ASSUME NEW j, x \in VxlanCalls(<<5, i, 2, j>>, b.vxlans[j], b.name) PROVE Is(x)
      <3>1. x.at = <<5, i, 2, j>> BY <2>4, VxlanOnce
      <3>2. At(x.at, 2) /\ x.at[4] = j BY <3>1, FourParts
      <3>3. x \in Vxlan(x.at) BY <2>4, <3>1, <3>2
      <3> QED BY <3>2, <3>3
    <2>5. ASSUME NEW j, x \in BridgeNamespaceCalls(<<5, i, 3, j>>, b.name, b.namespaces[j])
          PROVE  Is(x)
      <3>1. x.at = <<5, i, 3, j>> BY <2>5, NamespaceOnce
      <3>2. At(x.at, 3) /\ x.at[4] = j BY <3>1, FourParts
      <3>3. x \in Inner(x.at) BY <2>5, <3>1, <3>2
      <3> QED BY <3>2, <3>3
    <2>6. x \in Configure(<<5, i, 0, 0>>, b.name, b.master) => Itself(x) BY ConfigureIs
    <2>7. x = ACall(<<5, i, 0, 0>>, 1, "add", b.name, "bridge") => Itself(x) OBVIOUS
    <2> HIDE DEF Is, Itself
    <2> QED BY <2>1, <2>2, <2>3, <2>4, <2>5, <2>6, <2>7, Zenon
  <1>2. Is(c) /\ Is(d) BY <1>1
  <1>3. Itself(c) /\ Itself(d) => c = d BY DEF ACall
  <1>4. \A at : c = Port(at) /\ d = Port(at) => c = d OBVIOUS
  <1>5. \A at : c \in Vxlan(at) /\ d \in Vxlan(at) => c = d BY VxlanOnce
  <1>6. \A at : c \in Inner(at) /\ d \in Inner(at) => c = d BY NamespaceOnce
  <1> HIDE DEF Itself, Port, Vxlan, Inner
  <1> QED BY <1>2, <1>3, <1>4, <1>5, <1>6

LEMMA EntryIs ==
  ASSUME NEW s, NEW c \in CallsOf(s)
  PROVE  c.at[1] \in {1, 2, 5, 6, 7, 8, 9} /\ c \in EntryCalls(s, c.at)
  <1>1. ASSUME NEW i, c \in VrfCalls(i, s.vrfs[i]) PROVE c.at = <<1, i, 0, 0>>
    BY <1>1, ConfigureIs DEF VrfCalls, Call, ACall
  <1>2. ASSUME NEW i, c \in BondCalls(i, s.bonds[i]) PROVE c.at[1] = 2 /\ c.at[2] = i
    BY <1>2, BondOnce
  <1>3. ASSUME NEW i, c \in BridgeCalls(i, s.bridges[i]) PROVE c.at[1] = 5 /\ c.at[2] = i
    BY <1>3, BridgeOnce
  <1>4. ASSUME NEW i, c \in BondMasterCalls(i, s.bonds[i]) PROVE c.at = <<6, i, 0, 0>>
    BY <1>4 DEF BondMasterCalls, When, Call
  <1>5. ASSUME NEW i, c \in InterfaceCalls(i, s.interfaces[i]) PROVE c.at = <<7, i, 0, 0>>
    BY <1>5, ConfigureIs DEF InterfaceCalls, ACall
  <1>6. ASSUME NEW i, c \in VethCalls(i, s.veths[i]) PROVE c.at = <<8, i, 0, 0>>
    BY <1>6, VethOnce
  <1>7. ASSUME NEW i, c \in RouteCalls(i, s.routes[i]) PROVE c.at = <<9, i, 0, 0>>
    BY <1>7 DEF RouteCalls, When, Call
  <1>8. CASE \E i \in DOMAIN s.vrfs : c \in VrfCalls(i, s.vrfs[i])
    BY <1>1, <1>8 DEF EntryCalls
  <1>9. CASE \E i \in DOMAIN s.bonds : c \in BondCalls(i, s.bonds[i])
    BY <1>2, <1>9 DEF EntryCalls
  <1>10. CASE \E i \in DOMAIN s.bridges : c \in BridgeCalls(i, s.bridges[i])
    BY <1>3, <1>10 DEF EntryCalls
  <1>11. CASE \E i \in DOMAIN s.bonds : c \in BondMasterCalls(i, s.bonds[i])
    BY <1>4, <1>11 DEF EntryCalls
  <1>12. CASE \E i \in DOMAIN s.interfaces : c \in InterfaceCalls(i, s.interfaces[i])
    BY <1>5, <1>12 DEF EntryCalls
  <1>13. CASE \E i \in DOMAIN s.veths : c \in VethCalls(i, s.veths[i])
    BY <1>6, <1>13 DEF EntryCalls
  <1>14. CASE \E i \in DOMAIN s.routes : c \in RouteCalls(i, s.routes[i])
    BY <1>7, <1>14 DEF EntryCalls
  <1> QED BY <1>8, <1>9, <1>10, <1>11, <1>12, <1>13, <1>14, CallCases

LEMMA CallsOnce ==
  ASSUME NEW s, NEW c \in CallsOf(s), NEW d \in CallsOf(s), c.at = d.at, c.step = d.step
  PROVE  c = d
  <1> DEFINE i == c.at[2]
  <1>1. c.at[1] \in {1, 2, 5, 6, 7, 8, 9} /\ c \in EntryCalls(s, c.at) /\ d \in EntryCalls(s, c.at)
    BY EntryIs
  <1>2. CASE c.at[1] = 1
    <2>1. c \in VrfCalls(i, s.vrfs[i]) /\ d \in VrfCalls(i, s.vrfs[i])
      BY <1>1, <1>2 DEF EntryCalls
    <2>2. ASSUME NEW x \in VrfCalls(i, s.vrfs[i])
          PROVE  \/ x = ACall(<<1, i, 0, 0>>, 1, "add", s.vrfs[i], "vrf")
                 \/ x = ACall(<<1, i, 0, 0>>, 2, "find", s.vrfs[i], None)
      BY <2>2, ConfigureIs DEF VrfCalls, Call, ACall
    <2> QED BY <2>1, <2>2 DEF ACall
  <1>3. CASE c.at[1] = 2 BY <1>1, <1>3, BondOnce DEF EntryCalls
  <1>4. CASE c.at[1] = 5 BY <1>1, <1>4, BridgeOnce DEF EntryCalls
  <1>5. CASE c.at[1] = 6
    BY <1>1, <1>5 DEF EntryCalls, BondMasterCalls, When, Call
  <1>6. CASE c.at[1] = 7
    <2>1. c \in InterfaceCalls(i, s.interfaces[i]) /\ d \in InterfaceCalls(i, s.interfaces[i])
      BY <1>1, <1>6 DEF EntryCalls
    <2> QED BY <2>1, ConfigureIs DEF InterfaceCalls, ACall
  <1>7. CASE c.at[1] = 8 BY <1>1, <1>7, VethOnce DEF EntryCalls
  <1>8. CASE c.at[1] = 9 BY <1>1, <1>8 DEF EntryCalls, RouteCalls, When, Call
  <1> QED BY <1>1, <1>2, <1>3, <1>4, <1>5, <1>6, <1>7, <1>8

\* So a walk over calls is a line.
LEMMA CallsInLine ==
  ASSUME NEW s \in Linux, NEW c \in CallsOf(s), NEW d \in CallsOf(s), c # d
  PROVE  Before(c, d) \/ Before(d, c)
  <1>1. c.at \in Place /\ d.at \in Place /\ c.step \in Nat /\ d.step \in Nat
    BY CallsPlaced DEF Placed
  <1>2. CASE c.at = d.at
    <2>1. c.step # d.step BY <1>2, CallsOnce
    <2> QED BY <1>1, <1>2, <2>1, BeforeIs
  <1>3. CASE c.at # d.at
    <2>1. /\ c.at[1] \in Nat /\ c.at[2] \in Nat /\ c.at[3] \in Nat /\ c.at[4] \in Nat
          /\ d.at[1] \in Nat /\ d.at[2] \in Nat /\ d.at[3] \in Nat /\ d.at[4] \in Nat
          /\ (c.at[1] # d.at[1] \/ c.at[2] # d.at[2] \/ c.at[3] # d.at[3] \/ c.at[4] # d.at[4])
      BY <1>1, <1>3 DEF Place
    <2>2. Sooner(c, d) \/ Sooner(d, c) BY <1>1, <2>1, SoonerIs
    <2> QED BY <2>2, BeforeIs
  <1> QED BY <1>2, <1>3


\* A part of a construction has a last call.
LastOf(done) == CHOOSE c \in done : \A d \in done \ {c} : Before(d, c)

LEMMA LastIs ==
  ASSUME NEW s \in Linux, NEW done \in SUBSET CallsOf(s), done # {}
  PROVE  LastOf(done) \in done /\ \A d \in done \ {LastOf(done)} : Before(d, LastOf(done))
  <1> DEFINE Has(x) == \E c \in x : \A d \in x \ {c} : Before(d, c)
             T == {x \in SUBSET CallsOf(s) : x # {} /\ ~ Has(x)}
  <1>1. T = {}
    <2> SUFFICES ASSUME T # {} PROVE FALSE OBVIOUS
    <2>1. T \in SUBSET SUBSET CallsOf(s) /\ IsFiniteSet(CallsOf(s)) BY CallsFinite
    <2>2. PICK x \in T : \A y \in T : y \subseteq x => y = x
      <3> HIDE DEF T
      <3> QED BY <2>1, MinSubset
    <2>3. x \subseteq CallsOf(s) /\ x # {} /\ ~ Has(x) BY <2>2
    <2>4. PICK c \in x : TRUE BY <2>3
    <2>5. x \ {c} # {} BY <2>3, <2>4
    <2>6. Has(x \ {c})
      <3>1. x \ {c} \in SUBSET CallsOf(s) /\ x \ {c} \notin T BY <2>2, <2>3, <2>4
      <3> QED BY <2>5, <3>1
    <2>7. PICK l \in x \ {c} : \A d \in (x \ {c}) \ {l} : Before(d, l) BY <2>6
    <2>8. \A d \in x : Placed(d) BY <2>3, CallsPlaced
    <2>9. CASE Before(c, l)
      <3>1. \A d \in x \ {l} : Before(d, l) BY <2>7, <2>9
      <3> QED BY <2>3, <2>7, <3>1
    <2>10. CASE Before(l, c)
      <3>1. \A d \in x \ {c} : Before(d, c)
        <4> TAKE d \in x \ {c}
        <4> QED BY <2>4, <2>7, <2>8, <2>10, BeforeOrder
      <3> QED BY <2>3, <2>4, <3>1
    <2> QED BY <2>3, <2>4, <2>7, <2>9, <2>10, CallsInLine
  <1>2. Has(done) BY <1>1
  <1> QED BY <1>2 DEF LastOf

-----------------------------------------------------------------------------
(* The whole construction of any section.                                  *)

LEMMA StartFinds == \A name \in Initial : Find(Start, name) # 0
  <1> DEFINE links == {DeviceAt(n, "link", 0) : n \in LinkDevice}
             lo == DeviceAt(Lo, "loopback", 0)
             q == SetToSeq(links)
             d == Start.devices
  <1>1. IsFiniteSet(links)
    <2> DEFINE f == [n \in LinkDevice |-> DeviceAt(n, "link", 0)]
    <2>1. f \in Surjection(LinkDevice, links) BY DEF Surjection
    <2> QED BY <2>1, LinkAssumption, FS_Surjection
  <1>2. \A n \in LinkDevice : DeviceAt(n, "link", 0) \in links OBVIOUS
  <1>3. q \in Seq(links) /\ \A x \in links : \E i \in 1..Len(q) : q[i] = x BY <1>1, SetToSeqFacts
  <1>4. d = <<lo>> \o q BY DEF Start
  <1> HIDE DEF links, lo, q
  <1>5. Len(q) \in Nat /\ Len(d) = Len(q) + 1 /\ d[1] = lo /\ \A i \in 1..Len(q) : d[i + 1] = q[i]
    <2>1. q \in Seq(links \cup {lo}) /\ <<lo>> \in Seq(links \cup {lo}) BY <1>3
    <2> HIDE DEF d
    <2> QED BY <1>4, <2>1
  <1>6. Start \in WorldType /\ Count(Start) = Len(d) BY StartFacts DEF Count
  <1>7. Find(Start, Lo) # 0
    <2>1. lo.name = Lo /\ lo.home = None BY DEF lo, DeviceAt
    <2>2. 1 \in 1..Count(Start) BY <1>5, <1>6
    <2> QED BY <1>5, <1>6, <2>1, <2>2, FindFacts
  <1>8. ASSUME NEW n \in LinkDevice PROVE Find(Start, n) # 0
    <2>1. PICK i \in 1..Len(q) : q[i] = DeviceAt(n, "link", 0) BY <1>2, <1>3
    <2>2. i + 1 \in 1..Count(Start) /\ d[i + 1] = DeviceAt(n, "link", 0) BY <1>5, <1>6, <2>1
    <2>3. d[i + 1].name = n /\ d[i + 1].home = None BY <2>2 DEF DeviceAt
    <2> QED BY <1>6, <2>2, <2>3, FindFacts
  <1> QED BY <1>7, <1>8 DEF Initial

LEMMA BrokenIs ==
  /\ Broken \in WorldType /\ Unique(Broken)
  /\ Start # Broken
  <1>1. <<>> \in Seq(DeviceType) /\ Len(<<>>) = 0 OBVIOUS
  <1>2. Broken \in WorldType BY <1>1 DEF Broken, WorldType
  <1>3. Count(Broken) = 0 BY <1>1 DEF Broken, Count
  <1>4. Unique(Broken) BY <1>3 DEF Unique
  <1>5. Start # Broken
    <2>0. Find(Start, Lo) # 0 BY StartFinds DEF Initial
    <2>1. Find(Broken, Lo) \in 0..0 BY <1>2, <1>3, FindFacts
    <2> QED BY <2>0, <2>1
  <1> QED BY <1>2, <1>4, <1>5

\* What the kernel does with any call of a section, in any world.
LEMMA KernelStep ==
  ASSUME NEW s \in Linux, NEW c \in CallsOf(s), NEW w \in WorldType, Unique(w), CanDo(c, w)
  PROVE  LET v == After(c, w)
         IN  /\ v \in WorldType /\ Unique(v) /\ w.namespaces \subseteq v.namespaces
             /\ c.op = "netns" => c.name \in v.namespaces
             /\ \A name : Makes(c, name) => Find(v, name) # 0
             /\ \A name : Find(w, name) # 0 /\ ~ (c.op = "move" /\ c.name = name)
                            => Find(v, name) # 0
  <1> DEFINE v == After(c, w)
  <1>1. c.op \in {"add", "addveth", "find", "enslave", "netns", "move"} BY CallIs
  <1>2. CASE c.op = "add"
    <2>1. c.name \in Name /\ c.arg \in {"vrf", "bond", "bridge", "vxlan"} /\ Find(w, c.name) = 0
      BY <1>2, CallIs DEF AddOK, CanDo
    <2>2. /\ v \in WorldType /\ Grown(w, v) /\ Count(v) = Count(w) + 1
          /\ v.devices[Count(v)] = DeviceAt(c.name, c.arg, 0)
      BY <1>2, <2>1, AfterAdd
    <2> HIDE DEF v
    <2>3. Count(w) \in Nat /\ Count(v) \in 1..Count(v) BY <2>2, WorldFacts
    <2>4. v.devices[Count(v)].name = c.name /\ v.devices[Count(v)].home = None
      BY <2>2 DEF DeviceAt
    <2>5. Find(v, c.name) # 0 BY <2>2, <2>3, <2>4, FindFacts
    <2>6. Unique(v) /\ \A name : Find(w, name) # 0 => Find(v, name) # 0
      BY <2>2, GrownUnique
    <2>7. v.namespaces = w.namespaces BY <2>2 DEF Grown
    <2> QED BY <1>2, <2>2, <2>5, <2>6, <2>7 DEF Makes, v
  <1>3. CASE c.op = "addveth"
    <2>1. c.name \in AnyName /\ c.arg \in AnyName
      BY <1>3, MakesIs DEF Makes
    <2>2. Find(w, c.name) = 0 /\ Find(w, c.arg) = 0 /\ c.name # c.arg BY <1>3 DEF CanDo
    <2> DEFINE n == Count(w)
    <2>3. /\ v \in WorldType /\ Grown(w, v) /\ Count(v) = n + 2
          /\ v.devices[n + 1] = DeviceAt(c.name, "veth", n + 2)
          /\ v.devices[n + 2] = DeviceAt(c.arg, "veth", n + 1)
      BY <1>3, <2>1, <2>2, AfterPair
    <2> HIDE DEF v
    <2>4. n \in Nat BY WorldFacts
    <2> HIDE DEF n
    <2>5. n + 1 \in 1..Count(v) /\ n + 2 \in 1..Count(v) BY <2>3, <2>4
    <2>6. /\ v.devices[n + 1].name = c.name /\ v.devices[n + 1].home = None
          /\ v.devices[n + 2].name = c.arg /\ v.devices[n + 2].home = None
      BY <2>3 DEF DeviceAt
    <2>7. Find(v, c.name) # 0 /\ Find(v, c.arg) # 0 BY <2>3, <2>5, <2>6, FindFacts
    <2>8. Unique(v) /\ \A name : Find(w, name) # 0 => Find(v, name) # 0
      BY <2>3, GrownUnique
    <2>9. v.namespaces = w.namespaces BY <2>3 DEF Grown
    <2> QED BY <1>3, <2>3, <2>7, <2>8, <2>9 DEF Makes, v
  <1>4. CASE c.op = "find"
    <2>1. v = w BY <1>4 DEF After
    <2> QED BY <1>4, <2>1 DEF Makes
  <1>5. CASE c.op = "enslave"
    <2>1. Find(w, c.name) # 0 /\ Find(w, c.arg) # 0 BY <1>5 DEF CanDo
    <2>2. /\ v \in WorldType /\ Count(v) = Count(w) /\ v.namespaces = w.namespaces
          /\ \A i \in 1..Count(w) :
               v.devices[i] = IF i = Find(w, c.name)
                              THEN [w.devices[i] EXCEPT !.master = Find(w, c.arg)]
                              ELSE w.devices[i]
      BY <1>5, <2>1, AfterEnslave
    <2> HIDE DEF v
    <2>3. \A i \in 1..Count(w) : w.devices[i] \in DeviceType BY WorldFacts
    <2>4. \A i \in 1..Count(w) : /\ v.devices[i].name = w.devices[i].name
                                 /\ v.devices[i].home = w.devices[i].home
      BY <2>2, <2>3 DEF DeviceType
    <2>5. 0 \notin 1..Count(w) /\ Count(w) \in Nat BY WorldFacts
    <2>6. Unique(v) /\ \A name : Find(w, name) # 0 => Find(v, name) = Find(w, name)
      <3> DEFINE gone == 0
      <3>1. \A i \in 1..Count(w) : /\ v.devices[i].name = w.devices[i].name
                                   /\ i # gone => v.devices[i].home = w.devices[i].home
                                   /\ i = gone => v.devices[i].home # None
        BY <2>4, <2>5
      <3>2. v \in WorldType /\ Count(v) = Count(w) BY <2>2
      <3> HIDE DEF gone
      <3>3. Unique(v) /\ \A name : Find(w, name) # gone => Find(v, name) = Find(w, name)
        BY <3>1, <3>2, SameFind
      <3> QED BY <3>3 DEF gone
    <2> QED BY <1>5, <2>2, <2>6 DEF Makes, v
  <1>6. CASE c.op = "netns"
    <2>1. c.name \in Namespace BY <1>6, CallIs DEF NetnsOK
    <2>2. v \in WorldType /\ v.devices = w.devices /\ v.namespaces = w.namespaces \cup {c.name}
      BY <1>6, <2>1, AfterNetns
    <2> HIDE DEF v
    <2>3. Unique(v) /\ \A name : Find(v, name) = Find(w, name) BY <2>2 DEF Unique, Find, Count
    <2> QED BY <1>6, <2>2, <2>3 DEF Makes, v
  <1>7. CASE c.op = "move"
    <2>1. Find(w, c.name) # 0 /\ c.arg \in Namespace BY <1>7, CallIs DEF MoveOK, CanDo
    <2> DEFINE x == Find(w, c.name)
    <2>2. /\ v \in WorldType /\ Count(v) = Count(w) /\ v.namespaces = w.namespaces
          /\ \A i \in 1..Count(w) :
               v.devices[i] = IF i = x THEN [w.devices[i] EXCEPT !.home = c.arg, !.master = 0]
                              ELSE w.devices[i]
      BY <1>7, <2>1, AfterMove
    <2> HIDE DEF v
    <2>3. \A i \in 1..Count(w) : w.devices[i] \in DeviceType BY WorldFacts
    <2>4. c.arg # None BY <2>1, NoneAssumption
    <2>5. ASSUME NEW i \in 1..Count(w)
          PROVE  /\ v.devices[i].name = w.devices[i].name
                 /\ i # x => v.devices[i].home = w.devices[i].home
                 /\ i = x => v.devices[i].home # None
      <3>1. CASE i = x
        <4>1. v.devices[i] = [w.devices[i] EXCEPT !.home = c.arg, !.master = 0]
          BY <2>2, <3>1
        <4> QED BY <2>3, <2>4, <3>1, <4>1 DEF DeviceType
      <3>2. CASE i # x BY <2>2, <3>2
      <3> QED BY <3>1, <3>2
    <2>6. ASSUME NEW name, Find(w, name) # 0, name # c.name PROVE Find(w, name) # x
      BY <2>1, <2>6, FindFacts
    <2> HIDE DEF x
    <2>7. Unique(v) /\ \A name : Find(w, name) # x => Find(v, name) = Find(w, name)
      BY <2>2, <2>5, SameFind
    <2> QED BY <1>7, <2>2, <2>6, <2>7 DEF Makes, v
  <1> HIDE DEF v
  <1> QED BY <1>1, <1>2, <1>3, <1>4, <1>5, <1>6, <1>7 DEF v


BuildStep(c, w) == IF w # Broken /\ CanDo(c, w) THEN After(c, w) ELSE Broken
World == {w \in WorldType : Unique(w)}

LEMMA BuildStepType ==
  ASSUME NEW s \in Linux, NEW c \in CallsOf(s), NEW w \in World PROVE BuildStep(c, w) \in World
  <1>1. CASE CanDo(c, w)
    <2>1. After(c, w) \in World BY <1>1, KernelStep DEF World
    <2> QED BY <2>1, BrokenIs DEF BuildStep, World
  <1>2. CASE ~ CanDo(c, w) BY <1>2, BrokenIs DEF BuildStep, World
  <1> QED BY <1>1, <1>2

\* f is the construction of each part of a section, one call after the other.
Builds(s, f) ==
    /\ f[{}] = Start
    /\ \A x \in SUBSET CallsOf(s) : f[x] \in World
    /\ \A x \in SUBSET CallsOf(s) : x # {} =>
         f[x] = BuildStep(LastOf(x), f[x \ {LastOf(x)}])

LEMMA BuildIs == ASSUME NEW s \in Linux PROVE \E f : Builds(s, f) /\ BuildAll(s) = f[CallsOf(s)]
  <1> DEFINE S == CallsOf(s)
             D == [x \in SUBSET S |-> x \ {LastOf(x)}]
             G == [p \in (SUBSET S) \X World |->
                     IF p[1] = {} THEN Start ELSE BuildStep(LastOf(p[1]), p[2])]
             build == CHOOSE build : build =
                        [done \in SUBSET CallsOf(s) |->
                           IF done = {} THEN Start
                           ELSE LET last == CHOOSE c \in done : \A d \in done \ {c} : Before(d, c)
                                    w == build[done \ {last}]
                                IN  IF w # Broken /\ CanDo(last, w) THEN After(last, w) ELSE Broken]
  <1>1. Start \in World BY StartFacts DEF World
  <1>2. \A x \in SUBSET S : x # {} => LastOf(x) \in x BY LastIs
  <1>3. /\ D \in [SUBSET S -> SUBSET S]
        /\ \A x \in SUBSET S : D[x] \subseteq x /\ (x # {} => D[x] # x)
    BY <1>2
  <1>4. G \in [(SUBSET S) \X World -> World]
    <2> SUFFICES ASSUME NEW x \in SUBSET S, NEW w \in World
                 PROVE  (IF x = {} THEN Start ELSE BuildStep(LastOf(x), w)) \in World
      OBVIOUS
    <2>1. x # {} => LastOf(x) \in CallsOf(s) BY <1>2
    <2> QED BY <1>1, <2>1, BuildStepType
  <1>5. \A x \in SUBSET S, w \in World :
          G[<<x, w>>] = IF x = {} THEN Start ELSE BuildStep(LastOf(x), w)
    OBVIOUS
  <1>6. \A x \in SUBSET S : D[x] = x \ {LastOf(x)} OBVIOUS
  <1>7. IsFiniteSet(S) BY CallsFinite
  <1> HIDE DEF D, G
  <1>8. Recursion(S, World, Start, D, G) BY <1>1, <1>3, <1>4, <1>7 DEF Recursion
  <1>9. PICK f : Solves(f, S, World, Start, D, G)
    <2> HIDE DEF S
    <2> QED BY <1>8, RecursionExists
  <1>10. f = [done \in SUBSET CallsOf(s) |->
                IF done = {} THEN Start ELSE BuildStep(LastOf(done), f[done \ {LastOf(done)}])]
    <2>1. ASSUME NEW x \in SUBSET S, x # {}
          PROVE  G[<<x, f[D[x]]>>] = BuildStep(LastOf(x), f[x \ {LastOf(x)}])
      <3>1. D[x] \in SUBSET S BY <1>3
      <3>2. f[D[x]] \in World BY <1>9, <3>1 DEF Solves
      <3> QED BY <1>5, <1>6, <2>1, <3>2
    <2>2. f \in [SUBSET S -> World] BY <1>9 DEF Solves
    <2> QED BY <1>9, <2>1, <2>2 DEF Solves
  <1>11. build = [done \in SUBSET CallsOf(s) |->
                    IF done = {} THEN Start
                    ELSE BuildStep(LastOf(done), build[done \ {LastOf(done)}])]
    BY <1>10 DEF BuildStep, LastOf
  <1>12. BuildAll(s) = build[CallsOf(s)] BY DEF BuildAll
  <1> HIDE DEF build, S
  <1>13. /\ build[{}] = Start
         /\ \A x \in SUBSET CallsOf(s) : x # {} =>
              build[x] = BuildStep(LastOf(x), build[x \ {LastOf(x)}])
    BY <1>11
  <1>14. \A x \in SUBSET CallsOf(s) : build[x] \in World
    <2> DEFINE T == {x \in SUBSET CallsOf(s) : build[x] \notin World}
    <2> SUFFICES ASSUME T # {} PROVE FALSE OBVIOUS
    <2>1. PICK x \in T : \A y \in T : y \subseteq x => y = x
      <3>1. T \in SUBSET SUBSET CallsOf(s) OBVIOUS
      <3> HIDE DEF T
      <3> QED BY <3>1, CallsFinite, MinSubset
    <2>2. x \in SUBSET CallsOf(s) /\ x # {} BY <1>1, <1>13, <2>1
    <2>3. LastOf(x) \in x BY <2>2, LastIs
    <2>4. build[x \ {LastOf(x)}] \in World BY <2>1, <2>2, <2>3
    <2>5. build[x] \in World BY <1>13, <2>2, <2>3, <2>4, BuildStepType
    <2> QED BY <2>1, <2>5
  <1> QED BY <1>12, <1>13, <1>14 DEF Builds

\* If the construction of a part works, every call of it worked, when those
\* before it had been made.
Earlier(x, c) == {d \in x : Before(d, c)}

LEMMA PartWorks ==
  ASSUME NEW s \in Linux, NEW f, Builds(s, f), NEW x \in SUBSET CallsOf(s), NEW c \in x,
         f[x] # Broken
  PROVE  f[Earlier(x, c)] # Broken /\ CanDo(c, f[Earlier(x, c)])
  <1> DEFINE Works(y) == f[Earlier(y, c)] # Broken /\ CanDo(c, f[Earlier(y, c)])
             T == {y \in SUBSET CallsOf(s) : c \in y /\ f[y] # Broken /\ ~ Works(y)}
  <1> SUFFICES ASSUME T # {} PROVE FALSE OBVIOUS
  <1>1. PICK y \in T : \A z \in T : z \subseteq y => z = y
    <2>1. T \in SUBSET SUBSET CallsOf(s) OBVIOUS
    <2> HIDE DEF T
    <2> QED BY <2>1, CallsFinite, MinSubset
  <1>2. y \in SUBSET CallsOf(s) /\ c \in y /\ f[y] # Broken /\ ~ Works(y) BY <1>1
  <1> DEFINE l == LastOf(y)
             z == y \ {l}
  <1>3. l \in y /\ \A d \in y \ {l} : Before(d, l) BY <1>2, LastIs
  <1>4. f[y] = BuildStep(l, f[z]) BY <1>2 DEF Builds
  <1>5. f[z] # Broken /\ CanDo(l, f[z]) BY <1>2, <1>4 DEF BuildStep
  <1>6. \A d \in y : Placed(d) BY <1>2, CallsPlaced
  <1> HIDE DEF l
  <1>7. CASE c = l
    <2>1. Earlier(y, c) = z BY <1>3, <1>6, <1>7, BeforeOrder DEF Earlier
    <2> QED BY <1>2, <1>5, <1>7, <2>1
  <1>8. CASE c # l
    <2>1. Before(c, l) /\ ~ Before(l, c) BY <1>2, <1>3, <1>6, <1>8, BeforeOrder
    <2>2. Earlier(z, c) = Earlier(y, c) BY <2>1 DEF Earlier
    <2>3. z \in T BY <1>2, <1>5, <1>8, <2>2
    <2>4. z \subseteq y /\ z # y BY <1>3
    <2> QED BY <1>1, <2>3, <2>4
  <1> QED BY <1>7, <1>8

\* What it has made is there, but for what it has moved.
PartHolds(x, w) ==
    /\ \A c \in x : c.op = "netns" => c.name \in w.namespaces
    /\ \A c \in x : \A name :
         Makes(c, name) => Find(w, name) # 0 \/ MovedSince(x, c, name)
    /\ \A name \in Initial :
         Find(w, name) # 0 \/ \E m \in x : m.op = "move" /\ m.name = name

LEMMA PartStands ==
  ASSUME NEW s \in Linux, NEW f, Builds(s, f), NEW x \in SUBSET CallsOf(s), f[x] # Broken
  PROVE  PartHolds(x, f[x])
  <1> DEFINE T == {y \in SUBSET CallsOf(s) : f[y] # Broken /\ ~ PartHolds(y, f[y])}
  <1> SUFFICES ASSUME T # {} PROVE FALSE OBVIOUS
  <1>1. PICK y \in T : \A z \in T : z \subseteq y => z = y
    <2>1. T \in SUBSET SUBSET CallsOf(s) OBVIOUS
    <2> HIDE DEF T
    <2> QED BY <2>1, CallsFinite, MinSubset
  <1>2. y \in SUBSET CallsOf(s) /\ f[y] # Broken /\ ~ PartHolds(y, f[y]) BY <1>1
  <1>3. PartHolds({}, Start) BY StartFinds DEF PartHolds
  <1>4. y # {} BY <1>2, <1>3 DEF Builds
  <1> DEFINE l == LastOf(y)
             z == y \ {l}
             w == f[z]
             v == f[y]
  <1>5. l \in y /\ \A d \in z : Before(d, l) BY <1>2, <1>4, LastIs
  <1>6. v = BuildStep(l, w) /\ z \in SUBSET CallsOf(s) /\ w \in World BY <1>2, <1>4 DEF Builds
  <1>7. w # Broken /\ CanDo(l, w) /\ v = After(l, w) BY <1>2, <1>6 DEF BuildStep
  <1>8. PartHolds(z, w)
    <2>1. z # y BY <1>5
    <2> QED BY <1>1, <1>6, <1>7, <2>1
  <1>9. /\ w.namespaces \subseteq v.namespaces
        /\ l.op = "netns" => l.name \in v.namespaces
        /\ \A name : Makes(l, name) => Find(v, name) # 0
        /\ \A name : Find(w, name) # 0 /\ ~ (l.op = "move" /\ l.name = name) => Find(v, name) # 0
    BY <1>2, <1>5, <1>6, <1>7, KernelStep DEF World
  <1> HIDE DEF w, v
  <1>10. \A c \in y : c = l \/ c \in z OBVIOUS
  <1>11. \A c \in y : c.op = "netns" => c.name \in v.namespaces
    BY <1>8, <1>9, <1>10 DEF PartHolds
  <1>12. ASSUME NEW c \in y, NEW name, Makes(c, name)
         PROVE  Find(v, name) # 0 \/ MovedSince(y, c, name)
    <2>1. CASE c = l BY <1>9, <1>12, <2>1
    <2>2. CASE c \in z
      <3>1. Before(c, l) BY <1>5, <2>2
      <3>2. MovedSince(z, c, name) => MovedSince(y, c, name) BY DEF MovedSince
      <3>3. l.op = "move" /\ l.name = name => MovedSince(y, c, name)
        BY <1>5, <3>1 DEF MovedSince
      <3>4. Find(w, name) # 0 \/ MovedSince(z, c, name) BY <1>8, <1>12, <2>2 DEF PartHolds
      <3> QED BY <1>9, <3>2, <3>3, <3>4
    <2> QED BY <1>10, <2>1, <2>2
  <1>13. \A name \in Initial :
           Find(v, name) # 0 \/ \E m \in y : m.op = "move" /\ m.name = name
    BY <1>5, <1>8, <1>9 DEF PartHolds
  <1>14. PartHolds(y, v) BY <1>11, <1>12, <1>13 DEF PartHolds
  <1> QED BY <1>2, <1>14 DEF v

-----------------------------------------------------------------------------
(* What is claimed twice is made twice.                                    *)

\* A device that is claimed is made, at the place of the claim.
LEMMA DeviceMade ==
  ASSUME NEW s \in Linux, NEW k \in ClaimsOf(s), k.table = "device"
  PROVE  \E d \in CallsOf(s) :
           /\ d.at = k.at /\ d.step = 1 /\ Makes(d, k.name)
           /\ k.step = 1 => d.name = k.name
           /\ k.step = 2 => d.op = "addveth" /\ d.arg = k.name
  <1> DEFINE Made(d) == /\ d \in CallsOf(s)
                        /\ d.at = k.at /\ d.step = 1 /\ Makes(d, k.name)
                        /\ k.step = 1 => d.name = k.name
                        /\ k.step = 2 => d.op = "addveth" /\ d.arg = k.name
  <1>1. ASSUME NEW at, NEW name, NEW kind, k \in Device(at, 1, name),
               ACall(at, 1, "add", name, kind) \in CallsOf(s)
        PROVE  Made(ACall(at, 1, "add", name, kind))
    BY <1>1 DEF Device, Claim, ACall, Makes
  <1>2. ASSUME NEW i \in DOMAIN s.vrfs, k \in VrfClaims(i, s.vrfs[i]) PROVE \E d : Made(d)
    <2>1. ACall(<<1, i, 0, 0>>, 1, "add", s.vrfs[i], "vrf") \in CallsOf(s)
      BY HasCallParts DEF CallParts, VrfCalls, Call, ACall
    <2> HIDE DEF Made
    <2> QED BY <1>1, <1>2, <2>1 DEF VrfClaims
  <1>3. ASSUME NEW i \in DOMAIN s.bonds, k \in BondClaims(i, s.bonds[i]) PROVE \E d : Made(d)
    <2>1. ACall(<<2, i, 0, 0>>, 1, "add", s.bonds[i].name, "bond") \in CallsOf(s)
      BY HasCallParts DEF CallParts, BondCalls, Call, ACall
    <2>2. k \in Device(<<2, i, 0, 0>>, 1, s.bonds[i].name)
      BY <1>3 DEF BondClaims, Master, Claim, When, Each
    <2> HIDE DEF Made
    <2> QED BY <1>1, <2>1, <2>2
  <1>4. ASSUME NEW i \in DOMAIN s.bridges, k \in BridgeClaims(i, s.bridges[i])
        PROVE  \E d : Made(d)
    <2> DEFINE b == s.bridges[i]
    <2>1. BridgeCalls(i, b) \subseteq CallsOf(s) BY HasCallParts DEF CallParts
    <2>2. ACall(<<5, i, 0, 0>>, 1, "add", b.name, "bridge") \in CallsOf(s)
      BY <2>1 DEF BridgeCalls, Call, ACall
    <2>3. \A j \in DOMAIN b.vxlans :
            ACall(<<5, i, 2, j>>, 1, "add", b.vxlans[j], "vxlan") \in CallsOf(s)
      BY <2>1 DEF BridgeCalls, VxlanCalls, Call, ACall, Each
    <2>4. \/ k \in Device(<<5, i, 0, 0>>, 1, b.name)
          \/ \E j \in DOMAIN b.vxlans : k \in Device(<<5, i, 2, j>>, 1, b.vxlans[j])
      BY <1>4 DEF BridgeClaims, VxlanClaims, Master, Claim, When, Each
    <2> HIDE DEF Made, b
    <2> QED BY <1>1, <2>2, <2>3, <2>4
  <1>5. ASSUME NEW i \in DOMAIN s.veths, k \in VethDevices(i, s.veths[i]) PROVE \E d : Made(d)
    <2> DEFINE v == s.veths[i]
               at == <<8, i, 0, 0>>
    <2>1. ACall(at, 1, "addveth", v.name, v.peer) \in CallsOf(s)
      BY HasCallParts DEF CallParts, VethCalls, Call, ACall
    <2>2. k \in Device(at, 1, v.name) \/ k \in Device(at, 2, v.peer)
      BY <1>5 DEF VethDevices, Claim, When
    <2> HIDE DEF v, at
    <2>3. Made(ACall(at, 1, "addveth", v.name, v.peer))
      BY <2>1, <2>2 DEF Device, Claim, ACall, Makes
    <2> QED BY <2>3
  <1>6. ~ \E i \in DOMAIN s.interfaces : k \in InterfaceClaims(i, s.interfaces[i])
    BY DEF InterfaceClaims, Master, Claim, When
  <1>7. ~ \E i \in DOMAIN s.veths : k \in VethClaims(i, s.veths[i])
    BY DEF VethClaims, Master, Claim, When
  <1>8. \E d : Made(d)
    <2> HIDE DEF Made
    <2> QED BY <1>2, <1>3, <1>4, <1>5, <1>6, <1>7, ClaimCases
  <1> QED BY <1>8

\* So is a namespace.
LEMMA NamespaceMade ==
  ASSUME NEW s \in Linux, NEW k \in ClaimsOf(s), k.table = "namespace"
  PROVE  /\ \E d \in CallsOf(s) : d.at = NetnsPlace(k) /\ d.op = "netns" /\ d.name = k.name
         /\ \/ k.at[1] = 4 /\ k.at[3] = 0 /\ k.at[4] = 0 /\ k.step = 3
            \/ k.at[1] = 5 /\ k.step = 1
  <1> DEFINE Made == \E d \in CallsOf(s) : d.at = NetnsPlace(k) /\ d.op = "netns" /\ d.name = k.name
             Stands == \/ k.at[1] = 4 /\ k.at[3] = 0 /\ k.at[4] = 0 /\ k.step = 3
                       \/ k.at[1] = 5 /\ k.step = 1
  <1>1. ASSUME NEW i \in DOMAIN s.veths, k \in VethClaims(i, s.veths[i]) PROVE Made /\ Stands
    <2> DEFINE v == s.veths[i]
               c == ACall(<<8, i, 0, 0>>, 4, "netns", v.namespace, None)
    <2>1. v.namespace # None /\ k = AClaim(<<4, i, 0, 0>>, 3, "namespace", v.namespace, None)
      BY <1>1 DEF VethClaims, Master, When, Claim, AClaim
    <2>2. c \in CallsOf(s)
      BY <2>1, HasCallParts DEF CallParts, VethCalls, MovePeer, When, Call, ACall
    <2>3. k.at = <<4, i, 0, 0>> /\ k.step = 3 /\ k.name = v.namespace BY <2>1 DEF AClaim
    <2>4. k.at[1] = 4 /\ k.at[2] = i /\ k.at[3] = 0 /\ k.at[4] = 0 BY <2>3, FourParts
    <2>5. c.at = NetnsPlace(k) /\ c.op = "netns" /\ c.name = k.name
      BY <2>3, <2>4 DEF ACall, NetnsPlace
    <2> HIDE DEF c
    <2> QED BY <2>2, <2>3, <2>4, <2>5
  <1>2. ASSUME NEW i \in DOMAIN s.bridges, k \in BridgeClaims(i, s.bridges[i])
        PROVE  Made /\ Stands
    <2> DEFINE b == s.bridges[i]
    <2>1. PICK j \in DOMAIN b.namespaces :
            k = AClaim(<<5, i, 3, j>>, 1, "namespace", b.namespaces[j], None)
      BY <1>2 DEF BridgeClaims, VxlanClaims, Device, Master, When, Claim, AClaim, Each
    <2> DEFINE c == ACall(<<5, i, 3, j>>, 4, "netns", b.namespaces[j], None)
    <2>2. BridgeNamespaceCalls(<<5, i, 3, j>>, b.name, b.namespaces[j]) \subseteq CallsOf(s)
      BY HasCallParts DEF CallParts, BridgeCalls, Each
    <2>3. c \in CallsOf(s) BY <2>2 DEF BridgeNamespaceCalls, MovePeer, Call, ACall
    <2>4. k.at = <<5, i, 3, j>> /\ k.step = 1 /\ k.name = b.namespaces[j] BY <2>1 DEF AClaim
    <2>5. k.at[1] = 5 BY <2>4
    <2>6. c.at = NetnsPlace(k) /\ c.op = "netns" /\ c.name = k.name
      BY <2>4, <2>5 DEF ACall, NetnsPlace
    <2> HIDE DEF c
    <2> QED BY <2>3, <2>4, <2>5, <2>6
  <1>3. ~ \E i \in DOMAIN s.interfaces : k \in InterfaceClaims(i, s.interfaces[i])
    BY DEF InterfaceClaims, Master, Claim, When
  <1>4. ~ \E i \in DOMAIN s.vrfs : k \in VrfClaims(i, s.vrfs[i])
    BY DEF VrfClaims, Device, Claim
  <1>5. ~ \E i \in DOMAIN s.bonds : k \in BondClaims(i, s.bonds[i])
    BY DEF BondClaims, Device, Master, Claim, When, Each
  <1>6. ~ \E i \in DOMAIN s.veths : k \in VethDevices(i, s.veths[i])
    BY DEF VethDevices, Device, Claim, When
  <1>7. Made /\ Stands
    <2> HIDE DEF Made, Stands
    <2> QED BY <1>1, <1>2, <1>3, <1>4, <1>5, <1>6, ClaimCases
  <1> QED BY <1>7

\* A device with a name that users give is moved only where it is freed.
LEMMA MoveIsFreed ==
  ASSUME NEW s \in Linux, NEW m \in CallsOf(s), m.op = "move", m.name \in Name
  PROVE  /\ AClaim(m.at, 2, "device", m.name, None) \in ClaimsOf(s)
         /\ AClaim(m.at, 3, "free", m.name, None) \in ClaimsOf(s)
         /\ m.step = 5
  <1>1. ASSUME NEW i \in DOMAIN s.bridges, m \in BridgeCalls(i, s.bridges[i]) PROVE FALSE
    <2> DEFINE b == s.bridges[i]
    <2>1. PICK j \in DOMAIN b.namespaces :
            m \in BridgeNamespaceCalls(<<5, i, 3, j>>, b.name, b.namespaces[j])
      BY <1>1 DEF BridgeCalls, VxlanCalls, Configure, When, Call, Each
    <2>2. m.name = PeerVeth(b.name, b.namespaces[j])
      BY <2>1 DEF BridgeNamespaceCalls, Configure, MovePeer, When, Call
    <2>3. b.name \in Name /\ b.namespaces[j] \in Namespace BY BridgeFacts
    <2> QED BY <2>2, <2>3, HostNames
  <1>2. ASSUME NEW i \in DOMAIN s.veths, m \in VethCalls(i, s.veths[i])
        PROVE  /\ AClaim(m.at, 2, "device", m.name, None) \in ClaimsOf(s)
               /\ AClaim(m.at, 3, "free", m.name, None) \in ClaimsOf(s)
               /\ m.step = 5
    <2> DEFINE v == s.veths[i]
               at == <<8, i, 0, 0>>
    <2>1. v.namespace # None /\ m = ACall(at, 5, "move", v.peer, v.namespace)
      BY <1>2 DEF VethCalls, Configure, MovePeer, When, Call, ACall
    <2>2. /\ AClaim(at, 2, "device", v.peer, None) \in ClaimsOf(s)
          /\ AClaim(at, 3, "free", v.peer, None) \in ClaimsOf(s)
      BY <2>1, HasClaimParts DEF ClaimParts, VethDevices, Device, When, Claim, AClaim
    <2> HIDE DEF at, v
    <2> QED BY <2>1, <2>2 DEF ACall
  <1>3. /\ ~ \E i \in DOMAIN s.vrfs : m \in VrfCalls(i, s.vrfs[i])
        /\ ~ \E i \in DOMAIN s.interfaces : m \in InterfaceCalls(i, s.interfaces[i])
        /\ ~ \E i \in DOMAIN s.bonds : m \in BondMasterCalls(i, s.bonds[i])
        /\ ~ \E i \in DOMAIN s.routes : m \in RouteCalls(i, s.routes[i])
    BY DEF VrfCalls, InterfaceCalls, BondMasterCalls, RouteCalls, Configure, When, Call
  <1>4. ~ \E i \in DOMAIN s.bonds : m \in BondCalls(i, s.bonds[i])
    BY DEF BondCalls, Configure, When, Call, Each
  <1> QED BY <1>1, <1>2, <1>3, <1>4, CallCases

\* Two claims that the check refuses: a device takes the name of one that was
\* there, or of one that is still there; a namespace the name of another.
DeviceTaken(s) ==
    \E c \in ClaimsOf(s) :
      /\ c.table = "device"
      /\ \/ \E k \in ClaimsOf(s) : /\ k.table = "device" /\ k.name = c.name /\ Before(k, c)
                                   /\ ~ FreedBetween(ClaimsOf(s), k, c)
         \/ /\ c.name \in Initial
            /\ \A k \in ClaimsOf(s) : k.table = "device" /\ Before(k, c) => k.name # c.name

NamespaceTaken(s) ==
    \E c \in ClaimsOf(s) : \E k \in ClaimsOf(s) :
      c.table = "namespace" /\ k.table = "namespace" /\ k.name = c.name /\ Before(k, c)

\* If the construction works, what the call cc makes was not there, though it
\* was made by an earlier call, unless it was moved.
LEMMA MovedBefore ==
  ASSUME NEW s \in Linux, NEW f, Builds(s, f), f[CallsOf(s)] # Broken,
         NEW cc \in CallsOf(s), NEW name, Makes(cc, name)
  PROVE  /\ cc.op = "addveth" => cc.name # cc.arg
         /\ name \in Initial =>
              \E m \in CallsOf(s) : m.op = "move" /\ m.name = name /\ Before(m, cc)
         /\ \A kc \in CallsOf(s) : Makes(kc, name) /\ Before(kc, cc) =>
              \E m \in CallsOf(s) :
                m.op = "move" /\ m.name = name /\ Before(kc, m) /\ Before(m, cc)
  <1> DEFINE x == Earlier(CallsOf(s), cc)
  <1>1. x \in SUBSET CallsOf(s) /\ \A d : d \in x <=> d \in CallsOf(s) /\ Before(d, cc)
    BY DEF Earlier
  <1>2. f[x] # Broken /\ CanDo(cc, f[x])
    <2>1. CallsOf(s) \in SUBSET CallsOf(s) OBVIOUS
    <2> QED BY <2>1, PartWorks
  <1> HIDE DEF x
  <1>3. PartHolds(x, f[x]) BY <1>1, <1>2, PartStands
  <1>4. Find(f[x], name) = 0 /\ (cc.op = "addveth" => cc.name # cc.arg)
    BY <1>2 DEF CanDo, Makes
  <1> QED BY <1>1, <1>3, <1>4 DEF PartHolds, MovedSince

LEMMA DeviceCollides ==
  ASSUME NEW s \in Linux, DeviceTaken(s), NEW f, Builds(s, f) PROVE f[CallsOf(s)] = Broken
  <1> SUFFICES ASSUME f[CallsOf(s)] # Broken PROVE FALSE OBVIOUS
  <1>1. PICK c \in ClaimsOf(s) :
          /\ c.table = "device"
          /\ \/ \E k \in ClaimsOf(s) : /\ k.table = "device" /\ k.name = c.name /\ Before(k, c)
                                       /\ ~ FreedBetween(ClaimsOf(s), k, c)
             \/ /\ c.name \in Initial
                /\ \A k \in ClaimsOf(s) : k.table = "device" /\ Before(k, c) => k.name # c.name
    BY DEF DeviceTaken
  <1>2. PICK cc \in CallsOf(s) :
          /\ cc.at = c.at /\ cc.step = 1 /\ Makes(cc, c.name)
          /\ c.step = 2 => cc.op = "addveth" /\ cc.arg = c.name
    BY <1>1, DeviceMade
  <1>3. c.name \in Name /\ Placed(c) /\ c.step \in {1, 2} BY <1>1, ClaimsOK DEF ClaimOK, Placed
  <1>4. Placed(cc) BY CallsPlaced
  \* What is moved before cc is freed before c.
  <1>5. ASSUME NEW m \in CallsOf(s), m.op = "move", m.name = c.name, Before(m, cc)
        PROVE  /\ Sooner(m, cc) /\ m.step = 5
               /\ AClaim(m.at, 2, "device", c.name, None) \in ClaimsOf(s)
               /\ AClaim(m.at, 3, "free", c.name, None) \in ClaimsOf(s)
    <2>1. /\ AClaim(m.at, 2, "device", c.name, None) \in ClaimsOf(s)
          /\ AClaim(m.at, 3, "free", c.name, None) \in ClaimsOf(s)
          /\ m.step = 5
      BY <1>3, <1>5, MoveIsFreed
    <2> QED BY <1>2, <1>5, <2>1, BeforeIs
  <1>6. ASSUME NEW k \in ClaimsOf(s), k.table = "device", k.name = c.name, Before(k, c)
        PROVE  FreedBetween(ClaimsOf(s), k, c)
    <2>1. PICK kc \in CallsOf(s) :
            /\ kc.at = k.at /\ kc.step = 1 /\ Makes(kc, c.name)
            /\ k.step = 1 => kc.name = c.name
      BY <1>6, DeviceMade
    <2>2. Placed(k) /\ k.step \in {1, 2} BY <1>6, ClaimsOK DEF ClaimOK, Placed
    <2>3. CASE k.at = c.at
      <3>1. kc = cc BY <1>2, <2>1, <2>3, CallsOnce
      <3>2. ~ Sooner(k, c) BY <1>3, <2>2, <2>3, SoonerOrder DEF Placed
      <3>3. k.step < c.step BY <1>6, <3>2, BeforeIs
      <3>4. k.step = 1 /\ c.step = 2 BY <1>3, <2>2, <3>3
      <3>5. cc.op = "addveth" /\ cc.name = cc.arg BY <1>2, <2>1, <3>1, <3>4
      <3> QED BY <1>2, <3>5, MovedBefore
    <2>4. CASE k.at # c.at
      <3>1. Sooner(k, c) BY <1>6, <2>4, BeforeIs
      <3>2. Before(kc, cc) BY <1>2, <2>1, <3>1, SoonerSame, BeforeIs
      <3>3. PICK m \in CallsOf(s) :
              m.op = "move" /\ m.name = c.name /\ Before(kc, m) /\ Before(m, cc)
        BY <1>2, <2>1, <3>2, MovedBefore
      <3> DEFINE fr == AClaim(m.at, 3, "free", c.name, None)
      <3>4. fr \in ClaimsOf(s) /\ Sooner(m, cc) BY <1>5, <3>3
      <3>5. fr.at = m.at /\ fr.step = 3 /\ fr.table = "free" /\ fr.name = c.name BY DEF AClaim
      <3> HIDE DEF fr
      <3>6. Before(fr, c) BY <1>2, <3>4, <3>5, SoonerSame, BeforeIs
      <3>7. Before(k, fr)
        <4>1. CASE Sooner(kc, m) BY <2>1, <3>5, <4>1, SoonerSame, BeforeIs
        <4>2. CASE kc.at = m.at
          <5>1. k.at = fr.at /\ k.step < fr.step BY <2>1, <2>2, <3>5, <4>2
          <5> QED BY <5>1, BeforeIs
        <4> QED BY <3>3, <4>1, <4>2, BeforeIs
      <3> QED BY <1>6, <3>4, <3>5, <3>6, <3>7 DEF FreedBetween
    <2> QED BY <2>3, <2>4
  <1>7. c.name \in Initial /\ \A k \in ClaimsOf(s) :
          k.table = "device" /\ Before(k, c) => k.name # c.name
    BY <1>1, <1>6
  <1>8. PICK m \in CallsOf(s) : m.op = "move" /\ m.name = c.name /\ Before(m, cc)
    BY <1>2, <1>7, MovedBefore
  <1> DEFINE k == AClaim(m.at, 2, "device", c.name, None)
  <1>9. k \in ClaimsOf(s) /\ Sooner(m, cc) BY <1>5, <1>8
  <1>10. k.at = m.at /\ k.table = "device" /\ k.name = c.name BY DEF AClaim
  <1> HIDE DEF k
  <1>11. Before(k, c) BY <1>2, <1>9, <1>10, SoonerSame, BeforeIs
  <1> QED BY <1>7, <1>9, <1>10, <1>11

LEMMA NamespaceCollides ==
  ASSUME NEW s \in Linux, NamespaceTaken(s), NEW f, Builds(s, f) PROVE f[CallsOf(s)] = Broken
  <1> SUFFICES ASSUME f[CallsOf(s)] # Broken PROVE FALSE OBVIOUS
  <1>1. PICK c \in ClaimsOf(s) : \E k \in ClaimsOf(s) :
          c.table = "namespace" /\ k.table = "namespace" /\ k.name = c.name /\ Before(k, c)
    BY DEF NamespaceTaken
  <1>2. PICK k \in ClaimsOf(s) :
          c.table = "namespace" /\ k.table = "namespace" /\ k.name = c.name /\ Before(k, c)
    BY <1>1
  <1>3. PICK nc \in CallsOf(s) : nc.at = NetnsPlace(c) /\ nc.op = "netns" /\ nc.name = c.name
    BY <1>2, NamespaceMade
  <1>4. PICK nk \in CallsOf(s) : nk.at = NetnsPlace(k) /\ nk.op = "netns" /\ nk.name = c.name
    BY <1>2, NamespaceMade
  <1>5. /\ \/ k.at[1] = 4 /\ k.at[3] = 0 /\ k.at[4] = 0 /\ k.step = 3
           \/ k.at[1] = 5 /\ k.step = 1
        /\ \/ c.at[1] = 4 /\ c.at[3] = 0 /\ c.at[4] = 0 /\ c.step = 3
           \/ c.at[1] = 5 /\ c.step = 1
        /\ k.at \in Place /\ c.at \in Place
    <2>1. \/ k.at[1] = 4 /\ k.at[3] = 0 /\ k.at[4] = 0 /\ k.step = 3
          \/ k.at[1] = 5 /\ k.step = 1
      BY <1>2, NamespaceMade
    <2>2. \/ c.at[1] = 4 /\ c.at[3] = 0 /\ c.at[4] = 0 /\ c.step = 3
          \/ c.at[1] = 5 /\ c.step = 1
      BY <1>2, NamespaceMade
    <2> QED BY <2>1, <2>2, ClaimsOK DEF ClaimOK
  <1>6. nk # nc
    <2> SUFFICES ASSUME nk = nc PROVE FALSE OBVIOUS
    <2>1. NetnsPlace(k) = NetnsPlace(c) BY <1>3, <1>4
    <2>2. CASE k.at[1] = 4 /\ c.at[1] = 4
      <3>1. <<8, k.at[2], 0, 0>> = <<8, c.at[2], 0, 0>> BY <2>1, <2>2 DEF NetnsPlace
      <3>2. k.at[2] = c.at[2] BY <3>1
      <3>3. k.at[3] = c.at[3] /\ k.at[4] = c.at[4] /\ k.step = 3 /\ c.step = 3
        BY <1>5, <2>2
      <3>4. c.at[2] \in Nat BY <1>5 DEF Place
      <3>5. ~ Sooner(k, c) BY <1>5, <2>2, <3>2, <3>3, <3>4, SoonerIs
      <3> QED BY <1>2, <3>3, <3>5, BeforeIs
    <2>3. CASE k.at[1] = 5 /\ c.at[1] = 5
      <3>1. k.at = c.at /\ k.step = c.step /\ c.step = 1 BY <1>5, <2>1, <2>3 DEF NetnsPlace
      <3>2. ~ Sooner(k, c) BY <1>5, <3>1, SoonerOrder
      <3> QED BY <1>2, <3>1, <3>2, BeforeIs
    <2>4. CASE k.at[1] = 4 /\ c.at[1] = 5 BY <2>1, <2>4 DEF NetnsPlace
    <2>5. CASE k.at[1] = 5 /\ c.at[1] = 4 BY <2>1, <2>5 DEF NetnsPlace
    <2> QED BY <1>5, <2>2, <2>3, <2>4, <2>5
  <1>7. ASSUME NEW a \in CallsOf(s), NEW b \in CallsOf(s), a.op = "netns", b.op = "netns",
               a.name = b.name, Before(a, b)
        PROVE  FALSE
    <2> DEFINE x == Earlier(CallsOf(s), b)
    <2>1. x \in SUBSET CallsOf(s) /\ a \in x BY <1>7 DEF Earlier
    <2>2. f[x] # Broken /\ CanDo(b, f[x])
      <3>1. CallsOf(s) \in SUBSET CallsOf(s) OBVIOUS
      <3> QED BY <3>1, PartWorks
    <2> HIDE DEF x
    <2>3. PartHolds(x, f[x]) BY <2>1, <2>2, PartStands
    <2>4. b.name \notin f[x].namespaces BY <1>7, <2>2 DEF CanDo
    <2> QED BY <1>7, <2>1, <2>3, <2>4 DEF PartHolds
  <1> QED BY <1>3, <1>4, <1>6, <1>7, CallsInLine

\* A section with two such claims cannot be built.
LEMMA TakenBreaks ==
  ASSUME NEW s \in Linux, DeviceTaken(s) \/ NamespaceTaken(s) PROVE BuildAll(s) = Broken
  <1>1. PICK f : Builds(s, f) /\ BuildAll(s) = f[CallsOf(s)] BY BuildIs
  <1> QED BY <1>1, DeviceCollides, NamespaceCollides

-----------------------------------------------------------------------------
(* The invariant.                                                          *)

ClaimsDone == ClaimsOf(section) \ todo
CallsDone == CallsOf(section) \ todo

CheckInv ==
    stage = "check" =>
      Walk(ClaimsOf(section), todo) /\ NamesOK(ClaimsDone) /\ TablesOK(ClaimsDone, claimed)
      /\ world = Start

BuildInv ==
    stage = "build" =>
      Accepted(section) /\ Walk(CallsOf(section), todo) /\ BuildOK(section, CallsDone, world)

\* However the command ended, it left the whole section or nothing, and a
\* name that it was rejected for is taken.
EndInv ==
    stage \notin {"check", "build"} =>
      /\ todo = {}
      /\ IF stage = "built"
         THEN Accepted(section) /\ BuildOK(section, CallsOf(section), world)
         ELSE world = Start
      /\ stage = "device" => DeviceTaken(section)
      /\ stage = "namespace" => NamespaceTaken(section)

DevicesInv ==
    /\ section \in Linux
    /\ stage \in {"check", "build", "built", "failed", "malformed"} \cup Tables
    /\ stage # "check" => claimed = NoClaims
    /\ CheckInv /\ BuildInv /\ EndInv

LEMMA ClaimsUsed ==
  UNCHANGED <<section, todo>> => ClaimsDone' = ClaimsDone /\ CallsDone' = CallsDone
  BY DEF ClaimsDone, CallsDone

LEMMA InitInv == Init => DevicesInv
  <1> SUFFICES ASSUME Init PROVE DevicesInv OBVIOUS
  <1>1. section \in Linux /\ stage = "check" /\ todo = ClaimsOf(section) /\ world = Start
        /\ claimed = [NoClaims EXCEPT !["device"] = Initial]
    BY SectionAssumption DEF Init, Initial
  <1>2. Walk(ClaimsOf(section), todo) /\ ClaimsDone = {} BY <1>1, WalkStart DEF ClaimsDone
  <1>3. NamesOK({}) BY DEF NamesOK
  <1>4. TablesOK({}, claimed)
    <2>1. Initial \subseteq Name BY NameAssumption DEF Initial
    <2>2. /\ claimed \in [Tables -> SUBSET (Name \cup Namespace)]
          /\ claimed["device"] = Initial /\ claimed["namespace"] = {}
      BY <1>1, <2>1 DEF NoClaims, Tables
    <2> QED BY <2>2 DEF TablesOK
  <1> QED BY <1>1, <1>2, <1>3, <1>4 DEF DevicesInv, CheckInv, BuildInv, EndInv

LEMMA MakeClaimInv == DevicesInv /\ MakeClaim => DevicesInv'
  <1> SUFFICES ASSUME DevicesInv, MakeClaim PROVE DevicesInv' OBVIOUS
  <1>1. stage = "check" /\ stage' = "check" /\ section' = section /\ world' = world
    BY DEF MakeClaim
  <1>2. PICK c \in todo : /\ First(c, todo) /\ ~ Conflicts(c) /\ todo' = todo \ {c}
                          /\ claimed' = ClaimMade(c, claimed)
    BY DEF MakeClaim, ClaimMade
  <1>3. ~ Clash(c, claimed) BY <1>2 DEF Conflicts, Clash
  <1>4. section \in Linux /\ Walk(ClaimsOf(section), todo) /\ NamesOK(ClaimsDone)
        /\ TablesOK(ClaimsDone, claimed) /\ world = Start
    BY <1>1 DEF DevicesInv, CheckInv
  <1>5. /\ Walk(ClaimsOf(section), todo \ {c})
        /\ ClaimsOf(section) \ (todo \ {c}) = ClaimsDone \cup {c}
    BY <1>2, <1>4, ClaimsPlaced, WalkOn DEF ClaimsDone
  <1>6. NamesOK(ClaimsDone \cup {c}) /\ TablesOK(ClaimsDone \cup {c}, ClaimMade(c, claimed))
    BY <1>2, <1>3, <1>4, ClaimStep DEF ClaimsDone
  <1>7. ClaimsDone' = ClaimsDone \cup {c} BY <1>1, <1>2, <1>5 DEF ClaimsDone
  <1> QED BY <1>1, <1>2, <1>4, <1>5, <1>6, <1>7 DEF DevicesInv, CheckInv, BuildInv, EndInv

LEMMA RejectInv == DevicesInv /\ Reject => DevicesInv'
  <1> SUFFICES ASSUME DevicesInv, Reject PROVE DevicesInv' OBVIOUS
  <1>1. stage = "check" /\ section' = section /\ world' = world BY DEF Reject
  <1>2. section \in Linux /\ Walk(ClaimsOf(section), todo) /\ world = Start
    BY <1>1 DEF DevicesInv, CheckInv
  <1>3. stage' \in {"malformed"} \cup Tables /\ todo' = {} /\ claimed' = NoClaims
    <2>1. CASE Return("malformed") BY <2>1 DEF Return
    <2>2. ASSUME NEW c \in todo, Conflicts(c), Return(c.table)
          PROVE  stage' \in {"malformed"} \cup Tables /\ todo' = {} /\ claimed' = NoClaims
      <3>1. ClaimOK(section, c) BY <1>2, ClaimsOK DEF Walk
      <3> QED BY <2>2, <3>1 DEF Return, Conflicts, ClaimOK
    <2> QED BY <2>1, <2>2 DEF Reject
  <1>4. stage' \notin {"check", "build", "built"} BY <1>3 DEF Tables
  <1>5. /\ NamesOK(ClaimsDone) /\ TablesOK(ClaimsDone, claimed)
        /\ \A c \in ClaimsOf(section) : Placed(c)
    BY <1>1, <1>2, ClaimsPlaced DEF DevicesInv, CheckInv
  <1>6. ASSUME NEW c \in todo, First(c, todo), Conflicts(c), Return(c.table), stage' = "device"
        PROVE  DeviceTaken(section)
    <2>1. c.table = "device" /\ c.name \in claimed["device"] BY <1>6 DEF Conflicts, Return
    <2>2. /\ c \in ClaimsOf(section)
          /\ \A d \in ClaimsDone : Before(d, c)
          /\ \A d \in ClaimsOf(section) : Before(d, c) => d \in ClaimsDone
      BY <1>2, <1>5, <1>6, WalkOn DEF ClaimsDone
    <2>3. CASE c.name \in Initial
      <3>1. \A k \in ClaimsOf(section) : k.table = "device" /\ Before(k, c) => k.name # c.name
        BY <1>5, <2>2, <2>3 DEF NamesOK
      <3> QED BY <2>1, <2>2, <2>3, <3>1 DEF DeviceTaken
    <2>4. CASE c.name \notin Initial
      <3>1. PICK k \in ClaimsDone :
              k.table = "device" /\ k.name = c.name /\ ~ FreedSince(ClaimsDone, k)
        BY <1>5, <2>1, <2>4 DEF TablesOK
      <3>2. ~ FreedBetween(ClaimsOf(section), k, c)
        BY <2>2, <3>1 DEF FreedBetween, FreedSince
      <3>3. k \in ClaimsOf(section) /\ Before(k, c) BY <2>2 DEF ClaimsDone
      <3> QED BY <2>1, <2>2, <3>1, <3>2, <3>3 DEF DeviceTaken
    <2> QED BY <2>3, <2>4
  <1>7. ASSUME NEW c \in todo, First(c, todo), Conflicts(c), Return(c.table), stage' = "namespace"
        PROVE  NamespaceTaken(section)
    <2>1. c.table = "namespace" /\ c.name \in claimed["namespace"] BY <1>7 DEF Conflicts, Return
    <2>2. c \in ClaimsOf(section) /\ \A d \in ClaimsDone : Before(d, c)
      BY <1>2, <1>5, <1>7, WalkOn DEF ClaimsDone
    <2>3. PICK k \in ClaimsDone : k.table = "namespace" /\ k.name = c.name
      BY <1>5, <2>1 DEF TablesOK
    <2>4. k \in ClaimsOf(section) /\ Before(k, c) BY <2>2 DEF ClaimsDone
    <2> QED BY <2>1, <2>2, <2>3, <2>4 DEF NamespaceTaken
  <1>8. /\ stage' = "device" => DeviceTaken(section)
        /\ stage' = "namespace" => NamespaceTaken(section)
    BY <1>6, <1>7 DEF Reject, Return
  <1> QED BY <1>1, <1>2, <1>3, <1>4, <1>8 DEF DevicesInv, CheckInv, BuildInv, EndInv

LEMMA AcceptInv == DevicesInv /\ Accept => DevicesInv'
  <1> SUFFICES ASSUME DevicesInv, Accept PROVE DevicesInv' OBVIOUS
  <1>1. stage = "check" /\ todo = {} /\ stage' = "build" /\ todo' = CallsOf(section)
        /\ claimed' = NoClaims /\ section' = section /\ world' = world
    BY DEF Accept
  <1>2. section \in Linux /\ NamesOK(ClaimsOf(section)) /\ world = Start
    BY <1>1, WalkEnd DEF DevicesInv, CheckInv, ClaimsDone
  <1>3. Accepted(section) BY <1>2 DEF Accepted
  <1>4. Walk(CallsOf(section), CallsOf(section)) /\ CallsDone' = {}
    BY <1>1, WalkStart DEF CallsDone
  <1>5. BuildOK(section, {}, Start) BY <1>3, StartOK
  <1> QED BY <1>1, <1>2, <1>3, <1>4, <1>5 DEF DevicesInv, CheckInv, BuildInv, EndInv

LEMMA MakeCallInv == DevicesInv /\ MakeCall => DevicesInv'
  <1> SUFFICES ASSUME DevicesInv, MakeCall PROVE DevicesInv' OBVIOUS
  <1>1. stage = "build" /\ stage' = "build" /\ section' = section /\ claimed' = claimed
    BY DEF MakeCall
  <1>2. PICK c \in todo : /\ First(c, todo) /\ CanDo(c, world) /\ todo' = todo \ {c}
                          /\ world' = After(c, world)
    BY DEF MakeCall
  <1>3. Accepted(section) /\ Walk(CallsOf(section), todo) /\ BuildOK(section, CallsDone, world)
    BY <1>1 DEF DevicesInv, BuildInv
  <1>4. Upto(section, CallsDone, c) BY <1>2, <1>3, UptoWalk DEF CallsDone
  <1>5. /\ Walk(CallsOf(section), todo \ {c})
        /\ CallsOf(section) \ (todo \ {c}) = CallsDone \cup {c}
    BY <1>2, <1>3, CallsPlaced, WalkOn DEF CallsDone, Accepted
  <1>6. BuildOK(section, CallsDone \cup {c}, After(c, world)) BY <1>2, <1>3, <1>4, CallStep
  <1>7. CallsDone' = CallsDone \cup {c} BY <1>1, <1>2, <1>5 DEF CallsDone
  <1> QED BY <1>1, <1>2, <1>3, <1>5, <1>6, <1>7 DEF DevicesInv, CheckInv, BuildInv, EndInv

LEMMA EndsInv == DevicesInv /\ (FailCall \/ Finish) => DevicesInv'
  <1> SUFFICES ASSUME DevicesInv, FailCall \/ Finish PROVE DevicesInv' OBVIOUS
  <1>1. stage = "build" /\ section' = section /\ todo' = {} /\ claimed' = NoClaims
    BY DEF FailCall, Finish, Return
  <1>2. Accepted(section) /\ section \in Linux /\ BuildOK(section, CallsDone, world)
    BY <1>1 DEF DevicesInv, BuildInv
  <1>3. CASE FailCall
    BY <1>1, <1>2, <1>3
    DEF FailCall, Return, DevicesInv, CheckInv, BuildInv, EndInv
  <1>4. CASE Finish
    <2>1. stage' = "built" /\ todo = {} /\ world' = world BY <1>4 DEF Finish, Return
    <2>2. CallsDone = CallsOf(section) BY <2>1 DEF CallsDone
    <2> QED BY <1>1, <1>2, <2>1, <2>2 DEF DevicesInv, CheckInv, BuildInv, EndInv
  <1> QED BY <1>3, <1>4

LEMMA StutterInv == DevicesInv /\ UNCHANGED vars => DevicesInv'
  BY DEF vars, DevicesInv, CheckInv, BuildInv, EndInv, ClaimsDone, CallsDone

\* The names claimed so far and the devices made so far are those of the
\* invariant, whatever the section: validateLinux and configureLinux walk it
\* in two orders.
THEOREM DevicesHold == Spec => []DevicesInv
  <1>1. DevicesInv /\ [Next]_vars => DevicesInv'
    BY MakeClaimInv, RejectInv, AcceptInv, MakeCallInv, EndsInv, StutterInv DEF Next
  <1> QED BY InitInv, <1>1, PTL DEF Spec

\* For every section: types, and masters and mates are devices of the
\* namespace they are in (claimLinuxMaster, attachLinkMaster).
THEOREM DevicesTyped == Spec => []TypeOK
  <1>1. DevicesInv => TypeOK
    <2> SUFFICES ASSUME DevicesInv PROVE TypeOK OBVIOUS
    <2>1. section \in Linux /\ stage \in {"check", "build", "built", "failed", "malformed"} \cup Tables
      BY DEF DevicesInv
    <2>2. stage = "check" => \A c \in todo :
            /\ c.table \in Tables \cup {"free"} /\ c.name \in Name \cup Namespace
            /\ c.table \in {"master", "peer"} <=> c.to \in Name
      BY <2>1, ClaimsOK DEF DevicesInv, CheckInv, Walk, ClaimOK
    <2>3. claimed \in [Tables -> SUBSET (Name \cup Namespace)]
      <3>1. NoClaims \in [Tables -> SUBSET (Name \cup Namespace)] BY DEF NoClaims
      <3> QED BY <3>1 DEF DevicesInv, CheckInv, TablesOK
    <2>4. world \in WorldType /\ Masters(world) /\ Mates(world)
          /\ \E done : Homes(done, world)
      <3>1. Masters(Start) /\ Mates(Start) /\ Homes({}, Start) BY StartFacts DEF Masters, Mates, Homes
      <3>2. CASE world = Start BY <3>1, <3>2, StartFacts
      <3>3. CASE \E done : BuildOK(section, done, world) BY <3>3 DEF BuildOK
      <3> QED BY <3>2, <3>3 DEF DevicesInv, CheckInv, BuildInv, EndInv
    <2>5. /\ DOMAIN world.devices = 1..Count(world) /\ Count(world) \in Nat
          /\ world.namespaces \in SUBSET Namespace
          /\ \A i \in 1..Count(world) : world.devices[i] \in DeviceType
      BY <2>4, WorldFacts
    <2>6. ASSUME NEW i \in 1..Count(world)
          PROVE  LET d == world.devices[i]
                 IN  /\ d.name \in AnyName /\ d.kind \in Kinds
                     /\ d.home \in world.namespaces \cup {None}
                     /\ d.master \in 0..Count(world) /\ d.mate \in 0..Count(world)
                     /\ d.master # 0 => world.devices[d.master].home = d.home
                     /\ d.mate # 0 => world.devices[d.mate].mate = i
      <3> DEFINE d == world.devices[i]
      <3>1. d.name \in AnyName /\ d.kind \in Kinds /\ d.master \in Nat /\ d.mate \in Nat
        BY <2>5, DeviceFacts
      <3>2. d.home \in world.namespaces \cup {None} BY <2>4 DEF Homes
      <3>3. d.master # 0 => d.master \in 1..Count(world) /\ world.devices[d.master].home = d.home
        BY <2>4 DEF Masters
      <3>4. d.mate # 0 => d.mate \in 1..Count(world) /\ world.devices[d.mate].mate = i
        BY <2>4 DEF Mates
      <3> QED BY <2>5, <3>1, <3>2, <3>3, <3>4
    <2> QED BY <2>1, <2>2, <2>3, <2>5, <2>6 DEF TypeOK, Count
  <1> QED BY <1>1, DevicesHold, PTL

\* The construction of an accepted section never meets a name that is taken.
THEOREM AcceptedNamesFree == Spec => []AcceptedNamesAreFree
  <1>1. DevicesInv => AcceptedNamesAreFree
    <2> SUFFICES ASSUME DevicesInv, stage = "build", NEW c \in todo, First(c, todo)
                 PROVE  /\ c.op \in {"add", "addveth"} => Find(world, c.name) = 0
                        /\ c.op = "addveth" => Find(world, c.arg) = 0 /\ c.name # c.arg
                        /\ c.op = "netns" => c.name \notin world.namespaces
      BY DEF AcceptedNamesAreFree
    <2>1. Accepted(section) /\ Walk(CallsOf(section), todo)
          /\ BuildOK(section, CallsDone, world)
      BY DEF DevicesInv, BuildInv
    <2>2. Upto(section, CallsDone, c) BY <2>1, UptoWalk DEF CallsDone
    <2> QED BY <2>1, <2>2, NamesAreFree DEF Makes
  <1> QED BY <1>1, DevicesHold, PTL

\* What was built has every device under the master the section gives it.
THEOREM MastersDeclared == Spec => []MastersAsDeclared
  <1>1. DevicesInv => MastersAsDeclared
    <2> SUFFICES ASSUME DevicesInv, stage = "built", NEW pair \in MastersOf(section)
                 PROVE  EnslavedTo(world, pair[1], pair[2])
      BY DEF MastersAsDeclared, EnslavedTo
    <2>1. section \in Linux /\ BuildOK(section, CallsOf(section), world)
      BY DEF DevicesInv, EndInv
    <2>2. PICK e \in CallsOf(section) : e.op = "enslave" /\ e.name = pair[1] /\ e.arg = pair[2]
      BY <2>1, MastersAreCalled DEF Enslaves
    <2> QED BY <2>1, <2>2 DEF BuildOK, Enslaved
  <1> QED BY <1>1, DevicesHold, PTL

\* Each namespace holds one device, the other end of the pair that was made
\* for it, though names are used again.
THEOREM NamespacesHold == Spec => []NamespacesHoldTheirPeers
  <1>1. DevicesInv => NamespacesHoldTheirPeers
    <2> SUFFICES ASSUME DevicesInv, stage = "built", NEW pair \in NamespacesOf(section)
                 PROVE  LET d == Find(world, pair[1])
                        IN  d # 0 /\ {i \in DOMAIN world.devices : world.devices[i].home = pair[2]}
                                       = {world.devices[d].mate}
      BY DEF NamespacesHoldTheirPeers
    <2>1. section \in Linux /\ BuildOK(section, CallsOf(section), world)
      BY DEF DevicesInv, EndInv
    <2>2. PICK m \in CallsOf(section) :
            m.op = "move" /\ m.arg = pair[2] /\ PairAt(section, m.at).name = pair[1]
      BY <2>1, NamespacesAreCalled DEF Moves
    <2> DEFINE a == PairAt(section, m.at)
    <2>3. a \in CallsOf(section) /\ a.op = "addveth" /\ a.at = m.at /\ a.name = pair[1]
      BY <2>1, <2>2, CallIs DEF MoveOK, PairAt, ACall
    <2> HIDE DEF a
    <2>4. PairThere(world, a) /\ MateMoved(world, a, pair[2])
      BY <2>1, <2>2, <2>3 DEF BuildOK, Pairs
    <2>5. DOMAIN world.devices = 1..Count(world) BY <2>1, WorldFacts DEF BuildOK
    <2> QED BY <2>3, <2>4, <2>5 DEF PairThere, MateMoved, Mate
  <1> QED BY <1>1, DevicesHold, PTL

\* The check is not stricter than the kernel about devices and namespaces: a
\* section it rejects for one breaks when its calls are made in their order
\* (validateLinux, config.go 605-780; configureLinux, runtime.go 399-495).
THEOREM RejectedCollide == Spec => []RejectedNamesCollide
  <1>1. DevicesInv => RejectedNamesCollide
    <2> SUFFICES ASSUME DevicesInv, stage \in {"device", "namespace"}
                 PROVE  BuildAll(section) = Broken
      BY DEF RejectedNamesCollide
    <2>1. section \in Linux /\ (DeviceTaken(section) \/ NamespaceTaken(section))
      BY DEF DevicesInv, EndInv
    <2> QED BY <2>1, TakenBreaks
  <1> QED BY <1>1, DevicesHold, PTL

=============================================================================
