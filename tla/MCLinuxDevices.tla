--------------------------- MODULE MCLinuxDevices ----------------------------
(* Small instances of LinuxDevices: sections with every kind of entry.     *)
EXTENDS LinuxDevices

CONSTANTS lo, eth, a, b, x, n1, n2

MCNames      == {lo, eth, a, b, x}
MCNamespaces == {n1, n2}
Upto1(S)     == {<<>>} \cup {<<e>> : e \in S}

Section(vrfs, bonds, interfaces, veths, routes, bridges) ==
    [vrfs |-> vrfs, bonds |-> bonds, interfaces |-> interfaces, veths |-> veths,
     routes |-> routes, bridges |-> bridges]

\* Two pairs of any names, some with namespaces, beside a VRF and a bridge
\* with a namespace.
NameSections ==
    LET veths == [name : {eth, a, b}, peer : {a, b, x}, master : {None},
                  namespace : {None, n1, n2}]
        bridge(n, ns) == [name |-> n, master |-> None, ports |-> <<>>, vxlans |-> <<>>,
                          namespaces |-> ns]
    IN  {Section(vrfs, <<>>, <<>>, <<v, w>>, <<None>>, bridges) :
           vrfs \in {<<>>, <<a>>, <<x>>}, v \in veths, w \in veths,
           bridges \in Upto1({bridge(n, ns) : n \in {b}, ns \in {<<>>, <<n1>>}})}

\* A bond, a bridge, two interfaces and a pair that give and take masters.
MasterSections ==
    LET bonds   == [name : {a}, master : {None, b}, ports : {<<>>, <<eth>>, <<x>>}]
        bridges == [name : {b}, master : {None, x}, ports : {<<>>, <<eth>>, <<a, eth>>},
                    vxlans : {<<>>, <<x>>}, namespaces : {<<>>, <<n1, n2>>}]
        ifs     == [name : {eth}, master : {None, a, b}]
        veths   == [name : {x}, peer : {lo, a}, master : {b}, namespace : {None, n1}]
    IN  {Section(vrfs, bs, is, vs, <<eth>>, brs) :
           vrfs \in {<<>>, <<x>>}, bs \in Upto1(bonds), brs \in Upto1(bridges),
           is \in Upto1(ifs) \cup {<<[name |-> eth, master |-> None],
                                     [name |-> a, master |-> b]>>},
           vs \in Upto1(veths)}

MCSections == NameSections \cup MasterSections
=============================================================================
