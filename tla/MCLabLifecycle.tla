--------------------------- MODULE MCLabLifecycle ---------------------------
(* Small instances of LabLifecycle: the topologies its runs choose from.   *)
EXTENDS LabRefinement

MCRouters == {"r1", "r2"}
MCPorts == {"r1/eth1", "r1/eth2", "r2/eth1", "r2/eth2"}
MCRouterOf == [port \in MCPorts |->
                 IF port \in {"r1/eth1", "r1/eth2"} THEN "r1" ELSE "r2"]
MCLinkNames == {"lan", "wan"}

Lan(name) == [name |-> name, type |-> "bridge",
              members |-> <<"r1/eth1", "r2/eth1">>]
Wan(name) == [name |-> name, type |-> "p2p",
              members |-> <<"r1/eth2", "r2/eth2">>]

\* Two routers on one bridge and one point-to-point link.
BothLinks == [routers |-> <<"r1", "r2">>, links |-> <<Lan("lan"), Wan("wan")>>]
\* The same with the bridge link renamed, and with no link left.
Renamed == [routers |-> <<"r1", "r2">>, links |-> <<Lan("wan")>>]
NoLinks == [routers |-> <<"r1">>, links |-> <<>>]
\* One router with both members of a bridge.
OneRouter == [routers |-> <<"r1">>,
              links |-> <<[name |-> "lan", type |-> "bridge",
                           members |-> <<"r1/eth1", "r1/eth2">>]>>]

JustBoth   == {BothLinks}
JustOne    == {OneRouter}
Edited     == {Renamed, NoLinks}
AllThree   == {BothLinks, Renamed, NoLinks}
=============================================================================
