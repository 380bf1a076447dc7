-------------------------- MODULE MCSeedLifecycle ---------------------------
(* Small instances of SeedLifecycle: two routers and their scripts.        *)
EXTENDS SeedLifecycle

MCRouters == {"r1", "r2"}
MCOrder   == <<"r1", "r2">>

\* Seeds around a shell command in one router, one seed in the other.
Mixed == [x \in MCRouters |-> IF x = "r1" THEN <<"vtysh", "shell", "vtysh">>
                                          ELSE <<"vtysh">>]
\* One router only.
OneRouter  == {"r1"}
OneOrder   == <<"r1">>
TwoSeeds   == [x \in OneRouter |-> <<"vtysh", "vtysh">>]
=============================================================================
