--------------------------- MODULE LabRefinement ----------------------------
(***************************************************************************)
(* LabLifecycle, with commands that run one at a time, implements the      *)
(* contract of a lab.                                                      *)
(***************************************************************************)
EXTENDS LabLifecycle

OneCommand == \E p \in Procs : Procs = {p}

\* The status of the lab, and the one command.
LabStatus ==
    CASE IsLegacy(stateFile)                              -> "legacy"
      [] stateFile # None /\ ~IsLegacy(stateFile)         -> "recorded"
      [] stateFile = None /\ lost.containers # {}         -> "unknown"
      [] OTHER                                            -> "absent"

TheCommand == proc[CHOOSE p \in Procs : TRUE].cmd

Lab == INSTANCE LabContract
         WITH UserCommands <- Commands, status <- LabStatus, command <- TheCommand

\* Every step of a command is a step of the contract or none: only up makes a
\* record and only of an absent lab, only a cleanup that saw no error erases
\* it, only migrate-state ends a legacy one, and unknown containers are left to
\* the operator (runtime.go 103-241, 551-644; README.md 93-130).
KeepsContract == Lab!Contract
=============================================================================
