---------------------------- MODULE LabContract -----------------------------
(***************************************************************************)
(* What the frridge commands promise about one lab, as its user sees it:   *)
(* the lab has a status, and one command at a time may change it.          *)
(*                                                                         *)
(*   absent    nothing says the lab exists                                 *)
(*   recorded  its state file accounts for what exists of it               *)
(*   legacy    its state file is of an older version, without bridges      *)
(*   unknown   containers exist that no state file accounts for            *)
(***************************************************************************)
CONSTANT UserCommands   \* the commands users give

VARIABLES
    status,    \* of the lab
    command    \* the one that is running, or "none"

contractVars == <<status, command>>

Start ==
    /\ status \in {"absent", "recorded", "legacy"}
    /\ command = "none"

Give == command = "none" /\ command' \in UserCommands /\ UNCHANGED status

\* A command ends without changing the status: it had nothing to do, refused,
\* failed, rolled back, was cancelled or was killed.
Quit == command # "none" /\ command' = "none" /\ UNCHANGED status

\* Only up makes a record, and only of a lab that was absent: of all of it, or
\* of what a failed rollback left.
Publish ==
    /\ command \in {"up", "recreate"} /\ status = "absent"
    /\ status' = "recorded" /\ command' = "none"

\* Only a cleanup takes the record away: down ends with it, the others go on.
Erase ==
    /\ command \in {"down", "purge", "recreate"} /\ status = "recorded"
    /\ status' = "absent"
    /\ command' = IF command = "down" THEN "none" ELSE command

Migrate ==
    /\ command = "migrate" /\ status = "legacy"
    /\ status' = "recorded" /\ command' = "none"

\* up is killed, or cannot save the inventory of its failed rollback.
Lose ==
    /\ command \in {"up", "recreate"} /\ status = "absent"
    /\ status' = "unknown" /\ command' = "none"

\* No command leaves the unknown status: only the operator's own cleaning.
Clean == command = "none" /\ status = "unknown" /\ status' = "absent" /\ UNCHANGED command

ContractNext == Give \/ Quit \/ Publish \/ Erase \/ Migrate \/ Lose \/ Clean

Contract == Start /\ [][ContractNext]_contractVars
=============================================================================
