------------------------------ MODULE MpCommand ------------------------------
(***************************************************************************)
(* One frridge-mp command (cmd/frridge-mp/root.go): its topology is        *)
(* checked (HostDirCoverage), the guest is prepared (module GuestPrepare,  *)
(* one step here), and a command runs there (GuestShell).  `shell`,        *)
(* `exec` and `console` without --file have no topology to check.          *)
(***************************************************************************)
EXTENDS HostDirCoverage, GuestShell

MpInit == Init /\ Off

Check == Next /\ UNCHANGED shellVars

\* service.Shell, Exec or Frridge: only `console`, `shell` and `exec` pass the
\* user's input on.  What was checked is not needed any more; it is put back
\* to fixed values, which saves states and nothing else.
Contact ==
    /\ stage \in {"file", "forwarded"}
    /\ \E m \in {"buffered", "stream"} :
         /\ stage = "file" => m = "stream"
         /\ Open(m)
    /\ stage' = "guest" /\ todo' = <<>> /\ walk' = NoWalk /\ hostDir' = <<>>
    /\ tree' = CHOOSE t \in Trees : TRUE
    /\ request' = CHOOSE r \in Requests : TRUE

Use ==
    /\ stage = "guest" /\ UNCHANGED vars
    /\ ShellNext

MpNext == Check \/ Contact \/ Use

MpSpec == MpInit /\ [][MpNext]_<<vars, shellVars>>

=============================================================================
