---------------------------- MODULE MCMpCommand -----------------------------
(* Small file systems and requests for MpCommand.                          *)
EXTENDS MpCommand

MCName == {"h", "out", "a", "w", "l", "y", "no", "guest"}

\* /h is the host directory, /w a link to it; /h/l links anywhere.
Links == {LinkTo(abs, to) : abs \in BOOLEAN,
          to \in {<<>>} \cup {<<x>> : x \in {"a", "no", "h", "l", ".."}}
                   \cup {<<x, y>> : x \in {"..", "no", "a", "h"}, y \in {"..", "out", "h", "l", "no"}}
                   \cup {<<x, "..", z>> : x \in {"l", "no", "a", "w"}, z \in {"..", "no", "l", "out"}}}
Top == {<<>>, <<"h">>, <<"out">>, <<"h", "a">>}
Tree(link, y) ==
    [path \in Top \cup {<<"w">>, <<"h", "y">>, <<"h", "a", "y">>, <<"h", "l">>} |->
       CASE path \in Top -> Directory
         [] path = <<"w">> -> LinkTo(TRUE, <<"h">>)
         [] path = <<"h", "y">> -> y
         [] path = <<"h", "a", "y">> -> File
         [] path = <<"h", "l">> -> link]
MCTrees == {Tree(link, y) : link \in Links, y \in {File, LinkTo(FALSE, <<"a", "y">>)}}

Source(abs, parts) == [abs |-> abs, parts |-> parts]
MCSources ==
    {<<>>} \cup {<<Source(FALSE, parts)>> : parts \in
        {<<"l">>, <<"l", "no">>, <<"l", "a">>, <<"l", "y">>, <<"no", "..", "l">>, <<"..", "out">>}}
      \cup {<<Source(TRUE, <<"h", "a">>), Source(FALSE, <<"no">>)>>,
            <<Source(FALSE, <<"a">>), Source(TRUE, <<"w", "l", "no">>)>>}
MCRequests ==
    {[file |-> file, cwd |-> cwd, hostFlag |-> flag, hostDir |-> dir, sources |-> sources] :
       file \in {<<"h", "y">>, <<"w", "y">>, <<"h", "no">>}, cwd \in {<<"w">>, <<"h">>},
       flag \in {"blank"}, dir \in {<<>>}, sources \in MCSources}
    \cup
    {[file |-> file, cwd |-> <<>>, hostFlag |-> flag, hostDir |-> dir, sources |-> sources] :
       file \in {<<"h", "y">>}, flag \in {"unset", "given"},
       dir \in {<<"h">>, <<"w">>, <<"h", "a">>, <<"h", "l", "no">>}, sources \in MCSources}
MCUniverse == {<<x>> : x \in MCName} \cup {<<x, y>> : x \in {"h", "out", "no"}, y \in MCName}
    \cup {<<"h", x, y>> : x \in {"a", "no"}, y \in MCName}
MCGuestDir == <<"a", "guest">>

\* The theorem about what the guest sees is about this instance too.
ASSUME NewNameAssumption == GuestNameIsNew

MCStatus == {<<"0">>, <<"1">>, <<"1", "7">>}
MCZero == <<"0">>
MCWord == {"text", "0"}
MCNoStatus == <<"unset">>
=============================================================================
