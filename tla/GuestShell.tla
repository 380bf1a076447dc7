----------------------------- MODULE GuestShell ------------------------------
(***************************************************************************)
(* How frridge-mp runs one command in the guest and learns its exit        *)
(* status: systemCLI.Exec and Output in internal/multipass/system.go.      *)
(*                                                                         *)
(* `multipass shell` starts a shell in the guest, which reads a script     *)
(* from its standard input: some settings, the command, the status.  The   *)
(* shell reads line by line, so the command, which has the same input,     *)
(* can read what is left of the script.  Without an input of its own       *)
(* ("buffered") the output holds two markers, which parseShellOutput looks *)
(* for; with one ("stream") the user's lines follow the script and the     *)
(* shell's own exit status is the answer.                                  *)
(*                                                                         *)
(* The output is a sequence of words.  Markers hold a random token that no *)
(* command can know unless it reads the script.  A command that runs what  *)
(* it reads as a script, or puts a status of its own after a marker it     *)
(* read, is left out.                                                      *)
(***************************************************************************)
EXTENDS Integers, Sequences, SequencesExt

CONSTANTS
    Status,     \* exit statuses of the command, as the digits printf writes
    Zero,       \* that of success
    Word,       \* what a command writes besides markers
    MaxWords,   \* bound on the words written
    NoStatus

VARIABLES
    mode,      \* "buffered" or "stream"
    input,     \* lines the guest's shell has not read
    settings,  \* of the shell: errexit, nounset, and its variable `status`
    command,   \* NotRun, Running, or how it ended
    output,    \* what reached the host
    state,     \* of the connection: Unopened, Opened, then its exit status
    answer,    \* what Exec or Output returns
    history    \* what it wrote before the report; what disturbed it

shellVars == <<mode, input, settings, command, output, state, answer, history>>

\* What is no status yet.
Unopened == <<"unopened">>
Opened   == <<"opened">>
NotRun   == <<"not run">>
Running  == <<"running">>

Digit == {"0", "1", "2", "3", "4", "5", "6", "7", "8", "9"}
Mark  == {"begin", "newline", "status"}

ASSUME StatusAssumption ==
    /\ Zero = <<"0">> /\ Zero \in Status /\ Status \subseteq Seq(Digit)
    /\ NoStatus \notin Status
ASSUME WordAssumption == "text" \in Word /\ Word \cap Mark = {} /\ MaxWords \in Nat

\* strconv.Itoa of 0..255, as digits.
IsCode(s) ==
    /\ s # <<>> /\ Len(s) <= 3 /\ \A i \in DOMAIN s : s[i] \in Digit
    /\ Len(s) > 1 => s[1] # "0"
    /\ Len(s) = 3 =>
         \/ s[1] = "1"
         \/ s[1] = "2" /\ s[2] \in {"0", "1", "2", "3", "4"}
         \/ s[1] = "2" /\ s[2] = "5" /\ s[3] \in {"0", "1", "2", "3", "4", "5"}

ASSUME CodeAssumption == \A s \in Status : IsCode(s)

\* buildShellScript.  Mutant: errexit stays on for the command.
ScriptWithErrexit(m) ==
    <<"set", "cd", "export">> \o
    IF m = "buffered" THEN <<"begin", "command", "status", "report", "exit">>
    ELSE <<"command", "status", "exitstatus">>

Script(m) ==
    <<"set", "cd", "export">> \o
    IF m = "buffered" THEN <<"begin", "noerrexit", "command", "status", "report", "exit">>
    ELSE <<"noerrexit", "command", "status", "exitstatus">>

\* What follows the status marker in the script.
Format == <<"text">>

Off ==
    /\ mode = "buffered" /\ input = <<>> /\ command = NotRun /\ output = <<>> /\ state = Unopened
    /\ settings = [errexit |-> FALSE, nounset |-> FALSE, status |-> NoStatus]
    /\ answer = [kind |-> "none", status |-> NoStatus, output |-> <<>>]
    /\ history = [words |-> <<>>, read |-> FALSE, late |-> 0, cut |-> FALSE, failed |-> FALSE]

\* Messages of the login may come first.
Open(m) ==
    /\ state = Unopened /\ state' = Opened /\ mode' = m
    /\ input' = Script(m) \o (IF m = "stream" THEN <<"users">> ELSE <<>>)
    /\ output' \in {<<>>} \cup {<<w, "newline">> : w \in Word}
    /\ UNCHANGED <<settings, command, answer, history>>

-----------------------------------------------------------------------------
(* The guest's shell.                                                      *)

Idle == state = Opened /\ command # Running
Reads(line) == Idle /\ input # <<>> /\ Head(input) = line
Ends(code) == state' = code

\* Settings, and lines of which the command read a part: they fail or do
\* nothing.
Set ==
    /\ \/ /\ Reads("set") /\ settings' = [settings EXCEPT !.errexit = TRUE, !.nounset = TRUE]
       \/ Reads("noerrexit") /\ settings' = [settings EXCEPT !.errexit = FALSE]
       \/ \E line \in {"export", "torn"} : Reads(line) /\ UNCHANGED settings
    /\ input' = Tail(input)
    /\ UNCHANGED <<mode, command, output, state, answer, history>>

\* A directory that is missing ends the script.
ChangeDir ==
    /\ Reads("cd") /\ input' = Tail(input)
    /\ \/ UNCHANGED <<state, history>>
       \/ settings.errexit /\ Ends(<<"1">>) /\ history' = [history EXCEPT !.failed = TRUE]
    /\ UNCHANGED <<mode, settings, command, output, answer>>

PrintBegin ==
    /\ Reads("begin") /\ input' = Tail(input)
    /\ output' = output \o <<"begin", "newline">>
    /\ UNCHANGED <<mode, settings, command, state, answer, history>>

StartCommand ==
    /\ Reads("command") /\ input' = Tail(input) /\ command' = Running
    /\ UNCHANGED <<mode, settings, output, state, answer, history>>

\* With errexit, a command that fails would end the shell.
CommandEnds ==
    /\ state = Opened /\ command = Running
    /\ \E s \in Status :
         /\ command' = s
         /\ IF settings.errexit /\ s # Zero THEN Ends(s) ELSE UNCHANGED state
    /\ UNCHANGED <<mode, input, settings, output, answer, history>>

SaveStatus ==
    /\ Reads("status") /\ input' = Tail(input)
    /\ settings' = [settings EXCEPT !.status = command]
    /\ UNCHANGED <<mode, command, output, state, answer, history>>

\* printf of the status; with nounset, a variable that was never set ends the
\* shell.
Report ==
    /\ Reads("report") /\ input' = Tail(input)
    /\ \/ /\ settings.status # NoStatus /\ UNCHANGED state
          /\ output' = output \o <<"status">> \o settings.status \o <<"newline">>
       \/ settings.status = NoStatus /\ Ends(<<"1">>) /\ UNCHANGED output
    /\ UNCHANGED <<mode, settings, command, answer, history>>

\* The script's exit, the user's lines, which the shell runs if it gets to
\* them, or the end of the input.
ShellEnds ==
    /\ \/ Reads("exit") /\ Ends(Zero)
       \/ /\ Reads("exitstatus")
          /\ Ends(IF settings.status = NoStatus THEN <<"1">> ELSE settings.status)
       \/ Reads("users") /\ state' \in Status
       \/ Idle /\ input = <<>> /\ state' \in Status
    /\ UNCHANGED <<mode, input, settings, command, output, answer, history>>

-----------------------------------------------------------------------------
(* The command, its children, and the connection.                          *)

\* The command, or a child that outlives it, writes; what it echoes of the
\* script holds the status marker, with the text that follows it there.
Write ==
    /\ state = Opened /\ command # NotRun /\ Len(history.words) + history.late < MaxWords
    /\ \E words \in {<<w>> : w \in Word \cup {"newline"}}
                     \cup (IF history.read THEN {<<"status">> \o Format} ELSE {}) :
         /\ output' = output \o words
         /\ history' = IF \E i \in DOMAIN input : input[i] \in {"report", "exitstatus"}
                       THEN [history EXCEPT !.words = @ \o words]
                       ELSE [history EXCEPT !.late = @ + 1]
    /\ UNCHANGED <<mode, input, settings, command, state, answer>>

\* It reads a line, or a part of one.
Read ==
    /\ state = Opened /\ command # NotRun /\ input # <<>>
    /\ \/ input' = Tail(input)
       \/ Head(input) # "torn" /\ input' = <<"torn">> \o Tail(input)
    /\ history' = [history EXCEPT !.read = TRUE]
    /\ UNCHANGED <<mode, settings, command, output, state, answer>>

\* The connection is lost, or multipass shell is killed, with a part of the
\* output, whatever its exit status is then.
Cut ==
    /\ state # Unopened /\ answer.kind = "none"
    /\ \E n \in 0..Len(output) : output' = SubSeq(output, 1, n)
    /\ state' \in {Zero, <<"1">>}
    /\ history' = [history EXCEPT !.cut = TRUE]
    /\ UNCHANGED <<mode, input, settings, command, answer>>

-----------------------------------------------------------------------------
(* execBuffered, Output and Exec.                                          *)

Answer(kind, status, words) == [kind |-> kind, status |-> status, output |-> words]

\* Mutant: the newline after the status is optional.
EndsAnyhow(words) == IF words # <<>> /\ Last(words) = "newline" THEN Front(words) ELSE words

\* What is left of a status text that ends with a newline.
Terminated(words) == IF words # <<>> /\ Last(words) = "newline" THEN Front(words) ELSE <<>>

\* parseShellOutput: after the first output marker with its newline, up to the
\* last status marker.
Parse(words) ==
    LET begins == {i \in 1..(Len(words) - 1) : words[i] = "begin" /\ words[i + 1] = "newline"}
        first  == CHOOSE i \in begins : \A j \in begins : i <= j
        rest   == SubSeq(words, first + 2, Len(words))
        marks  == {i \in DOMAIN rest : rest[i] = "status"}
        last   == CHOOSE i \in marks : \A j \in marks : j <= i
        code   == Terminated(SubSeq(rest, last + 1, Len(rest)))
    IN  IF begins # {} /\ marks # {} /\ IsCode(code)
        THEN Answer(IF code = Zero THEN "success" ELSE "exited", code, SubSeq(rest, 1, last - 1))
        ELSE Answer("protocol", NoStatus, <<>>)

Reply ==
    /\ state \notin {Unopened, Opened} /\ answer.kind = "none"
    /\ answer' = CASE state # Zero -> Answer("shell", state, <<>>)
                   [] state = Zero /\ mode = "stream" -> Answer("success", Zero, output)
                   [] state = Zero /\ mode = "buffered" -> Parse(output)
    /\ UNCHANGED <<mode, input, settings, command, output, state, history>>

ShellNext ==
    \/ Set \/ ChangeDir \/ PrintBegin \/ StartCommand \/ CommandEnds \/ SaveStatus \/ Report
    \/ ShellEnds \/ Write \/ Read \/ Cut \/ Reply

\* One command, of either kind.
ShellStep == ShellNext \/ \E m \in {"buffered", "stream"} : Open(m)
ShellSpec == Off /\ [][ShellStep]_shellVars

-----------------------------------------------------------------------------
(* Properties.                                                             *)

\* What the markers say is what happened: the command ran to its end, with
\* this status and this output, whatever of the script it read or echoed,
\* whatever its children wrote, and wherever the output was cut
\* (system.go 243-275, 303-327).
AnswerIsTheCommands ==
    mode = "buffered" /\ answer.kind \in {"success", "exited"} =>
        command = answer.status /\ answer.output = history.words

\* A command that read nothing, wrote nothing after its end and kept its
\* connection gets its status through, by either way, whatever it wrote
\* (system.go 124-147, 186-221).
UndisturbedIsAnswered ==
    answer.kind # "none" /\ ~history.read /\ history.late = 0 /\ ~history.cut /\ ~history.failed =>
        IF command = Zero THEN answer.kind = "success"
        ELSE answer.kind = (IF mode = "buffered" THEN "exited" ELSE "shell")
             /\ answer.status = command
=============================================================================
