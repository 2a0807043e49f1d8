--------------------------- MODULE MonitorClient ---------------------------
(***************************************************************************)
(* The monitor's client program (src/client/main.c over protocol.c) at the *)
(* other end of a monitor session: a screen sends one command and blocks   *)
(* in read_response for the lines of its answer.                           *)
(*                                                                         *)
(* The peer of the session is this program or any other ("raw"), which     *)
(* sends what it likes and is MonitorSession's client.  The program         *)
(* connects to 127.0.0.1 only; its user may interrupt it at any time.      *)
(***************************************************************************)
EXTENDS MonitorSession

CONSTANTS
    MaxRespLines,  \* MAX_RESP_LINES
    ConfigCount,   \* config_count
    MaxCommands    \* bound: commands of the login screen and of the menu

ASSUME ClientAssumption ==
    /\ MaxRespLines \in Nat \ {0}
    /\ ConfigCount \in Nat
    /\ MaxCommands \in Nat

VARIABLE tool

toolVars == <<vars, tool>>

\* at: the screen; waiting: blocked in read_line; max: the lines that
\* read_response accepts, 0 for the loops without a limit; lines: those it has
\* read; failed: the first is -ERR; got: units read of out; left: commands
\* still allowed, or parameters still to fetch; sent: commands sent.
Raw == [at |-> "raw", waiting |-> FALSE, max |-> 0, lines |-> 0,
        failed |-> FALSE, got |-> 0, left |-> 0, sent |-> 0]

\* main() has connected and reads the greeting.
Connected == [Raw EXCEPT !.at = "greeting", !.waiting = TRUE]

ToolInit == Init /\ tool \in {Raw, Connected}

-----------------------------------------------------------------------------
(***************************************************************************)
(* protocol.c                                                              *)
(***************************************************************************)
Line(text) == text \o <<"nl">>

\* A command whose arguments the server refuses.
Refused == <<"AUTH", "AUTH">>

\* write_all, and read_response begins.  A command is shorter than a line.
Command(text, screen, max) ==
    /\ input' = input \o Line(text)
    /\ tool' = [tool EXCEPT !.at = screen, !.waiting = TRUE, !.max = max,
                            !.lines = 0, !.failed = FALSE, !.sent = @ + 1,
                            !.left = IF @ = 0 THEN 0 ELSE @ - 1]
    /\ UNCHANGED <<s, open, interest, nread, peer, out>>

\* cmd_stats too.
cmd_simple(text) == Command(text, tool.at, 2)

cmd_config_get == cmd_simple(<<"SET">>)

cmd_list == Command(<<"LIST">>, tool.at, MaxRespLines)

cmd_quit == Command(<<"QUIT">>, "quit", 0)

Unread == SubSeq(out, tool.got + 1, Len(out))

\* read_line takes a byte at a time: a line of which part has arrived blocks it.
LineArrived == Unread # << >> /\ (Unread[1] = "dot" \/ Len(Unread) > 1)

\* Mutant (InSync): the answer is taken for complete at its last text line.
AnswerFull_Early(max, lines) == max > 0 /\ lines + 1 >= max

\* read_response returns with max_lines, the rest of the answer unread.
AnswerFull(max, lines) == max > 0 /\ lines >= max

-----------------------------------------------------------------------------
(***************************************************************************)
(* main.c                                                                  *)
(***************************************************************************)
\* The call returns to its screen.  The greeting's loop and fetch_config_values
\* go on whatever they read; cmd_auth succeeds on a first line that is not -ERR.
Return(t) ==
    LET back == [t EXCEPT !.waiting = FALSE]
    IN  CASE t.at = "greeting" -> [back EXCEPT !.at = "login", !.left = MaxCommands]
          [] t.at = "login" /\ ~t.failed ->
                [back EXCEPT !.at = "config", !.left = ConfigCount]
          [] t.at = "config" /\ (t.failed \/ t.left = 0) ->
                [back EXCEPT !.at = "menu", !.left = MaxCommands]
          [] OTHER -> back

read_response ==
    /\ tool.waiting
    /\ LineArrived
    /\ tool' =
          IF Unread[1] = "dot"
            THEN Return([tool EXCEPT !.got = @ + 1,
                                     !.failed = @ \/ (tool.max > 0 /\ tool.lines = 0)])
            ELSE LET t == [tool EXCEPT
                             !.got = @ + 2,
                             !.lines = @ + 1,
                             !.failed = @ \/ (tool.lines = 0 /\ Unread[1] = "err")]
                 IN  IF AnswerFull(t.max, t.lines) THEN Return(t) ELSE t
    /\ UNCHANGED vars

At(screen) == tool.at = screen /\ ~tool.waiting

\* close(fd): with answers unread the connection is reset.
Close ==
    /\ tool' = [tool EXCEPT !.at = "gone", !.waiting = FALSE]
    /\ peer' = IF Unread = << >> THEN "shut" ELSE "reset"
    /\ UNCHANGED <<s, open, interest, input, nread, out>>

screen_login ==
    /\ At("login")
    /\ \/ tool.left > 0 /\ \E text \in {<<"AUTH">>, Refused} : cmd_simple(text)
       \/ Close

fetch_config_values ==
    /\ At("config")
    /\ cmd_config_get

\* The screens of the listings.
screen_list == tool.left > 0 /\ cmd_list

\* The screens that ask for arguments, one command at a time; the user may
\* also leave them without sending any.
screen_change ==
    tool.left > 0 /\ \E text \in {<<"SET">>, Refused} : cmd_simple(text)

screen_main_menu == At("menu") /\ (screen_list \/ screen_change \/ cmd_quit)

Disconnect == At("quit") /\ Close

\* sigint_handler: the program ends wherever it is.
sigint_handler ==
    /\ tool.at \notin {"raw", "gone"}
    /\ Close

ToolStep ==
    \/ read_response
    \/ screen_login \/ fetch_config_values \/ screen_main_menu
    \/ Disconnect \/ sigint_handler

\* What the program's end leaves in flight may reset the connection.
ToolNext ==
    \/ (monitor_client_read \/ monitor_client_write) /\ UNCHANGED tool
    \/ tool.at = "raw" /\ (ClientSend \/ ClientShut) /\ UNCHANGED tool
    \/ tool.at \in {"raw", "gone"} /\ ClientReset /\ UNCHANGED tool
    \/ ToolStep

ToolSpec == ToolInit /\ [][ToolNext]_toolVars

\* The server's fairness is MonitorSession's; the program reads what arrives,
\* its user is free to do nothing.
FairToolSpec ==
    /\ ToolSpec
    /\ WF_toolVars(monitor_client_read /\ UNCHANGED tool)
    /\ WF_toolVars(monitor_client_write /\ UNCHANGED tool)
    /\ WF_toolVars(read_response)

-----------------------------------------------------------------------------
(***************************************************************************)
(* Properties                                                              *)
(***************************************************************************)
\* The longest answer fits the session's buffer and the program's array.
AnswersFit == 2 * ListLines + 1 <= Cap /\ ListLines < MaxRespLines

\* Between two commands of the program everything it sent was answered and
\* every answer was read to its end, so that no command is shown the answer of
\* another; and the menu is open only to a session the server authenticated.
InSync ==
    AnswersFit /\ tool.at \notin {"raw", "gone"} /\ ~tool.waiting =>
       /\ nread = Len(input)
       /\ s.owed = tool.sent + 1
       /\ ~buffer_can_read(s.wb)
       /\ tool.got = Len(out)
       /\ tool.at \in {"config", "menu"} => s.state = "AUTHENTICATED"

\* A command the program has sent returns to its screen: no answer leaves it
\* blocked for a line that will not come.
CommandReturns == AnswersFit /\ tool.waiting ~> ~tool.waiting
=============================================================================
