--------------------------- MODULE MonitorSession ---------------------------
(***************************************************************************)
(* One connection of the monitor port: the selector handlers of            *)
(* src/server/monitor/monitor.c over the line protocol of                  *)
(* monitor_commands.c.                                                     *)
(*                                                                         *)
(* A unit of input is "nl", "cr", or the text of a whole command with its  *)
(* arguments: AUTH, a listing, QUIT, or a command that is answered by one  *)
(* line and ends in an argument that is any text, as SET_PASSWORD does     *)
(* (SET): what follows on the line is part of that argument.  A line of    *)
(* any other shape is one the server answers with -ERR (a rejected AUTH is *)
(* such a line).  A reply line is two units, its verdict and its end, the  *)
(* terminator ".\n" one.  The read buffer rb is empty between handlers:    *)
(* every handler that fills it drains it.                                  *)
(***************************************************************************)
EXTENDS Buffer, FiniteSets, SequencesExt

CONSTANTS
    LineMax,      \* MONITOR_LINE_MAX
    ListLines,    \* lines in the reply of a listing (USERS, ACCESS_LOG...)
    MaxSent       \* bound: units the client sends

ASSUME MonitorAssumption ==
    /\ LineMax \in Nat \ {0}
    /\ ListLines \in Nat
    /\ MaxSent \in Nat
    /\ Cap >= 3

VARIABLES
    s,            \* struct monitor_commands_session, and ghosts
    open,         \* the session exists
    interest,     \* its registration in the selector
    input,        \* units the client has sent
    nread,        \* of which read
    peer,         \* "open"; "shut": half-closed; "reset"
    out           \* units the client has been sent

vars == <<s, open, interest, input, nread, peer, out>>

Verbs == {"AUTH", "LIST", "SET", "QUIT"}
Units == Verbs \cup {"cr", "nl"}

ReplyLine(verdict) == <<verdict, "end">>
Terminator == <<"dot">>

Reply == {"ok", "err", "end", "dot"}

\* said, owed, ran and rejected are ghosts: what found room in wb, the replies
\* that began, the commands that ran, the lines refused for their length.
Session == [state : {"AWAIT_AUTH", "AUTHENTICATED"},
            line : Seq(Units),
            wb : Buffers(Reply),
            close_after_flush : BOOLEAN,
            said : Seq(Reply), owed : Nat, ran : Seq(Verbs), rejected : Nat]

-----------------------------------------------------------------------------
(***************************************************************************)
(* monitor_commands.c                                                      *)
(***************************************************************************)
\* Mutant (RepliesExact): a text that does not fit is cut.
commands_wb_append_Cut(t, text) ==
    LET n == IF buffer_space(t.wb) < Len(text) THEN buffer_space(t.wb) ELSE Len(text)
    IN  [t EXCEPT !.wb = buffer_write_adv(@, SubSeq(text, 1, n)),
                  !.said = @ \o text]

\* All or nothing; the callers ignore a failure.
commands_wb_append(t, text) ==
    IF buffer_space(t.wb) < Len(text) THEN t
    ELSE [t EXCEPT !.wb = buffer_write_adv(@, text), !.said = @ \o text]

commands_wb_append_lines(t, verdict, n) ==
    LET after[i \in 0..n] ==
          IF i = 0 THEN t ELSE commands_wb_append(after[i - 1], ReplyLine(verdict))
    IN  after[n]

monitor_commands_session_init ==
    [state |-> "AWAIT_AUTH", line |-> << >>, wb |-> buffer_init,
     close_after_flush |-> FALSE,
     said |-> << >>, owed |-> 0, ran |-> << >>, rejected |-> 0]

\* A reply of n lines.
Answer(t, verdict, n) ==
    LET body == commands_wb_append_lines(t, verdict, n)
    IN  [commands_wb_append(body, Terminator) EXCEPT !.owed = @ + 1]

monitor_commands_queue_greeting(t) == Answer(t, "ok", 1)

monitor_commands_should_close(t) ==
    t.close_after_flush /\ ~buffer_can_read(t.wb)

split_line(line) ==
    CASE line = << >> -> "none"
      [] line # << >> /\ line[1] = "SET" -> "SET"
      [] Len(line) = 1 /\ line[1] \in {"AUTH", "LIST", "QUIT"} -> line[1]
      [] OTHER -> "other"

\* Before AUTH every other command is answered with an error and not run.
handle_auth(t) == Answer([t EXCEPT !.state = "AUTHENTICATED"], "ok", 1)

handle_quit(t) ==
    Answer([t EXCEPT !.ran = Append(@, "QUIT"), !.close_after_flush = TRUE], "ok", 1)

\* USERS, CONNECTIONS, ACCESS_LOG, DENY_LIST.
handle_list(t) == Answer([t EXCEPT !.ran = Append(@, "LIST")], "ok", ListLines)

\* STATS, CONFIG and the commands that change the store.
handle_one(t) == Answer([t EXCEPT !.ran = Append(@, "SET")], "ok", 1)

\* Mutant (CommandsExact): the gate lets QUIT through.
dispatch_line_QuitBeforeAuth(t, line) ==
    LET cmd == split_line(line)
    IN  CASE cmd = "none" -> t
          [] cmd = "QUIT" -> handle_quit(t)
          [] t.state = "AWAIT_AUTH" /\ cmd = "AUTH" -> handle_auth(t)
          [] t.state = "AUTHENTICATED" /\ cmd = "LIST" -> handle_list(t)
          [] t.state = "AUTHENTICATED" /\ cmd = "SET" -> handle_one(t)
          [] OTHER -> Answer(t, "err", 1)

\* Mutant (CommandReturns): the refusal before AUTH returns without ".\n".
dispatch_line_NoTerminator(t, line) ==
    LET cmd == split_line(line)
    IN  CASE cmd = "none" -> t
          [] t.state = "AWAIT_AUTH" /\ cmd = "AUTH" -> handle_auth(t)
          [] t.state = "AWAIT_AUTH" /\ cmd # "AUTH" -> commands_wb_append(t, ReplyLine("err"))
          [] t.state = "AUTHENTICATED" /\ cmd = "LIST" -> handle_list(t)
          [] t.state = "AUTHENTICATED" /\ cmd = "SET" -> handle_one(t)
          [] t.state = "AUTHENTICATED" /\ cmd = "QUIT" -> handle_quit(t)
          [] OTHER -> Answer(t, "err", 1)

dispatch_line(t, line) ==
    LET cmd == split_line(line)
    IN  CASE cmd = "none" -> t
          [] t.state = "AWAIT_AUTH" /\ cmd = "AUTH" -> handle_auth(t)
          [] t.state = "AUTHENTICATED" /\ cmd = "LIST" -> handle_list(t)
          [] t.state = "AUTHENTICATED" /\ cmd = "SET" -> handle_one(t)
          [] t.state = "AUTHENTICATED" /\ cmd = "QUIT" -> handle_quit(t)
          [] OTHER -> Answer(t, "err", 1)

StripCr(line) ==
    IF line # << >> /\ Last(line) = "cr" THEN Front(line) ELSE line

\* The unit that finds the line full is dropped with it, a newline too; what
\* follows starts a new line.
process_byte(t, ch) ==
    IF Len(t.line) >= LineMax
      THEN Answer([t EXCEPT !.line = << >>, !.rejected = @ + 1], "err", 1)
      ELSE IF ch = "nl"
      THEN [dispatch_line(t, StripCr(t.line)) EXCEPT !.line = << >>]
      ELSE [t EXCEPT !.line = Append(@, ch)]

monitor_commands_feed(t, data) ==
    LET after[i \in 0..Len(data)] ==
          IF i = 0 THEN t ELSE process_byte(after[i - 1], data[i])
    IN  after[Len(data)]

\* Mutant (HalfCloseServed): a line needs its newline.
monitor_commands_flush_on_eof_Drops(t) == [t EXCEPT !.line = << >>]

\* The carriage return is not stripped here: it makes a verb unknown, and a
\* last argument longer.
monitor_commands_flush_on_eof(t) ==
    [dispatch_line(t, t.line) EXCEPT !.line = << >>]

-----------------------------------------------------------------------------
(***************************************************************************)
(* monitor.c                                                               *)
(***************************************************************************)
monitor_client_interest(t) ==
    {"read"} \cup (IF buffer_can_read(t.wb) THEN {"write"} ELSE {})

\* monitor_passive_read and monitor_session_init.
Init ==
    /\ s = monitor_commands_queue_greeting(monitor_commands_session_init)
    /\ open = TRUE
    /\ interest = monitor_client_interest(s)
    /\ input = << >>
    /\ nread = 0
    /\ peer = "open"
    /\ out = << >>

monitor_client_close(t) ==
    /\ s' = t
    /\ open' = FALSE
    /\ interest' = {}

Stay(t) ==
    /\ s' = t
    /\ interest' = monitor_client_interest(t)
    /\ UNCHANGED open

\* Mutant (NoReplyLost): the session closes on EOF at once.
Finish_AtOnce(t, last) ==
    IF last \/ monitor_commands_should_close(t)
      THEN monitor_client_close(t)
      ELSE Stay(t)

\* Mutant (SessionCloses): QUIT does not close.
Finish_OnlyEof(t, last) ==
    IF last /\ ~buffer_can_read(t.wb)
      THEN monitor_client_close(t)
      ELSE Stay(t)

\* A handler's end: after QUIT, or on EOF, the session closes when wb is empty.
Finish(t, last) ==
    IF monitor_commands_should_close(t) \/ (last /\ ~buffer_can_read(t.wb))
      THEN monitor_client_close(t)
      ELSE Stay(t)

\* write() takes n of the pending bytes, none on EAGAIN.
monitor_flush(t, last, least) ==
    \/ /\ ~buffer_can_read(t.wb)
       /\ Finish(t, last)
       /\ UNCHANGED out
    \/ \E n \in least..Len(t.wb.q) :
          /\ buffer_can_read(t.wb)
          /\ peer # "reset"
          /\ out' = out \o buffer_peek(t.wb, n)
          /\ Finish(IF n = 0 THEN t
                    ELSE [t EXCEPT !.wb = buffer_compact(buffer_read_adv(@, n))],
                    last)
    \/ /\ buffer_can_read(t.wb)
       /\ peer = "reset"
       /\ monitor_client_close(t)
       /\ UNCHANGED out

Event(op) == open /\ op \in interest

ReadData ==
    /\ Event("read")
    /\ peer # "reset"
    /\ \E k \in (nread + 1)..Len(input) :
          /\ nread' = k
          /\ monitor_flush(monitor_commands_feed(s, SubSeq(input, nread + 1, k)),
                           FALSE, 0)
    /\ UNCHANGED <<input, peer>>

ReadEof ==
    /\ Event("read")
    /\ peer = "shut"
    /\ nread = Len(input)
    /\ monitor_flush(monitor_commands_flush_on_eof(s), TRUE, 0)
    /\ UNCHANGED <<input, nread, peer>>

ReadError ==
    /\ Event("read")
    /\ peer = "reset"
    /\ monitor_client_close(s)
    /\ UNCHANGED <<input, nread, peer, out>>

\* EAGAIN leaves everything as it is.
monitor_client_read == ReadData \/ ReadEof \/ ReadError

\* The socket is writable: at least one byte goes out.
monitor_client_write ==
    /\ Event("write")
    /\ monitor_flush(s, FALSE, 1)
    /\ UNCHANGED <<input, nread, peer>>

-----------------------------------------------------------------------------
(***************************************************************************)
(* The administrator's client                                              *)
(***************************************************************************)
ClientSend ==
    /\ peer = "open"
    /\ Len(input) < MaxSent
    /\ \E u \in Units : input' = Append(input, u)
    /\ UNCHANGED <<s, open, interest, nread, peer, out>>

ClientShut ==
    /\ peer = "open"
    /\ peer' = "shut"
    /\ UNCHANGED <<s, open, interest, input, nread, out>>

ClientReset ==
    /\ peer # "reset"
    /\ peer' = "reset"
    /\ UNCHANGED <<s, open, interest, input, nread, out>>

Next ==
    \/ monitor_client_read
    \/ monitor_client_write
    \/ ClientSend \/ ClientShut \/ ClientReset

Spec == Init /\ [][Next]_vars

\* epoll is level-triggered and one thread serves every event of a batch, so
\* a ready socket is served; the client goes on reading.
FairSpec ==
    /\ Spec
    /\ WF_vars(monitor_client_read)
    /\ WF_vars(monitor_client_write)

-----------------------------------------------------------------------------
(***************************************************************************)
(* Properties                                                              *)
(***************************************************************************)
\* What found room in wb reaches the client whole and in order: what it has been
\* sent and what waits in wb is what was put there, over every partial write.
\* A text that wb had no room for is not said: see EveryReplyTerminated.
RepliesExact == out \o s.wb.q = s.said

\* Reference: a line ends at place i of the input x, at a newline or where x
\* ends, and began behind the newline before.
Ends(x, i) == i > Len(x) \/ x[i] = "nl"

LineTo(x, i) ==
    LET from == Max({j \in 0..(i - 1) : j = 0 \/ x[j] = "nl"})
    IN  SubSeq(x, from + 1, i - 1)

\* The command on that line.  A line without newline keeps its carriage return.
CommandAt(x, i) ==
    split_line(IF i > Len(x) THEN LineTo(x, i) ELSE StripCr(LineTo(x, i)))

Authenticated(x, i) == \E j \in 1..(i - 1) : Ends(x, j) /\ CommandAt(x, j) = "AUTH"

\* The places up to m of the commands to run: those behind the first AUTH.
Runs(x, m) ==
    {i \in 1..m : /\ Ends(x, i)
                  /\ CommandAt(x, i) \in {"LIST", "SET", "QUIT"}
                  /\ Authenticated(x, i)}

\* ran has the commands at the places in R, each where its place puts it.
InOrder(ran, x, R) ==
    /\ Len(ran) = Cardinality(R)
    /\ \A i \in R : ran[Cardinality({j \in R : j <= i})] = CommandAt(x, i)

\* Of the first n units of x every k that follow each other have a newline.
LinesBelow(x, n, k) == \A i \in 0..(n - k) : \E j \in 1..k : x[i + j] = "nl"

\* However the input was cut into reads, the commands that ran are those of
\* the lines read so far, in order, behind the AUTH that admitted them; a line
\* without newline is kept, or has been run at the end of the input.
CommandsExact ==
    LinesBelow(input, nread, LineMax) =>
       InOrder(s.ran, input, Runs(input, IF s.line = << >> THEN nread + 1 ELSE nread))

\* "Half-close: procesa la ultima linea aunque no termine en '\n'": a session
\* that ends without QUIT and without an error has run every command it was
\* sent, the unterminated last line included.
HalfCloseServed ==
    /\ ~open /\ peer # "reset" /\ ~s.close_after_flush
    /\ LinesBelow(input, Len(input), LineMax)
    => /\ nread = Len(input)
       /\ InOrder(s.ran, input, Runs(input, Len(input) + 1))

\* The server closes no healthy connection with a reply still to send.
NoReplyLost ==
    [][open /\ ~open' /\ peer # "reset" => ~buffer_can_read(s.wb)']_vars

\* After QUIT, after the client's half-close or after an error the session is
\* closed, replies that do not fit and partial writes notwithstanding.
SessionCloses == (s.close_after_flush \/ peer # "open") ~> ~open

-----------------------------------------------------------------------------
(***************************************************************************)
(* What the comments say and the code does not                             *)
(***************************************************************************)
\* "Toda respuesta termina con ".\n" para delimitar fin en el REPL cliente".
EveryReplyTerminated ==
    Cardinality({i \in DOMAIN s.said : s.said[i] = "dot"}) = s.owed

\* "Linea > MONITOR_LINE_MAX -> -ERR line too long": a line that is refused
\* for its length is longer than the limit.
RefusedIsTooLong == s.rejected > 0 => ~LinesBelow(input, nread, LineMax + 1)
=============================================================================
