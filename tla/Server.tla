------------------------------- MODULE Server -------------------------------
(***************************************************************************)
(* The process as a whole: the loop of src/server/main.c, the signals that *)
(* stop it, the two listening sockets and the sessions behind them, around *)
(* the idle list of IdleList, whose sessions these are.                    *)
(*                                                                         *)
(* One selector_select is any number of handler calls and its return.      *)
(***************************************************************************)
EXTENDS IdleList

CONSTANT MonitorSessions   \* addresses of struct monitor_session

VARIABLES
    main,              \* where main() is, or how the process ended
    shutdown_requested,
    listening,         \* servers whose listen_fd is open
    socks_active,      \* active_sessions of the SOCKS server
    monitor_active,    \* active_sessions of the monitor server
    monitors           \* monitor sessions that exist

counters == <<socks_active, monitor_active>>
svars == <<vars, main, shutdown_requested, listening, counters, monitors>>

ServerInit ==
    /\ Init
    /\ main = "check"
    /\ shutdown_requested = FALSE
    /\ listening = {"socks", "monitor"}
    /\ socks_active = 0
    /\ monitor_active = 0
    /\ monitors = {}

-----------------------------------------------------------------------------
(***************************************************************************)
(* Handlers called by the selector                                         *)
(***************************************************************************)
OneLess(n) == IF n > 0 THEN n - 1 ELSE n

socks_passive_read(x) ==
    /\ main = "select"
    /\ "socks" \in listening
    /\ Accept(x)
    /\ socks_active' = socks_active + 1
    /\ UNCHANGED <<main, shutdown_requested, listening, monitor_active, monitors>>

Activity(x) ==
    /\ main = "select"
    /\ socks_session_touch(x)
    /\ UNCHANGED <<main, shutdown_requested, listening, counters, monitors>>

CloseSession(x) ==
    /\ main = "select"
    /\ socks_client_close(x)
    /\ socks_active' = OneLess(socks_active)
    /\ UNCHANGED <<main, shutdown_requested, listening, monitor_active, monitors>>

monitor_passive_read(m) ==
    /\ main = "select"
    /\ "monitor" \in listening
    /\ m \notin monitors
    /\ monitors' = monitors \cup {m}
    /\ monitor_active' = monitor_active + 1
    /\ UNCHANGED <<vars, main, shutdown_requested, listening, socks_active>>

monitor_client_close(m) ==
    /\ main = "select"
    /\ m \in monitors
    /\ monitors' = monitors \ {m}
    /\ monitor_active' = OneLess(monitor_active)
    /\ UNCHANGED <<vars, main, shutdown_requested, listening, socks_active>>

\* CONFIG timeout, sent by an administrator.
ConfigTimeout ==
    /\ main = "select"
    /\ monitors # {}
    /\ SetTimeout
    /\ UNCHANGED <<main, shutdown_requested, listening, counters, monitors>>

-----------------------------------------------------------------------------
(***************************************************************************)
(* main                                                                    *)
(***************************************************************************)
socks_server_is_empty == "socks" \notin listening /\ socks_active = 0

monitor_server_is_empty == "monitor" \notin listening /\ monitor_active = 0

servers_is_empty == socks_server_is_empty /\ monitor_server_is_empty

\* Mutant (ShutdownEnds): only the SOCKS port is closed.
StopAccepting_SocksOnly == listening' = listening \ {"socks"}

\* socks_server_stop_accepting and monitor_server_stop_accepting.
StopAccepting == listening' = {}

\* The condition of the loop, and its body up to selector_select.
LoopCheck ==
    /\ main = "check"
    /\ IF servers_is_empty
       THEN main' = "destroy" /\ UNCHANGED listening
       ELSE /\ main' = "select"
            /\ IF shutdown_requested THEN StopAccepting ELSE UNCHANGED listening
    /\ UNCHANGED <<vars, shutdown_requested, counters, monitors>>

\* The batch is done, or one second passed, or a signal came.
SelectReturns ==
    /\ main = "select"
    /\ main' = "expire"
    /\ UNCHANGED <<vars, shutdown_requested, listening, counters, monitors>>

\* socks_server_expire_idle, which ends at once when the timeout is 0.
ExpireSkipped ==
    /\ main = "expire"
    /\ timeout = 0
    /\ main' = "check"
    /\ UNCHANGED <<vars, shutdown_requested, listening, counters, monitors>>

\* Mutant (DestroyFindsNobody): a session that expires is counted off at once,
\* and again when it closes.
ExpireIdle_CountsTwice ==
    /\ main = "expire"
    /\ \/ ExpireStart /\ UNCHANGED <<main, socks_active>>
       \/ ExpireHead /\ socks_active' = OneLess(socks_active) /\ UNCHANGED main
       \/ ExpireStop /\ main' = "check" /\ UNCHANGED socks_active
    /\ UNCHANGED <<shutdown_requested, listening, monitor_active, monitors>>

\* A session that is closed here goes through socks_client_close too.
ExpireIdle ==
    /\ main = "expire"
    /\ \/ ExpireStart /\ UNCHANGED <<main, socks_active>>
       \/ /\ ExpireHead
          /\ socks_active' = IF live' = live THEN socks_active
                                             ELSE OneLess(socks_active)
          /\ UNCHANGED main
       \/ ExpireStop /\ main' = "check" /\ UNCHANGED socks_active
    /\ UNCHANGED <<shutdown_requested, listening, monitor_active, monitors>>

\* The servers are freed, then the store and the selector.
Destroy ==
    /\ main = "destroy"
    /\ main' = "exited"
    /\ listening' = {}
    /\ UNCHANGED <<vars, shutdown_requested, counters, monitors>>

\* SIGINT or SIGTERM, at any point; the second ends the process.
on_signal ==
    /\ main \notin {"exited", "killed"}
    /\ IF shutdown_requested THEN main' = "killed" /\ UNCHANGED shutdown_requested
       ELSE shutdown_requested' = TRUE /\ UNCHANGED main
    /\ UNCHANGED <<vars, listening, counters, monitors>>

Clock ==
    /\ main \notin {"exited", "killed"}
    /\ Tick
    /\ UNCHANGED <<main, shutdown_requested, listening, counters, monitors>>

Ended == main \in {"exited", "killed"} /\ UNCHANGED svars

-----------------------------------------------------------------------------
MainStep == LoopCheck \/ SelectReturns \/ ExpireSkipped \/ ExpireIdle \/ Destroy

ServerNext ==
    \/ \E x \in Sessions : socks_passive_read(x) \/ Activity(x) \/ CloseSession(x)
    \/ \E m \in MonitorSessions : monitor_passive_read(m) \/ monitor_client_close(m)
    \/ ConfigTimeout
    \/ MainStep
    \/ on_signal
    \/ Clock
    \/ Ended

\* The loop goes on: selector_select returns after a batch or after a second.
\* Of the peers it is assumed that each ends its connection some time.
Fairness ==
    /\ WF_svars(MainStep)
    /\ \A x \in Sessions : SF_svars(CloseSession(x))
    /\ \A m \in MonitorSessions : SF_svars(monitor_client_close(m))

ServerSpec == ServerInit /\ [][ServerNext]_svars /\ Fairness

-----------------------------------------------------------------------------
\* When main frees the two servers no session is left that would point to its
\* server while selector_destroy closes it, however sessions came and went:
\* closed by their handlers or by expiry, before or after the signal.
DestroyFindsNobody ==
    main = "destroy" => live = {} /\ monitors = {} /\ listening = {}

\* After the first signal the process ends, whenever in the loop the signal
\* comes, and although clients go on connecting until the ports are closed.
ShutdownEnds == shutdown_requested ~> main \in {"exited", "killed"}
=============================================================================
