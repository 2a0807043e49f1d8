---------------------------- MODULE SessionTable ----------------------------
(***************************************************************************)
(* The sessions, metrics and access log of the store                       *)
(* (src/server/monitor/store.c), with every operation that changes them.   *)
(* socks.c calls them with the identifier store_session_begin gave it; the *)
(* monitor calls store_config_set.  One thread, so one step per call.      *)
(*                                                                         *)
(* Names and hosts are reduced to whether they are set; the terminal       *)
(* strings, ports and timestamps are left out.                             *)
(***************************************************************************)
EXTENDS Integers, Sequences, FiniteSets

CONSTANTS
    CapDefault,     \* STORE_SESSIONS_CAP_DEFAULT
    CapMax,         \* STORE_SESSIONS_CAP_MAX
    LogCapacity,    \* STORE_LOG_CAPACITY
    MaxBegins,      \* bound: sessions begun, below the 2^32 of store_session_id
    MaxBytes        \* bound: bytes of one session in one direction

ASSUME TableAssumption ==
    /\ CapMax \in Nat \ {0}
    /\ CapDefault \in 1..CapMax
    /\ LogCapacity \in Nat \ {0}
    /\ MaxBegins \in Nat
    /\ MaxBytes \in Nat

VARIABLES
    sessions,       \* the slots; Len(sessions) is sessions_slots
    sessions_cap,
    metrics,        \* total and concurrent connections, bytes of all time
    next_session_id,
    log,            \* the ring; Len(log) is log_count
    log_head,
    next_log_id,
    held,           \* identifiers stored in live socks_session structures
    answer          \* what the last store_session_begin returned

ringVars == <<log, log_head, next_log_id>>
vars == <<sessions, sessions_cap, metrics, next_session_id, log, log_head,
          next_log_id, held, answer>>

STORE_SESSION_INVALID == 0
STORE_LOG_INVALID == 0

Phases == {"AUTH", "CONNECTING", "RELAY"}
LogStates == {"CONNECTED", "CLOSED", "FAILED", "TTL_EXPIRED"}

Node == [active : BOOLEAN, id : Nat, username : BOOLEAN, host : BOOLEAN,
         phase : Phases, bytes_up : Nat, bytes_down : Nat, log_id : Nat]

Entry == [id : Nat, state : LogStates, bytes_up : Nat, bytes_down : Nat]

\* A slot as calloc or the memset of store_grow_sessions_slots leaves it.
ZeroNode == [active |-> FALSE, id |-> 0, username |-> FALSE, host |-> FALSE,
             phase |-> "AUTH", bytes_up |-> 0, bytes_down |-> 0, log_id |-> 0]

store_create ==
    /\ sessions = [i \in 1..CapDefault |-> ZeroNode]
    /\ sessions_cap = CapDefault
    /\ metrics = [total |-> 0, concurrent |-> 0, bytes_up |-> 0, bytes_down |-> 0]
    /\ next_session_id = 1
    /\ log = << >>
    /\ log_head = 0
    /\ next_log_id = 1
    /\ held = {}
    /\ answer = STORE_SESSION_INVALID

Init == store_create

-----------------------------------------------------------------------------
(***************************************************************************)
(* Slots and ring                                                          *)
(***************************************************************************)
Active == {i \in DOMAIN sessions : sessions[i].active}

\* store_find_session: the slot of a live session.
IsNode(i, id) == i \in Active /\ sessions[i].id = id

\* Mutant (SlotsMatchSessions): the search stops at any slot.
IsFirstFree_AnySlot(i) == i \in DOMAIN sessions

\* The slot store_session_begin takes: the first that is not active.
IsFirstFree(i) ==
    /\ i \in DOMAIN sessions \ Active
    /\ \A j \in 1..(i - 1) : j \in Active

store_log_append(state) ==
    LET entry == [id |-> next_log_id, state |-> state,
                  bytes_up |-> 0, bytes_down |-> 0]
    IN  /\ IF Len(log) < LogCapacity
             THEN log' = Append(log, entry) /\ log_head' = log_head
             ELSE /\ log' = [log EXCEPT ![log_head + 1] = entry]
                  /\ log_head' = (log_head + 1) % LogCapacity
        /\ next_log_id' = next_log_id + 1

\* Mutant (FinishedEntriesStay): the newest entry is taken for the session's.
store_log_update_Newest(log_id, state, up, down) ==
    /\ log' = [i \in DOMAIN log |->
                 IF log[i].id = next_log_id - 1
                   THEN [log[i] EXCEPT !.state = state, !.bytes_up = up,
                                       !.bytes_down = down]
                   ELSE log[i]]
    /\ UNCHANGED <<log_head, next_log_id>>

\* An entry the ring has overwritten is not found and nothing changes.
store_log_update(log_id, state, up, down) ==
    /\ log' = [i \in DOMAIN log |->
                 IF log_id # STORE_LOG_INVALID /\ log[i].id = log_id
                   THEN [log[i] EXCEPT !.state = state, !.bytes_up = up,
                                       !.bytes_down = down]
                   ELSE log[i]]
    /\ UNCHANGED <<log_head, next_log_id>>

store_session_remove(i) ==
    /\ sessions' = [sessions EXCEPT ![i].active = FALSE]
    /\ metrics' = [metrics EXCEPT !.concurrent = IF @ > 0 THEN @ - 1 ELSE @]

-----------------------------------------------------------------------------
(***************************************************************************)
(* Calls made by socks.c                                                   *)
(***************************************************************************)
\* Mutant (ImplementsLimit): one session too many is admitted.
store_session_begin_admits_OffByOne ==
    /\ metrics.concurrent <= sessions_cap
    /\ next_session_id <= MaxBegins
    /\ \E i \in DOMAIN sessions :
          /\ IsFirstFree(i)
          /\ sessions' = [sessions EXCEPT ![i] =
                [ZeroNode EXCEPT !.active = TRUE, !.id = next_session_id]]
    /\ metrics' = [metrics EXCEPT !.total = @ + 1, !.concurrent = @ + 1]
    /\ answer' = next_session_id
    /\ held' = held \cup {next_session_id}
    /\ next_session_id' = next_session_id + 1
    /\ UNCHANGED <<sessions_cap, ringVars>>

store_session_begin_admits ==
    /\ metrics.concurrent < sessions_cap
    /\ next_session_id <= MaxBegins
    /\ \E i \in DOMAIN sessions :
          /\ IsFirstFree(i)
          /\ sessions' = [sessions EXCEPT ![i] =
                [ZeroNode EXCEPT !.active = TRUE, !.id = next_session_id]]
    /\ metrics' = [metrics EXCEPT !.total = @ + 1, !.concurrent = @ + 1]
    /\ answer' = next_session_id
    /\ held' = held \cup {next_session_id}
    /\ next_session_id' = next_session_id + 1
    /\ UNCHANGED <<sessions_cap, ringVars>>

\* At the cap, or (were it possible) with every slot taken.
store_session_begin_refuses ==
    /\ \/ metrics.concurrent >= sessions_cap
       \/ Active = DOMAIN sessions
    /\ answer' = STORE_SESSION_INVALID
    /\ UNCHANGED <<sessions, sessions_cap, metrics, next_session_id, ringVars, held>>

store_session_begin == store_session_begin_admits \/ store_session_begin_refuses

store_session_set_user(id) ==
    /\ \E i \in DOMAIN sessions :
          IsNode(i, id) /\ sessions' = [sessions EXCEPT ![i].username = TRUE]
    /\ UNCHANGED <<sessions_cap, metrics, next_session_id, ringVars, held, answer>>

\* AUTH once the client is known, CONNECTING when its request is parsed.
store_session_set_phase(id) ==
    /\ \E i \in DOMAIN sessions, p \in {"AUTH", "CONNECTING"} :
          /\ IsNode(i, id)
          /\ ~sessions[i].host
          /\ sessions' = [sessions EXCEPT ![i].phase = p]
    /\ UNCHANGED <<sessions_cap, metrics, next_session_id, ringVars, held, answer>>

\* socks.c calls it once per session (dest_recorded), in ORIGIN_CONNECTING,
\* before any byte is counted.
store_session_set_dest(id) ==
    /\ \E i \in DOMAIN sessions :
          /\ IsNode(i, id)
          /\ ~sessions[i].host
          /\ sessions[i].bytes_up + sessions[i].bytes_down = 0
          /\ IF sessions[i].username
               THEN /\ store_log_append("CONNECTED")
                    /\ sessions' = [sessions EXCEPT ![i].host = TRUE,
                                       ![i].phase = "RELAY",
                                       ![i].log_id = next_log_id]
               ELSE /\ UNCHANGED ringVars
                    /\ sessions' = [sessions EXCEPT ![i].host = TRUE,
                                       ![i].phase = "RELAY"]
    /\ UNCHANGED <<sessions_cap, metrics, next_session_id, held, answer>>

store_session_add_bytes(id, up, down) ==
    /\ \E i \in DOMAIN sessions :
          /\ IsNode(i, id)
          /\ sessions[i].bytes_up + up <= MaxBytes
          /\ sessions[i].bytes_down + down <= MaxBytes
          /\ sessions' = [sessions EXCEPT ![i].bytes_up = @ + up,
                                          ![i].bytes_down = @ + down]
          /\ store_log_update(sessions[i].log_id, "CONNECTED",
                              sessions[i].bytes_up + up,
                              sessions[i].bytes_down + down)
    /\ metrics' = [metrics EXCEPT !.bytes_up = @ + up, !.bytes_down = @ + down]
    /\ UNCHANGED <<sessions_cap, next_session_id, held, answer>>

\* store.h: called without a previous log_id.  The function does not check that;
\* its one caller, socks_fail_request, sees to it: the tunnel was never up.
store_session_mark_failed(id) ==
    /\ \E i \in DOMAIN sessions :
          /\ IsNode(i, id)
          /\ sessions[i].log_id = STORE_LOG_INVALID
          /\ IF sessions[i].username /\ sessions[i].host
               THEN store_log_append("FAILED") ELSE UNCHANGED ringVars
          /\ store_session_remove(i)
    /\ held' = held \ {id}
    /\ UNCHANGED <<sessions_cap, next_session_id, answer>>

\* Mutant (LogFollowsSessions): the entry of a closed session stays CONNECTED.
store_session_end_LogForgotten(id) ==
    /\ \E i \in DOMAIN sessions : IsNode(i, id) /\ store_session_remove(i)
    /\ held' = held \ {id}
    /\ UNCHANGED <<sessions_cap, next_session_id, ringVars, answer>>

store_session_end(id) ==
    /\ \E i \in DOMAIN sessions :
          /\ IsNode(i, id)
          /\ store_log_update(sessions[i].log_id, "CLOSED",
                              sessions[i].bytes_up, sessions[i].bytes_down)
          /\ store_session_remove(i)
    /\ held' = held \ {id}
    /\ UNCHANGED <<sessions_cap, next_session_id, answer>>

store_session_mark_ttl_expired(id) ==
    /\ \E i \in DOMAIN sessions :
          /\ IsNode(i, id)
          /\ IF /\ sessions[i].log_id = STORE_LOG_INVALID
                /\ sessions[i].username
                /\ sessions[i].host
               THEN store_log_append("TTL_EXPIRED")
               ELSE store_log_update(sessions[i].log_id, "TTL_EXPIRED",
                                     sessions[i].bytes_up,
                                     sessions[i].bytes_down)
          /\ store_session_remove(i)
    /\ held' = held \ {id}
    /\ UNCHANGED <<sessions_cap, next_session_id, answer>>
-----------------------------------------------------------------------------
(***************************************************************************)
(* CONFIG max_connections                                                  *)
(***************************************************************************)
\* store_grow_sessions_slots: existing slots stay, new ones are zeroed.
store_grow_sessions_slots(n) ==
    sessions' = [i \in 1..(IF n > Len(sessions) THEN n ELSE Len(sessions)) |->
                    IF i <= Len(sessions) THEN sessions[i] ELSE ZeroNode]

\* An accepted value; a refused one, or a failed realloc, changes nothing.
store_config_set(value) ==
    /\ value \in 1..CapMax
    /\ value >= metrics.concurrent
    /\ IF value > sessions_cap THEN store_grow_sessions_slots(value)
                               ELSE UNCHANGED sessions
    /\ sessions_cap' = value
    /\ UNCHANGED <<metrics, next_session_id, ringVars, held, answer>>

SocksCall(id) ==
    \/ store_session_set_user(id) \/ store_session_set_phase(id)
    \/ store_session_set_dest(id)
    \/ store_session_add_bytes(id, 1, 0) \/ store_session_add_bytes(id, 0, 1)
    \/ store_session_mark_failed(id) \/ store_session_end(id)
    \/ store_session_mark_ttl_expired(id)

Next ==
    \/ store_session_begin
    \/ \E id \in held : SocksCall(id)
    \/ \E value \in 1..CapMax : store_config_set(value)

Spec == Init /\ [][Next]_vars

-----------------------------------------------------------------------------
(***************************************************************************)
(* Properties                                                              *)
(***************************************************************************)
\* Every variable has the type of its C declaration; the ring is no longer
\* than its array and log_head is an index into it.
TypeOK ==
    /\ sessions \in Seq(Node)
    /\ sessions_cap \in 1..CapMax
    /\ metrics \in [total : Nat, concurrent : Nat, bytes_up : Nat, bytes_down : Nat]
    /\ next_session_id \in Nat \ {0}
    /\ log \in Seq(Entry)
    /\ Len(log) <= LogCapacity
    /\ log_head \in 0..(LogCapacity - 1)
    /\ next_log_id \in Nat \ {0}
    /\ held \subseteq Nat
    /\ answer \in Nat

\* store.c: "sessions_slots >= sessions_cap (store_config_set mantiene el
\* invariante)", whatever order caps are raised and lowered in.
SlotsCoverCap == sessions_cap <= Len(sessions)

\* concurrent_connections is the number of slots in use and never exceeds
\* the configured cap, although the cap may be lowered while sessions run.
CapRespected ==
    /\ metrics.concurrent = Cardinality(Active)
    /\ metrics.concurrent <= sessions_cap

\* Every slot in use belongs to exactly one live session and every live
\* session finds its slot: none is leaked, shared or released twice.
SlotsMatchSessions ==
    /\ held = {sessions[i].id : i \in Active}
    /\ \A i, j \in Active : sessions[i].id = sessions[j].id => i = j
    /\ \A i \in Active : sessions[i].id \in 1..(next_session_id - 1)

\* An entry reads CONNECTED exactly while its session is open, with the bytes
\* the session has moved so far: closing a session never misses its entry.
LogFollowsSessions ==
    \A k \in DOMAIN log :
        log[k].state = "CONNECTED" <=>
            \E i \in Active :
                /\ sessions[i].log_id = log[k].id
                /\ sessions[i].bytes_up = log[k].bytes_up
                /\ sessions[i].bytes_down = log[k].bytes_down

\* A finished entry is history: it can be overwritten by a newer one, never
\* reopened or given other bytes.
FinishedEntriesStay ==
    [][\A k \in DOMAIN log :
          log[k].state # "CONNECTED" =>
             log'[k] = log[k] \/ log'[k].id > log[k].id]_vars

\* The table implements the connection limit it is there to enforce.
Limit == INSTANCE ConnectionLimit WITH
            LimitMax <- CapMax, open <- held, limit <- sessions_cap

\* ConnectionLimit: in particular a session is refused only at the cap, so
\* the search for a free slot never fails below it.
ImplementsLimit == Limit!Spec
=============================================================================
