---------------------------- MODULE SocksSession ----------------------------
(***************************************************************************)
(* One client slot of the SOCKS5 proxy (src/server/socks/socks.c): the     *)
(* session that lives behind a client descriptor, from accept() to free(). *)
(*                                                                         *)
(* Three actors interleave.  The selector thread runs the handlers; the    *)
(* environment (client, origin, kernel, clock) decides what read(),        *)
(* write(), connect() and getaddrinfo() answer; a detached DNS thread per  *)
(* FQDN request writes its result into the session and queues a "block"    *)
(* job for the client descriptor.  When a client closes, the next accept() *)
(* gets the same descriptor number, so a job may find another session.     *)
(*                                                                         *)
(* A handler is one step, except where it loops over input the environment *)
(* chooses: pc then says where the selector thread is inside it, and no    *)
(* other handler runs until it is back in "select".                        *)
(*                                                                         *)
(* Client bytes are numbered; a parser's verdict on a byte is a choice of  *)
(* the environment.  A server reply is one unit of o2c, and so is a byte   *)
(* read from the origin.  Undefined behaviour and abort() end the process: *)
(* pc becomes one of Crashed.                                              *)
(***************************************************************************)
EXTENDS Buffer, FiniteSets

CONSTANTS
    CStream,      \* bytes a client may send on one connection
    OStream,      \* bytes an origin may send on one connection
    Addrs,        \* most addresses getaddrinfo returns for a name
    MaxConns,     \* connections accepted on the descriptor, one after another
    Timeouts,     \* TRUE: CONFIG timeout > 0, sessions may expire
    Resets        \* TRUE: a write() may fail with an error other than EAGAIN

\* io_buffer_size >= 1024: every reply a session can have pending fits.
ReplyUnits == 4

ASSUME SessionAssumption ==
    /\ CStream \in Nat
    /\ OStream \in Nat
    /\ Addrs \in Nat \ {0}
    /\ MaxConns \in Nat \ {0}
    /\ Timeouts \in BOOLEAN
    /\ Resets \in BOOLEAN
    /\ Cap >= ReplyUnits

VARIABLES
    s,        \* struct socks_session, its selector items, its store node
    pc,       \* where the selector thread is
    conn,     \* connections accepted so far; s belongs to the last one
    thread,   \* DNS thread of each connection
    jobs      \* block notifications queued for the client descriptor

vars == <<s, pc, conn, thread, jobs>>

-----------------------------------------------------------------------------
(***************************************************************************)
(* State                                                                   *)
(***************************************************************************)
Parsing == {"AUTH_GREETING", "AUTH_USERPASS", "REQUEST"}

SocksState == Parsing \cup {"RESOLVING", "ORIGIN_CONNECTING", "RELAY", "DONE"}

ConnectReply == {"connect_ok", "connect_fail", "connect_ttl"}

Kinds == ConnectReply \cup {"method", "no_method", "auth_ok", "auth_fail", "data"}

Unit == [kind : Kinds, n : 0..OStream]

LogState == {"NONE", "CONNECTED", "CLOSED", "FAILED", "TTL_EXPIRED"}

Crashed == {"handler_use_after_free", "dns_use_after_free", "stm_abort"}

Node == [active : BOOLEAN, username : BOOLEAN, host : BOOLEAN,
         phase : {"AUTH", "CONNECTING", "RELAY"},
         bytes_up : 0..CStream, bytes_down : 0..OStream, log : LogState]

Session ==
    [open : BOOLEAN, stm : SocksState,
     c2o : Buffers(1..CStream), o2c : Buffers(Unit),
     close_after_flush : BOOLEAN, ttl_expired : BOOLEAN,
     client_i : SUBSET {"R", "W"}, origin_i : SUBSET {"R", "W"},
     origin_fd : BOOLEAN,
     dns_resolving : BOOLEAN, dns_result : 0..Addrs, dns_cursor : 0..Addrs,
     store_id : BOOLEAN, node : Node,
     sent : 0..CStream, parsed : 0..CStream, got : 0..OStream,
     to_client : Seq(Unit), to_origin : Seq(1..CStream)]

\* The session calloc'ed by passive_read, with its store node.
socks_session_init ==
    [open |-> TRUE, stm |-> "AUTH_GREETING",
     c2o |-> buffer_init, o2c |-> buffer_init,
     close_after_flush |-> FALSE, ttl_expired |-> FALSE,
     client_i |-> {"R"}, origin_i |-> {}, origin_fd |-> FALSE,
     dns_resolving |-> FALSE, dns_result |-> 0, dns_cursor |-> 0,
     store_id |-> TRUE,
     node |-> [active |-> TRUE, username |-> FALSE, host |-> FALSE,
               phase |-> "AUTH", bytes_up |-> 0, bytes_down |-> 0,
               log |-> "NONE"],
     sent |-> 0, parsed |-> 0, got |-> 0,
     to_client |-> << >>, to_origin |-> << >>]

Init ==
    /\ s = socks_session_init
    /\ pc = "select"
    /\ conn = 1
    /\ thread = [c \in 1..MaxConns |-> "none"]
    /\ jobs = 0

-----------------------------------------------------------------------------
(***************************************************************************)
(* Functions called by the handlers, on a session t.  Those that write to  *)
(* a socket return the set of sessions the kernel's answer may leave; a    *)
(* session that is no longer open stands for their "return false".         *)
(***************************************************************************)
Reply(k) == [kind |-> k, n |-> 0]

OriginBytes(lo, n) == [i \in 1..n |-> [kind |-> "data", n |-> lo + i]]

ClientBytes(lo, n) == [i \in 1..n |-> lo + i]

socks_client_interest(t) ==
    (IF buffer_can_write(t.c2o) THEN {"R"} ELSE {})
        \cup (IF buffer_can_read(t.o2c) THEN {"W"} ELSE {})

socks_origin_interest(t) ==
    (IF buffer_can_write(t.o2c) THEN {"R"} ELSE {})
        \cup (IF buffer_can_read(t.c2o) THEN {"W"} ELSE {})

\* selector_set_interest on client_fd; callers have returned if it is closed.
set_client_interest(t) ==
    IF t.open THEN [t EXCEPT !.client_i = socks_client_interest(t)] ELSE t

set_origin_interest(t) ==
    IF t.open THEN [t EXCEPT !.origin_i = socks_origin_interest(t)] ELSE t

socks_o2c_append(t, k) ==
    [t EXCEPT !.o2c = buffer_write_adv(@, <<Reply(k)>>)]

store_session_remove(t, log) ==
    [t EXCEPT !.store_id = FALSE, !.node.active = FALSE, !.node.log = log]

store_session_end(t) ==
    store_session_remove(t,
        IF t.node.log = "NONE" THEN "NONE" ELSE "CLOSED")

store_session_mark_ttl_expired(t) ==
    store_session_remove(t,
        IF t.node.log # "NONE" \/ (t.node.username /\ t.node.host)
          THEN "TTL_EXPIRED" ELSE "NONE")

store_session_mark_failed(t) ==
    store_session_remove(t,
        IF t.node.username /\ t.node.host THEN "FAILED" ELSE t.node.log)

\* An entry is logged when the user is known, and it is on every path here.
store_session_set_dest(t) ==
    [t EXCEPT !.node.host = TRUE, !.node.phase = "RELAY",
              !.node.log = IF t.node.username THEN "CONNECTED" ELSE @]

socks_session_destroy_origin(t) ==
    [t EXCEPT !.origin_fd = FALSE, !.origin_i = {}]

\* Mutant (ResourcesReleased): the origin descriptor is forgotten.
socks_client_close_KeepsOrigin(t) ==
    LET logged == IF ~t.store_id THEN t
                  ELSE IF t.ttl_expired THEN store_session_mark_ttl_expired(t)
                  ELSE store_session_end(t)
    IN  [logged EXCEPT !.open = FALSE, !.client_i = {},
                       !.dns_result = 0, !.dns_cursor = 0]

\* Mutant (LogMatchesOutcome): every session ends as CLOSED.
socks_client_close_IgnoresTtl(t) ==
    [socks_session_destroy_origin(IF t.store_id THEN store_session_end(t) ELSE t)
        EXCEPT !.open = FALSE, !.client_i = {},
               !.dns_result = 0, !.dns_cursor = 0]

\* Everything client_close does up to free(session).
socks_client_close(t) ==
    LET logged == IF ~t.store_id THEN t
                  ELSE IF t.ttl_expired THEN store_session_mark_ttl_expired(t)
                  ELSE store_session_end(t)
    IN  [socks_session_destroy_origin(logged) EXCEPT
            !.open = FALSE, !.client_i = {},
            !.dns_result = 0, !.dns_cursor = 0]

\* Mutant (DownstreamExact): a partial write() is taken for a complete one.
socks_flush_client_PartialIsAll(t) ==
    {IF k = 0 THEN t
     ELSE [t EXCEPT !.to_client = @ \o buffer_peek(t.o2c, k),
                    !.o2c = buffer_compact(buffer_read_adv(@, Len(@.q)))]
        : k \in 0..Len(t.o2c.q)}

socks_flush_client(t) ==
    {IF k = 0 THEN t
     ELSE [t EXCEPT !.to_client = @ \o buffer_peek(t.o2c, k),
                    !.o2c = buffer_compact(buffer_read_adv(@, k))]
        : k \in 0..Len(t.o2c.q)}
    \cup (IF Resets /\ buffer_can_read(t.o2c) THEN {socks_client_close(t)} ELSE {})

\* Mutant (UpstreamExact): a partial write() is taken for a complete one.
socks_flush_origin_PartialIsAll(t) ==
    {IF k = 0 THEN t
     ELSE [t EXCEPT !.to_origin = @ \o buffer_peek(t.c2o, k),
                    !.c2o = buffer_compact(buffer_read_adv(@, Len(@.q))),
                    !.node.bytes_up = IF t.store_id THEN @ + k ELSE @]
        : k \in 0..Len(t.c2o.q)}

\* Mutant (BytesAccounted): what was offered to write() is counted.
socks_flush_origin_CountsPending(t) ==
    {IF k = 0 THEN t
     ELSE [t EXCEPT !.to_origin = @ \o buffer_peek(t.c2o, k),
                    !.c2o = buffer_compact(buffer_read_adv(@, k)),
                    !.node.bytes_up = @ + Len(t.c2o.q)]
        : k \in 0..Len(t.c2o.q)}

socks_flush_origin(t) ==
    {IF k = 0 THEN t
     ELSE [t EXCEPT !.to_origin = @ \o buffer_peek(t.c2o, k),
                    !.c2o = buffer_compact(buffer_read_adv(@, k)),
                    !.node.bytes_up = IF t.store_id THEN @ + k ELSE @]
        : k \in 0..Len(t.c2o.q)}
    \cup (IF Resets /\ buffer_can_read(t.c2o) THEN {socks_client_close(t)} ELSE {})

socks_close_if_flushed(t) ==
    IF t.open /\ t.close_after_flush /\ ~buffer_can_read(t.o2c)
      THEN socks_client_close(t) ELSE t

\* Reply with an error, and close once the reply has gone out.
socks_fail_request(t) ==
    LET u == IF t.store_id THEN store_session_mark_failed(t) ELSE t
        v == [socks_o2c_append(u, "connect_fail") EXCEPT
                 !.close_after_flush = TRUE, !.stm = "DONE"]
    IN  {set_client_interest(w) : w \in socks_flush_client(v)}

\* fail_request called by a handler that goes on at "next".  The session is
\* freed when the reply cannot be written, and every caller goes on using it.
FailRequest(t, next) ==
    \E u \in socks_fail_request(t) :
        /\ s' = u
        /\ pc' = IF u.open THEN next ELSE "handler_use_after_free"

-----------------------------------------------------------------------------
(***************************************************************************)
(* Handlers of the client descriptor                                       *)
(***************************************************************************)
\* handle_iteration: the descriptor is registered and wants the event.
ClientEvent(op) == pc = "select" /\ s.open /\ op \in s.client_i

\* accept() with room under sessions_cap.  It returns the lowest free
\* descriptor: the one the previous client had.
socks_passive_read ==
    /\ pc = "select"
    /\ ~s.open
    /\ conn < MaxConns
    /\ s' = socks_session_init
    /\ conn' = conn + 1
    /\ UNCHANGED <<pc, thread, jobs>>

\* read() from the client put n more bytes into c2o.
Received(n) ==
    [s EXCEPT !.c2o = buffer_write_adv(@, ClientBytes(s.sent, n)),
              !.sent = @ + n]

\* client_read goes on feeding the parsers, or reaches its last statements.
ReadLoop(t) ==
    IF t.stm \in Parsing /\ buffer_can_read(t.c2o) THEN "drain" ELSE "tail"

ClientReadSizes ==
    {n \in 1..CStream : n <= buffer_space(s.c2o) /\ s.sent + n <= CStream}

\* Mutant (OriginWriteArmed): OP_WRITE is not asked for what is left in c2o.
ClientReadRelay_OriginNotArmed ==
    /\ ClientEvent("R")
    /\ s.stm = "RELAY"
    /\ \E n \in ClientReadSizes : \E u \in socks_flush_origin(Received(n)) :
          s' = set_client_interest(socks_close_if_flushed(u))
    /\ UNCHANGED <<pc, conn, thread, jobs>>

ClientReadRelay ==
    /\ ClientEvent("R")
    /\ s.stm = "RELAY"
    /\ \E n \in ClientReadSizes : \E u \in socks_flush_origin(Received(n)) :
          s' = set_client_interest(socks_close_if_flushed(set_origin_interest(u)))
    /\ UNCHANGED <<pc, conn, thread, jobs>>

ClientReadHandshake ==
    /\ ClientEvent("R")
    /\ s.stm # "RELAY"
    /\ \E n \in ClientReadSizes : s' = Received(n)
    /\ pc' = ReadLoop(s')
    /\ UNCHANGED <<conn, thread, jobs>>

\* read() says EAGAIN, or c2o has no room.
ClientReadAgain ==
    /\ ClientEvent("R")
    /\ s' = set_client_interest(s)
    /\ UNCHANGED <<pc, conn, thread, jobs>>

\* read() returns 0 or an error.
ClientReadClose ==
    /\ ClientEvent("R")
    /\ s' = socks_client_close(s)
    /\ UNCHANGED <<pc, conn, thread, jobs>>

socks_client_read ==
    ClientReadRelay \/ ClientReadHandshake \/ ClientReadAgain \/ ClientReadClose

\* Mutant (CloseCompletes): the last write does not look at close_after_flush.
socks_client_write_NeverCloses ==
    /\ ClientEvent("W")
    /\ \E u \in socks_flush_client(s) : s' = set_client_interest(u)
    /\ UNCHANGED <<pc, conn, thread, jobs>>

socks_client_write ==
    /\ ClientEvent("W")
    /\ \E u \in socks_flush_client(s) :
          s' = set_client_interest(socks_close_if_flushed(u))
    /\ UNCHANGED <<pc, conn, thread, jobs>>

\* The last statements of client_read and of client_block.
ClientTail ==
    /\ pc = "tail"
    /\ \E u \in socks_flush_client(s) :
          s' = set_client_interest(socks_close_if_flushed(u))
    /\ pc' = "select"
    /\ UNCHANGED <<conn, thread, jobs>>

-----------------------------------------------------------------------------
(***************************************************************************)
(* The parsing states: one byte of c2o is fed to the state's parser        *)
(***************************************************************************)
Consumed ==
    [s EXCEPT !.c2o = buffer_read_adv(@, 1), !.parsed = @ + 1]

Feeding(st) == pc = "drain" /\ s.stm = st

\* The parser's verdict was final: the STM jumps, client_read loops.
Parsed(t) ==
    /\ s' = t
    /\ pc' = ReadLoop(t)
    /\ UNCHANGED <<conn, thread, jobs>>

NeedMore == pc = "drain" /\ Parsed(Consumed)

socks_on_read_greeting ==
    /\ Feeding("AUTH_GREETING")
    /\ \/ Parsed([socks_o2c_append(Consumed, "method") EXCEPT
                     !.stm = "AUTH_USERPASS"])
       \/ Parsed([socks_o2c_append(Consumed, "method") EXCEPT
                     !.stm = "REQUEST", !.node.username = TRUE])
       \/ Parsed([socks_o2c_append(Consumed, "no_method") EXCEPT
                     !.stm = "DONE", !.close_after_flush = TRUE])

socks_on_read_auth ==
    /\ Feeding("AUTH_USERPASS")
    /\ \/ Parsed([socks_o2c_append(Consumed, "auth_ok") EXCEPT
                     !.stm = "REQUEST", !.node.username = TRUE])
       \/ Parsed([socks_o2c_append(Consumed, "auth_fail") EXCEPT
                     !.stm = "DONE", !.close_after_flush = TRUE])

\* A malformed or unsupported request, a denied name or address, or (phase
\* already CONNECTING) no DNS thread to be had.
RequestRefused ==
    /\ Feeding("REQUEST")
    /\ \E phase \in {"AUTH", "CONNECTING"} :
          FailRequest([Consumed EXCEPT !.node.phase = phase], "tail")
    /\ UNCHANGED <<conn, thread, jobs>>

socks_start_dns_resolve ==
    /\ Feeding("REQUEST")
    /\ s' = [Consumed EXCEPT !.node.phase = "CONNECTING", !.stm = "RESOLVING",
                             !.dns_resolving = TRUE, !.dns_result = 0,
                             !.dns_cursor = 0]
    /\ pc' = "tail"
    /\ thread' = [thread EXCEPT ![conn] = "running"]
    /\ UNCHANGED <<conn, jobs>>

RequestAddr ==
    /\ Feeding("REQUEST")
    /\ s' = [Consumed EXCEPT !.node.phase = "CONNECTING"]
    /\ pc' = "connect"
    /\ UNCHANGED <<conn, thread, jobs>>

socks_on_read_request == RequestRefused \/ socks_start_dns_resolve \/ RequestAddr

-----------------------------------------------------------------------------
(***************************************************************************)
(* begin_origin_connect: called at "connect" by the handlers of the client *)
(* descriptor, at "reconnect" by origin_connect_complete, which tries the  *)
(* next address.                                                           *)
(***************************************************************************)
Connecting == pc \in {"connect", "reconnect"}

AfterConnect == IF pc = "connect" THEN "tail" ELSE "select"

\* Mutant (ReplyProtocol): the origin is read before the reply is queued.
ConnectStarted_ReadsEarly ==
    /\ Connecting
    /\ s' = [s EXCEPT !.origin_fd = TRUE, !.origin_i = {"R", "W"},
                      !.stm = "ORIGIN_CONNECTING"]
    /\ pc' = AfterConnect
    /\ UNCHANGED <<conn, thread, jobs>>

\* connect() returns 0 or EINPROGRESS.
ConnectStarted ==
    /\ Connecting
    /\ s' = [s EXCEPT !.origin_fd = TRUE, !.origin_i = {"W"},
                      !.stm = "ORIGIN_CONNECTING"]
    /\ pc' = AfterConnect
    /\ UNCHANGED <<conn, thread, jobs>>

\* connect() fails at once and there is another address.
ConnectNext ==
    /\ Connecting
    /\ s.dns_cursor > 1
    /\ s' = [s EXCEPT !.dns_cursor = @ - 1]
    /\ UNCHANGED <<pc, conn, thread, jobs>>

\* The address is denied, there is no socket, or it was the last address.
ConnectRefused ==
    /\ Connecting
    /\ FailRequest(s, AfterConnect)
    /\ UNCHANGED <<conn, thread, jobs>>

socks_begin_origin_connect == ConnectStarted \/ ConnectNext \/ ConnectRefused

-----------------------------------------------------------------------------
(***************************************************************************)
(* Handlers of the origin descriptor                                       *)
(***************************************************************************)
OriginEvent(op) == pc = "select" /\ s.open /\ op \in s.origin_i

\* Mutant (DoneIsFinal): any writable origin counts as a completed connect.
OriginConnected_AnyState ==
    /\ OriginEvent("W")
    /\ LET t == socks_o2c_append(s, "connect_ok")
           u == [IF t.store_id THEN store_session_set_dest(t) ELSE t EXCEPT
                    !.stm = "RELAY"]
       IN  \E v \in socks_flush_client(u) :
              s' = set_client_interest(set_origin_interest(v))
    /\ UNCHANGED <<pc, conn, thread, jobs>>

\* Mutant (UploadDelivered): the interest of connecting is left in place, and
\* c2o is looked at only when the client sends more.
OriginConnected_ReadsOnly ==
    /\ OriginEvent("W")
    /\ s.stm = "ORIGIN_CONNECTING"
    /\ LET t == socks_o2c_append(s, "connect_ok")
           u == [IF t.store_id THEN store_session_set_dest(t) ELSE t EXCEPT
                    !.stm = "RELAY", !.origin_i = {"R"}]
       IN  \E v \in socks_flush_client(u) : s' = set_client_interest(v)
    /\ UNCHANGED <<pc, conn, thread, jobs>>

\* SO_ERROR is 0: the tunnel is up.
OriginConnected ==
    /\ OriginEvent("W")
    /\ s.stm = "ORIGIN_CONNECTING"
    /\ LET t == socks_o2c_append(s, "connect_ok")
           u == [IF t.store_id THEN store_session_set_dest(t) ELSE t EXCEPT
                    !.stm = "RELAY"]
       IN  \E v \in socks_flush_client(u) :
              s' = set_client_interest(set_origin_interest(v))
    /\ UNCHANGED <<pc, conn, thread, jobs>>

OriginRetry ==
    /\ OriginEvent("W")
    /\ s.stm = "ORIGIN_CONNECTING"
    /\ s.dns_cursor > 1
    /\ s' = [socks_session_destroy_origin(s) EXCEPT !.dns_cursor = @ - 1]
    /\ pc' = "reconnect"
    /\ UNCHANGED <<conn, thread, jobs>>

\* Mutant (ImplementsTunnel): the origin stays registered behind the refusal.
OriginUnreachable_KeepsOrigin ==
    /\ OriginEvent("W")
    /\ s.stm = "ORIGIN_CONNECTING"
    /\ s.dns_cursor <= 1
    /\ \E u \in socks_fail_request(s) :
          /\ s' = socks_close_if_flushed(u)
          /\ pc' = IF u.open THEN "select" ELSE "handler_use_after_free"
    /\ UNCHANGED <<conn, thread, jobs>>

OriginUnreachable ==
    /\ OriginEvent("W")
    /\ s.stm = "ORIGIN_CONNECTING"
    /\ s.dns_cursor <= 1
    /\ \E u \in socks_fail_request(socks_session_destroy_origin(s)) :
          /\ s' = socks_close_if_flushed(u)
          /\ pc' = IF u.open THEN "select" ELSE "handler_use_after_free"
    /\ UNCHANGED <<conn, thread, jobs>>

socks_origin_connect_complete ==
    OriginConnected \/ OriginRetry \/ OriginUnreachable

\* Mutant (ClientInterestInSync): room made in c2o does not reopen OP_READ.
OriginDrain_ClientNotArmed ==
    /\ OriginEvent("W")
    /\ s.stm # "ORIGIN_CONNECTING"
    /\ \E u \in socks_flush_origin(s) : s' = set_origin_interest(u)
    /\ UNCHANGED <<pc, conn, thread, jobs>>

OriginDrain ==
    /\ OriginEvent("W")
    /\ s.stm # "ORIGIN_CONNECTING"
    /\ \E u \in socks_flush_origin(s) :
          s' = set_client_interest(set_origin_interest(u))
    /\ UNCHANGED <<pc, conn, thread, jobs>>

socks_origin_write == socks_origin_connect_complete \/ OriginDrain

\* Mutant (PendingDelivered): what the client did not take at once is left in
\* o2c without OP_WRITE.
OriginReadData_ClientNotArmed ==
    /\ OriginEvent("R")
    /\ \E n \in 1..OStream :
          /\ n <= buffer_space(s.o2c)
          /\ s.got + n <= OStream
          /\ LET t == [s EXCEPT
                         !.o2c = buffer_write_adv(@, OriginBytes(s.got, n)),
                         !.got = @ + n,
                         !.node.bytes_down = IF s.store_id THEN @ + n ELSE @]
             IN  \E u \in socks_flush_client(t) : s' = set_origin_interest(u)
    /\ UNCHANGED <<pc, conn, thread, jobs>>

OriginReadData ==
    /\ OriginEvent("R")
    /\ \E n \in 1..OStream :
          /\ n <= buffer_space(s.o2c)
          /\ s.got + n <= OStream
          /\ LET t == [s EXCEPT
                         !.o2c = buffer_write_adv(@, OriginBytes(s.got, n)),
                         !.got = @ + n,
                         !.node.bytes_down = IF s.store_id THEN @ + n ELSE @]
             IN  \E u \in socks_flush_client(t) :
                    s' = set_origin_interest(set_client_interest(u))
    /\ UNCHANGED <<pc, conn, thread, jobs>>

OriginReadAgain ==
    /\ OriginEvent("R")
    /\ s' = set_origin_interest(s)
    /\ UNCHANGED <<pc, conn, thread, jobs>>

\* read() returns 0 or an error: close_from_origin.
OriginReadClose ==
    /\ OriginEvent("R")
    /\ s' = socks_client_close(s)
    /\ UNCHANGED <<pc, conn, thread, jobs>>

socks_origin_read == OriginReadData \/ OriginReadAgain \/ OriginReadClose
-----------------------------------------------------------------------------
(***************************************************************************)
(* DNS: the thread, and the block job it queues                            *)
(***************************************************************************)
\* The thread writes t into the session it was started for, without a lock.
\* That session may have been freed meanwhile.
DnsWrites(c, t) ==
    IF s.open /\ c = conn
      THEN s' = t /\ pc' = pc
      ELSE s' = s /\ pc' = "dns_use_after_free"

\* getaddrinfo returned: the flag comes first...
DnsDone(c) ==
    /\ pc \notin Crashed
    /\ thread[c] = "running"
    /\ DnsWrites(c, [s EXCEPT !.dns_resolving = FALSE])
    /\ thread' = [thread EXCEPT ![c] = "done"]
    /\ UNCHANGED <<conn, jobs>>

\* ... and the code and the list behind it.  The job of an earlier connection
\* may look at the session in between.
DnsPublish(c) ==
    /\ pc \notin Crashed
    /\ thread[c] = "done"
    /\ \E r \in 0..Addrs : DnsWrites(c, [s EXCEPT !.dns_result = r])
    /\ thread' = [thread EXCEPT ![c] = "published"]
    /\ UNCHANGED <<conn, jobs>>

\* Mutant (ResolvingEnds): the thread ends without waking the selector.
DnsNotify_Silent(c) ==
    /\ pc \notin Crashed
    /\ thread[c] = "published"
    /\ thread' = [thread EXCEPT ![c] = "none"]
    /\ UNCHANGED <<s, pc, conn, jobs>>

\* selector_notify_block(client_fd); the thread ends.
DnsNotify(c) ==
    /\ pc \notin Crashed
    /\ thread[c] = "published"
    /\ thread' = [thread EXCEPT ![c] = "none"]
    /\ jobs' = jobs + 1
    /\ UNCHANGED <<s, pc, conn>>

socks_dns_thread ==
    \E c \in 1..MaxConns : DnsDone(c) \/ DnsPublish(c) \/ DnsNotify(c)

\* handle_block_notifications takes a job.
BlockJob ==
    /\ pc = "select"
    /\ jobs > 0
    /\ jobs' = jobs - 1
    /\ UNCHANGED <<conn, thread>>

BlockUnused == BlockJob /\ ~s.open /\ UNCHANGED <<s, pc>>

\* stm_handler_block aborts in a state without on_block_ready.
BlockUnexpected ==
    /\ BlockJob
    /\ s.open
    /\ s.stm # "RESOLVING"
    /\ pc' = "stm_abort"
    /\ UNCHANGED s

BlockResolving == BlockJob /\ s.open /\ s.stm = "RESOLVING"

BlockEarly == BlockResolving /\ s.dns_resolving /\ pc' = "tail" /\ UNCHANGED s

BlockFailed ==
    /\ BlockResolving
    /\ ~s.dns_resolving
    /\ s.dns_result = 0
    /\ FailRequest(s, "tail")

BlockResolved ==
    /\ BlockResolving
    /\ ~s.dns_resolving
    /\ s.dns_result > 0
    /\ s' = [s EXCEPT !.dns_cursor = s.dns_result]
    /\ pc' = "connect"

socks_on_block_resolving == BlockEarly \/ BlockFailed \/ BlockResolved

socks_client_block == BlockUnexpected \/ socks_on_block_resolving

-----------------------------------------------------------------------------
(***************************************************************************)
(* Idle timeout.  A session is in the idle list from accept() until it     *)
(* expires or closes, and can be the head with its time over at any point. *)
(***************************************************************************)
Expired == [s EXCEPT !.ttl_expired = TRUE]

Expirable ==
    Timeouts /\ pc = "select" /\ s.open /\ ~s.ttl_expired

ExpireRelay ==
    /\ Expirable
    /\ s.stm = "RELAY"
    /\ s' = socks_client_close(Expired)
    /\ UNCHANGED <<pc, conn, thread, jobs>>

socks_expire_session_pre_relay ==
    /\ Expirable
    /\ s.stm # "RELAY"
    /\ LET t == [socks_o2c_append(Expired, "connect_ttl") EXCEPT
                    !.close_after_flush = TRUE, !.stm = "DONE"]
       IN  \E u \in socks_flush_client(t) :
              s' = set_client_interest(socks_close_if_flushed(u))
    /\ UNCHANGED <<pc, conn, thread, jobs>>

socks_server_expire_idle == ExpireRelay \/ socks_expire_session_pre_relay

-----------------------------------------------------------------------------
\* Nothing is left to do, or the process is gone.
Halted ==
    /\ \/ pc \in Crashed
       \/ /\ pc = "select" /\ ~s.open /\ conn = MaxConns /\ jobs = 0
          /\ \A c \in 1..MaxConns : thread[c] = "none"
    /\ UNCHANGED vars

Next ==
    \/ socks_passive_read
    \/ socks_client_read \/ socks_client_write \/ ClientTail
    \/ NeedMore
    \/ socks_on_read_greeting \/ socks_on_read_auth \/ socks_on_read_request
    \/ socks_begin_origin_connect
    \/ socks_origin_write \/ socks_origin_read
    \/ socks_dns_thread \/ BlockUnused \/ socks_client_block
    \/ socks_server_expire_idle
    \/ Halted

Spec == Init /\ [][Next]_vars

-----------------------------------------------------------------------------
(***************************************************************************)
(* Fairness.  Code that runs keeps running: the selector thread finishes   *)
(* its handler, takes queued jobs, and the DNS thread returns.  epoll is   *)
(* level triggered, so a descriptor that stays ready and wanted is served; *)
(* the peers are assumed to keep reading, so that it becomes ready and the *)
(* write moves at least one byte.  Nobody has to send, close or connect.   *)
(***************************************************************************)
ClientMoves == Len(s'.to_client) > Len(s.to_client)

OriginMoves == Len(s'.to_origin) > Len(s.to_origin)

Fairness ==
    /\ WF_vars(ClientTail)
    /\ WF_vars(NeedMore \/ socks_on_read_greeting \/ socks_on_read_auth
                  \/ socks_on_read_request)
    /\ WF_vars(socks_begin_origin_connect)
    /\ WF_vars(socks_dns_thread)
    /\ WF_vars(BlockUnused \/ socks_client_block)
    /\ WF_vars(socks_client_write /\ ClientMoves)
    /\ WF_vars(OriginDrain /\ OriginMoves)
    /\ WF_vars(socks_origin_connect_complete)

FairSpec == Spec /\ Fairness

-----------------------------------------------------------------------------
(***************************************************************************)
(* Safety                                                                  *)
(***************************************************************************)
\* The session is of its type: both buffers keep within their memory, every
\* reply finds room in o2c, and the counters count what was sent.
TypeOK ==
    /\ s \in Session
    /\ pc \in {"select", "drain", "tail", "connect", "reconnect"} \cup Crashed
    /\ conn \in 1..MaxConns
    /\ thread \in [1..MaxConns -> {"none", "running", "done", "published"}]
    /\ jobs \in Nat

\* Everything the client was or will be sent, in order.
ClientStream == s.to_client \o s.o2c.q

Replied(k) == \E i \in DOMAIN ClientStream : ClientStream[i].kind = k

\* client_read, flush_origin: what the origin got, followed by what waits in
\* c2o, is exactly what the client sent after the bytes the parsers took.
\* Data pipelined behind the CONNECT is neither lost, repeated nor parsed.
UpstreamExact ==
    s.to_origin \o s.c2o.q = ClientBytes(s.parsed, s.sent - s.parsed)

\* origin_read, flush_client: the bytes of the origin reach the client
\* complete and in order, whatever partial writes come between, and no reply
\* is queued among or behind them.
DownstreamExact ==
    LET k == Len(ClientStream) - s.got
    IN  /\ k >= 0
        /\ \A i \in 1..k : ClientStream[i].kind # "data"
        /\ \A i \in 1..s.got : ClientStream[k + i] = [kind |-> "data", n |-> i]

\* A CONNECT gets one answer, no byte of the origin precedes a success, and
\* the origin hears from the client only after a success (origin_write,
\* fail_request), as long as sessions do not expire (CONFIG timeout 0).
ReplyProtocol ==
    LET answers == {i \in DOMAIN ClientStream : ClientStream[i].kind \in ConnectReply}
    IN  /\ Cardinality(answers) <= 1
        /\ \A i \in DOMAIN ClientStream :
              ClientStream[i].kind = "data" =>
                 \E j \in answers : j < i /\ ClientStream[j].kind = "connect_ok"
        /\ s.to_origin # << >> => Replied("connect_ok")

\* close_after_flush (socks.h): between handlers no session is kept open whose
\* last reply has already gone out.
FlushedSessionCloses ==
    pc = "select" /\ s.open /\ s.close_after_flush => buffer_can_read(s.o2c)

\* The sessions that may be an exception, as no call of close_if_flushed ends
\* the handlers that empty them: origin_connect_complete once it has gone on to
\* the next address of a name, and the origin's handlers behind an expiry.
MayBeForgotten == s.dns_cursor \in 1..(s.dns_result - 1) \/ s.ttl_expired

\* FlushedSessionCloses for every other session, whatever the kernel takes of
\* each reply.
OthersClose == MayBeForgotten \/ FlushedSessionCloses

\* Between handlers the selector watches the client descriptor for exactly
\* what socks_client_interest asks, whichever handler last moved a buffer.
ClientInterestInSync ==
    pc = "select" /\ s.open => s.client_i = socks_client_interest(s)

\* In RELAY the origin is watched for writing exactly while c2o holds bytes,
\* and never for reading while o2c is full.
OriginWriteArmed ==
    pc = "select" /\ s.open /\ s.stm = "RELAY" =>
        /\ "W" \in s.origin_i <=> buffer_can_read(s.c2o)
        /\ "R" \in s.origin_i => buffer_can_write(s.o2c)

\* The other half of the comment on socks_origin_interest: "o2c con espacio ->
\* OP_READ".
OriginReadArmed ==
    pc = "select" /\ s.open /\ s.stm = "RELAY" /\ buffer_can_write(s.o2c) =>
        "R" \in s.origin_i

\* store_session_add_bytes: the counters equal the bytes that crossed the
\* origin socket, also when a write was partial or the session was closing.
BytesAccounted ==
    /\ s.node.bytes_up = Len(s.to_origin)
    /\ s.node.bytes_down = s.got

\* client_close, fail_request: the slot under sessions_cap is held exactly
\* while store_id is valid, and a closed session keeps neither slot nor
\* origin descriptor.
ResourcesReleased ==
    /\ s.node.active <=> s.store_id
    /\ ~s.open => ~s.store_id /\ ~s.origin_fd /\ s.origin_i = {}

\* Access log: once its CONNECT has succeeded a session reads CONNECTED while
\* it is open and then what closed it, the timeout or one of the peers; no
\* entry says so of a session that was not connected.
LogMatchesOutcome ==
    /\ Replied("connect_ok") =>
          s.node.log = IF s.open THEN "CONNECTED"
                       ELSE IF s.ttl_expired THEN "TTL_EXPIRED" ELSE "CLOSED"
    /\ s.node.log \in {"CONNECTED", "CLOSED"} => Replied("connect_ok")

\* "Fallo al conectar: nueva entrada FAILED en log y libera el slot": a failed
\* connection attempt leaves its entry.
FailureIsLogged ==
    Replied("connect_fail") /\ s.node.phase = "CONNECTING" => s.node.log = "FAILED"

\* stm.c: abort() marks an event in a state that has no handler for it.
NoStmAbort == pc # "stm_abort"

\* socks_dns_thread: "al terminar escribe dns_gai_rc / dns_result en la sesion":
\* the session is still there.
DnsThreadHasSession == pc # "dns_use_after_free"

\* flush_client: "retorna false si la sesion se cerro por error de I/O": a
\* handler does not go on with a session that was closed under it.
HandlerHasSession == pc # "handler_use_after_free"

\* A session that was refused or that expired is never revived: DONE is left
\* only by the next connection (origin_write, client_block and the retry of
\* origin_connect_complete all assign the state).
DoneIsFinal ==
    [][s.stm = "DONE" /\ conn' = conn => s'.stm = "DONE"]_vars

\* Of the origin's bytes, which follow the replies, those the client has.
Delivered ==
    LET k == Len(ClientStream) - s.got
    IN  [i \in 1..(Len(s.to_client) - k) |-> s.to_client[k + i].n]

Promise == INSTANCE Tunnel WITH
              first <- s.parsed,
              verdict <- IF s.stm = "DONE" THEN "no"
                         ELSE IF Replied("connect_ok") THEN "ok" ELSE "none",
              up <- s.to_origin, down <- Delivered, over <- ~s.open

\* Tunnel: whatever handlers, threads and partial writes come between, a
\* session refuses or admits once, relays only for a client it admitted, from
\* the first byte behind the request, and does nothing once it has ended.
ImplementsTunnel == Promise!Spec

\* client_write: "bytes del relay que no se pudieron flushear de inmediato":
\* when the origin closes, what it sent before is still delivered.
NoTruncation ==
    [][OriginReadClose => ~buffer_can_read(s.o2c)]_vars

-----------------------------------------------------------------------------
(***************************************************************************)
(* Liveness, under FairSpec                                                *)
(***************************************************************************)
\* A name resolution comes to an end: the block job finds its session.
ResolvingEnds ==
    (s.open /\ s.stm = "RESOLVING") ~> ~(s.open /\ s.stm = "RESOLVING")

\* Bytes in c2o when the tunnel is up, pipelined ones included, reach the
\* origin unless the session closes.
UploadDelivered ==
    \A i \in 1..CStream :
        (s.open /\ s.stm = "RELAY" /\ s.parsed < i /\ i <= s.sent)
            ~> (Len(s.to_origin) >= i - s.parsed \/ ~s.open)

\* Whatever is in o2c reaches the client unless the session closes.
PendingDelivered ==
    \A i \in 1..(OStream + ReplyUnits) :
        (s.open /\ Len(ClientStream) >= i) ~> (Len(s.to_client) >= i \/ ~s.open)

\* A session told to close does close, without help from the client.
CloseCompletes == (s.open /\ s.close_after_flush) ~> ~s.open
=============================================================================
