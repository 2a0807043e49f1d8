------------------------------ MODULE Selector ------------------------------
(***************************************************************************)
(* The event loop of the proxy (src/shared/selector.c): the jump table of  *)
(* registered descriptors, the epoll set behind it, the dispatch of one    *)
(* batch of events, and the jobs that the resolver threads post to it.     *)
(*                                                                         *)
(* The handlers of src/server/socks/socks.c are modelled by what they do   *)
(* to the selector, to descriptors and to the memory of a session; what    *)
(* they do with bytes is the subject of SocksSession.                      *)
(*                                                                         *)
(* A store one past the end of the table is undefined: the behaviour ends  *)
(* there, with loop "overrun".                                             *)
(***************************************************************************)
EXTENDS Integers, Sequences, FiniteSets

CONSTANTS
    Sessions,         \* addresses of struct socks_session
    Threads,          \* resolver threads running at once
    None,
    RLimit,           \* RLIMIT_NOFILE, in descriptors above the fixed ones
    InitialElements,  \* the argument of selector_new
    ItemsMax,         \* SELECTOR_ITEMS_MAX_SIZE
    EventsCapacity,   \* events that one epoll_wait returns
    Wanted            \* bound: the interests a handler may leave behind

ASSUME SelectorAssumption ==
    /\ RLimit \in Nat \ {0}
    /\ None \notin Sessions \cup {"passive", "client", "origin"}
    /\ None \notin 0..(RLimit - 1)
    /\ InitialElements \in 0..ItemsMax
    /\ ItemsMax \in Nat
    /\ EventsCapacity \in Nat \ {0}
    /\ Wanted \subseteq SUBSET {"read", "write"}

Fds == 0..(RLimit - 1)
Listen == 0           \* the listening socket
EventFd == -1         \* s->event_fd, outside the table

VARIABLES
    items,      \* s->fds
    fd_size,
    epoll,      \* the kernel's interest set: descriptor -> interest
    open,       \* open descriptors of the process
    session,    \* allocated sessions: address -> fields
    resolution_jobs,
    event_fd,   \* the counter of the eventfd is not zero
    thread,     \* resolver threads
    loop,       \* "wait", "dispatch", "block", "crashed" or "overrun"
    batch,      \* events of the last epoll_wait not yet looked at
    key         \* None, or the key and the events still to deliver

table == <<items, fd_size, epoll, open, session>>
vars == <<table, resolution_jobs, event_fd, thread, loop, batch, key>>

\* memset and item_init: FD_UNUSED is the handler None.
Unused == [handler |-> None, interest |-> {}, data |-> None]
ITEM_USED(item) == item.handler # None

Restrict(f, S) == [x \in S |-> f[x]]
Update(f, x, v) == [y \in DOMAIN f \cup {x} |-> IF y = x THEN v ELSE f[y]]

-----------------------------------------------------------------------------
(***************************************************************************)
(* The table                                                               *)
(***************************************************************************)
\* The bits of n are counted: 1UL << bits is the least power of two above n.
next_capacity(n) ==
    LET pow2[k \in 0..n] == IF k = 0 THEN 1 ELSE 2 * pow2[k - 1]
        bits == CHOOSE k \in 0..n : pow2[k] > n /\ \A j \in 0..(k - 1) : pow2[j] <= n
    IN  (IF pow2[bits] > ItemsMax THEN ItemsMax ELSE pow2[bits]) + 1

\* The new capacity; unchanged when n fits and when it is SELECTOR_MAXFD.
ensure_capacity(size, n) ==
    IF n < size \/ n > ItemsMax THEN size ELSE next_capacity(n)

\* A handler makes several calls in one step: they are functions of these.
World == [items |-> items, size |-> fd_size, epoll |-> epoll, open |-> open,
          session |-> session, overrun |-> FALSE]

Become(w) ==
    /\ items' = w.items
    /\ fd_size' = w.size
    /\ epoll' = w.epoll
    /\ open' = w.open
    /\ session' = w.session
    /\ loop' = IF w.overrun THEN "overrun" ELSE loop

CanRegister(w, fd) == fd < ItemsMax /\ ~ITEM_USED(w.items[fd])

\* Mutant (InBounds): the table is not made larger.
selector_register_NoGrowth(w, fd, handler, interest, data) ==
    [w EXCEPT
        !.overrun = @ \/ fd = w.size,
        !.items[fd] = [handler |-> handler, interest |-> interest, data |-> data],
        !.epoll = Update(@, fd, interest)]

\* The table grows for a descriptor larger than its size, and the one that
\* equals it is stored behind the last item.
selector_register(w, fd, handler, interest, data) ==
    [w EXCEPT
        !.overrun = @ \/ fd = w.size,
        !.size = IF fd > @ THEN ensure_capacity(@, fd) ELSE @,
        !.items[fd] = [handler |-> handler, interest |-> interest, data |-> data],
        !.epoll = Update(@, fd, interest)]

selector_set_interest(w, fd, interest) ==
    IF ~ITEM_USED(w.items[fd]) THEN w
    ELSE [w EXCEPT !.items[fd].interest = interest, !.epoll[fd] = interest]

\* Mutant (HandlerGetsOwner): the item is marked as unused and not cleared.
selector_unregister_fd_NotCleared(w, fd) ==
    IF ~ITEM_USED(w.items[fd]) THEN w
    ELSE [w EXCEPT !.items[fd].handler = None,
                   !.epoll = Restrict(@, DOMAIN @ \ {fd}),
                   !.open = @ \ {fd}]

\* handle_close has closed the descriptor before the item is cleared.
selector_unregister_fd(w, fd) ==
    IF ~ITEM_USED(w.items[fd]) THEN w
    ELSE [w EXCEPT !.items[fd] = Unused,
                   !.epoll = Restrict(@, DOMAIN @ \ {fd}),
                   !.open = @ \ {fd}]

-----------------------------------------------------------------------------
(***************************************************************************)
(* Sessions                                                                *)
(***************************************************************************)
\* Descriptors that getaddrinfo has open in the resolver threads.
Borrowed == {thread[t].own : t \in Threads}

\* socket() and accept() return the lowest free descriptor.
IsNextFd(w, fd) ==
    LET free == Fds \ (w.open \cup Borrowed)
    IN  fd \in free /\ \A g \in free : fd <= g

socks_session_destroy_origin(w, x) ==
    IF w.session[x].origin = None THEN w
    ELSE [selector_unregister_fd(w, w.session[x].origin)
             EXCEPT !.session[x].origin = None]

\* Mutant (OwnersMatch): the origin of a closed session stays registered.
socks_unregister_session_KeepsOrigin(w, x) ==
    LET v == selector_unregister_fd(w, w.session[x].client)
    IN  [v EXCEPT !.session = Restrict(@, DOMAIN @ \ {x})]

\* selector_unregister_fd of the client and, under it, socks_client_close.
socks_unregister_session(w, x) ==
    LET v == selector_unregister_fd(socks_session_destroy_origin(w, x),
                                    w.session[x].client)
    IN  [v EXCEPT !.session = Restrict(@, DOMAIN @ \ {x})]

\* A handler ends by recomputing the interests of its session.
SetInterests(w, x) ==
    {LET v == selector_set_interest(w, w.session[x].client, c)
     IN  IF v.session[x].origin = None \/ v.session[x].state # "relay" THEN v
         ELSE selector_set_interest(v, v.session[x].origin, o) :
            c \in Wanted, o \in Wanted}

\* socks_fail_request: the reply is flushed, and the session closed, or not yet.
socks_fail_request(w, x) ==
    SetInterests([w EXCEPT !.session[x].state = "done"], x)
        \cup {socks_unregister_session(w, x)}

\* Refused at once, out of descriptors, or under way.
socks_begin_origin_connect(w, x) ==
    socks_fail_request(w, x) \cup
    UNION {SetInterests(
              [selector_register(
                  [w EXCEPT !.open = @ \cup {fd}], fd, "origin", {"write"}, x)
                 EXCEPT !.session[x].origin = fd,
                        !.session[x].state = "connecting"], x) :
           fd \in {g \in Fds : IsNextFd(w, g) /\ CanRegister(w, g)}}

-----------------------------------------------------------------------------
(***************************************************************************)
(* Handlers.  Each is a set of worlds that the call may leave behind.      *)
(***************************************************************************)
socks_client_read(w, x) ==
    {socks_unregister_session(w, x)} \cup
    SetInterests(w, x) \cup
    (IF w.session[x].state = "handshake"
     THEN socks_begin_origin_connect(w, x)
     ELSE {})

socks_client_write(w, x) == {socks_unregister_session(w, x)} \cup SetInterests(w, x)

socks_origin_read(w, x) == {socks_unregister_session(w, x)} \cup SetInterests(w, x)

\* The first event of a connecting origin: connected, or the next address, or
\* failed.
socks_origin_write(w, x) ==
    IF w.session[x].state # "connecting"
    THEN {socks_unregister_session(w, x)} \cup SetInterests(w, x)
    ELSE LET v == socks_session_destroy_origin(w, x)
         IN  SetInterests([w EXCEPT !.session[x].state = "relay"], x)
                \cup socks_begin_origin_connect(v, x)

\* stm_handler_block aborts in any state but RESOLVING.
BlockAccepted(w, fd) ==
    /\ w.items[fd].handler = "client"
    /\ w.session[w.items[fd].data].state = "resolving"

\* A job that is not this session's own comes while dns_resolving is set.
socks_client_block(w, x) ==
    IF w.session[x].dns_resolving THEN SetInterests(w, x)
    ELSE socks_begin_origin_connect(w, x)

Handle(w, fd, op) ==
    LET x == w.items[fd].data
    IN  CASE w.items[fd].handler = "client" /\ op = "read" -> socks_client_read(w, x)
          [] w.items[fd].handler = "client" /\ op = "write" -> socks_client_write(w, x)
          [] w.items[fd].handler = "origin" /\ op = "read" -> socks_origin_read(w, x)
          [] w.items[fd].handler = "origin" /\ op = "write" -> socks_origin_write(w, x)

-----------------------------------------------------------------------------
(***************************************************************************)
(* selector_select                                                         *)
(***************************************************************************)
\* What epoll may report: what was asked for, and a hang-up or error, which
\* handle_iteration takes for both, at any time.
Ready(fd) ==
    {e \in SUBSET {"read", "write"} :
        e # {} /\ (e \subseteq epoll[fd] \/ e = {"read", "write"})}

\* owner is history: the session the event was about.
Report(fd, e) ==
    [fd |-> fd, events |-> e,
     owner |-> IF fd = EventFd THEN None ELSE items[fd].data]

\* Returns with events, at the timeout or on a signal.
epoll_wait ==
    /\ loop = "wait"
    /\ \E R \in SUBSET DOMAIN epoll :
          /\ Cardinality(R) <= EventsCapacity
          /\ \E ev \in [R -> SUBSET {"read", "write"}] :
                /\ \A fd \in R : ev[fd] \in Ready(fd)
                /\ batch' = {Report(fd, ev[fd]) : fd \in R} \cup
                      (IF event_fd /\ Cardinality(R) < EventsCapacity
                       THEN {Report(EventFd, {"read"})} ELSE {})
    /\ loop' = "dispatch"
    /\ UNCHANGED <<table, resolution_jobs, event_fd, thread, key>>

\* handle_iteration looks at one event.  The key is filled in here, once.
TakeEvent ==
    /\ loop = "dispatch"
    /\ key = None
    /\ \E e \in batch :
          /\ batch' = batch \ {e}
          /\ event_fd' = (event_fd /\ e.fd # EventFd)
          /\ key' = IF e.fd = EventFd \/ ~ITEM_USED(items[e.fd]) THEN None
                    ELSE [fd |-> e.fd, data |-> items[e.fd].data,
                          todo |-> e.events, owner |-> e.owner]
    /\ UNCHANGED <<table, resolution_jobs, thread, loop>>

\* Reading comes before writing.
IsNextOp(op) ==
    /\ loop = "dispatch"
    /\ key # None
    /\ op \in key.todo
    /\ op = "write" => "read" \notin key.todo

OpDone(op) ==
    key' = IF key.todo = {op} THEN None ELSE [key EXCEPT !.todo = @ \ {op}]

\* The interest is read again before each of the two calls.
SkipEvent(op) ==
    /\ IsNextOp(op)
    /\ op \notin items[key.fd].interest
    /\ OpDone(op)
    /\ UNCHANGED <<table, resolution_jobs, event_fd, thread, loop, batch>>

HandleEvent(op) ==
    /\ IsNextOp(op)
    /\ op \in items[key.fd].interest
    /\ items[key.fd].handler # "passive"
    /\ \E w \in Handle(World, key.fd, op) : Become(w)
    /\ OpDone(op)
    /\ UNCHANGED <<resolution_jobs, event_fd, thread, batch>>

\* The CONNECT names a host: a detached thread resolves it.
StartResolve(t) ==
    /\ IsNextOp("read")
    /\ "read" \in items[key.fd].interest
    /\ items[key.fd].handler = "client"
    /\ session[key.data].state = "handshake"
    /\ thread[t].pc = "idle"
    /\ thread' = [thread EXCEPT ![t] = [pc |-> "resolving", fd |-> key.fd,
                                         data |-> key.data, own |-> None]]
    /\ \E w \in SetInterests([World EXCEPT
                                !.session[key.data].state = "resolving",
                                !.session[key.data].dns_resolving = TRUE],
                             key.data) : Become(w)
    /\ OpDone("read")
    /\ UNCHANGED <<resolution_jobs, event_fd, batch>>

InPassiveRead ==
    /\ IsNextOp("read")
    /\ items[key.fd].handler = "passive"

\* socks_passive_read accepts until accept() fails.
socks_passive_read(x) ==
    /\ InPassiveRead
    /\ x \notin DOMAIN session
    /\ \E fd \in Fds :
          /\ IsNextFd(World, fd)
          /\ CanRegister(World, fd)
          /\ Become(selector_register(
                [World EXCEPT
                    !.open = @ \cup {fd},
                    !.session = Update(@, x, [client |-> fd, origin |-> None,
                                              state |-> "handshake",
                                              dns_resolving |-> FALSE])],
                fd, "client", {"read"}, x))
    /\ UNCHANGED <<resolution_jobs, event_fd, thread, batch, key>>

\* EAGAIN, or no descriptor left.
AcceptEnds ==
    /\ InPassiveRead
    /\ OpDone("read")
    /\ UNCHANGED <<table, resolution_jobs, event_fd, thread, loop, batch>>

IterationDone ==
    /\ loop = "dispatch"
    /\ key = None
    /\ batch = {}
    /\ loop' = "block"
    /\ UNCHANGED <<table, resolution_jobs, event_fd, thread, batch, key>>

\* The mutex is held from the first job to the last, so that no thread sees
\* the list half taken.
handle_block_notifications ==
    /\ loop = "block"
    /\ IF resolution_jobs = <<>>
       THEN loop' = "wait" /\ UNCHANGED <<table, resolution_jobs>>
       ELSE LET fd == Head(resolution_jobs)
            IN  /\ resolution_jobs' = Tail(resolution_jobs)
                /\ \/ ~ITEM_USED(items[fd]) /\ UNCHANGED <<table, loop>>
                   \/ /\ ITEM_USED(items[fd])
                      /\ BlockAccepted(World, fd)
                      /\ \E w \in socks_client_block(World, items[fd].data) : Become(w)
                   \/ /\ ITEM_USED(items[fd])     \* a NULL handle_block, or abort()
                      /\ ~BlockAccepted(World, fd)
                      /\ loop' = "crashed"
                      /\ UNCHANGED table
    /\ UNCHANGED <<event_fd, thread, batch, key>>

-----------------------------------------------------------------------------
(***************************************************************************)
(* Resolver threads                                                        *)
(***************************************************************************)
NoThread == [pc |-> "idle", fd |-> None, data |-> None, own |-> None]

\* getaddrinfo asks a name server over a socket of its own.
ResolverOpens(t) ==
    /\ thread[t].pc = "resolving"
    /\ thread[t].own = None
    /\ \E fd \in Fds : IsNextFd(World, fd) /\ thread' = [thread EXCEPT ![t].own = fd]
    /\ UNCHANGED <<table, resolution_jobs, event_fd, loop, batch, key>>

ResolverCloses(t) ==
    /\ thread[t].own # None
    /\ thread' = [thread EXCEPT ![t].own = None]
    /\ UNCHANGED <<table, resolution_jobs, event_fd, loop, batch, key>>

\* The thread writes its result into the session it was started for, which is
\* a write to freed memory when the session was closed meanwhile.
WriteResult(t) ==
    /\ thread[t].pc = "resolving"
    /\ thread[t].own = None
    /\ session' = IF thread[t].data \in DOMAIN session
                  THEN [session EXCEPT ![thread[t].data].dns_resolving = FALSE]
                  ELSE session
    /\ thread' = [thread EXCEPT ![t].pc = "notify"]
    /\ UNCHANGED <<items, fd_size, epoll, open>>
    /\ UNCHANGED <<resolution_jobs, event_fd, loop, batch, key>>

\* selector_notify_block queues the job under the mutex...
NotifyQueue(t) ==
    /\ thread[t].pc = "notify"
    /\ loop # "block"
    /\ resolution_jobs' = <<thread[t].fd>> \o resolution_jobs
    /\ thread' = [thread EXCEPT ![t].pc = "signal"]
    /\ UNCHANGED <<table, event_fd, loop, batch, key>>

\* ... and writes the eventfd behind it.
NotifySignal(t) ==
    /\ thread[t].pc = "signal"
    /\ event_fd' = TRUE
    /\ thread' = [thread EXCEPT ![t] = NoThread]
    /\ UNCHANGED <<table, resolution_jobs, loop, batch, key>>

\* No memory for the job.
NotifyFails(t) ==
    /\ thread[t].pc = "notify"
    /\ thread' = [thread EXCEPT ![t] = NoThread]
    /\ UNCHANGED <<table, resolution_jobs, event_fd, loop, batch, key>>

-----------------------------------------------------------------------------
\* selector_new and the registration of the listening socket.
Init ==
    /\ items = [fd \in Fds |->
          IF fd = Listen
          THEN [handler |-> "passive", interest |-> {"read"}, data |-> None]
          ELSE Unused]
    /\ fd_size = ensure_capacity(0, InitialElements)
    /\ epoll = [fd \in {Listen} |-> {"read"}]
    /\ open = {Listen}
    /\ session = [x \in {} |-> None]
    /\ resolution_jobs = <<>>
    /\ event_fd = FALSE
    /\ thread = [t \in Threads |-> NoThread]
    /\ loop = "wait"
    /\ batch = {}
    /\ key = None

selector_select ==
    \/ epoll_wait
    \/ TakeEvent
    \/ \E op \in {"read", "write"} : SkipEvent(op) \/ HandleEvent(op)
    \/ \E t \in Threads : StartResolve(t)
    \/ \E x \in Sessions : socks_passive_read(x)
    \/ AcceptEnds
    \/ IterationDone
    \/ handle_block_notifications

\* Mutant (NoLostWakeup): the loop is woken before the job is there.
selector_notify_block_SignalFirst(t) ==
    \/ /\ thread[t].pc = "notify"
       /\ event_fd' = TRUE
       /\ thread' = [thread EXCEPT ![t].pc = "signal"]
       /\ UNCHANGED <<table, resolution_jobs, loop, batch, key>>
    \/ /\ thread[t].pc = "signal"
       /\ loop # "block"
       /\ resolution_jobs' = <<thread[t].fd>> \o resolution_jobs
       /\ thread' = [thread EXCEPT ![t] = NoThread]
       /\ UNCHANGED <<table, event_fd, loop, batch, key>>

selector_notify_block(t) == NotifyQueue(t) \/ NotifySignal(t) \/ NotifyFails(t)

socks_dns_thread(t) ==
    ResolverOpens(t) \/ ResolverCloses(t) \/ WriteResult(t) \/ selector_notify_block(t)

Running == loop \notin {"crashed", "overrun"}

Crashed == ~Running /\ UNCHANGED vars

Next ==
    \/ selector_select
    \/ \E t \in Threads : Running /\ socks_dns_thread(t)
    \/ Crashed

Spec == Init /\ [][Next]_vars

-----------------------------------------------------------------------------
\* The table, the epoll set, the open descriptors and the fields client_fd and
\* origin_fd of the sessions are one relation: whatever handlers close and
\* reopen, no item is left behind with a freed session or a closed
\* descriptor, and the interest that is dispatched is the one epoll has.
OwnersMatch ==
    LET used == {fd \in Fds : ITEM_USED(items[fd])}
    IN  /\ open = used
        /\ DOMAIN epoll = used
        /\ \A fd \in used :
              /\ epoll[fd] = items[fd].interest
              /\ CASE items[fd].handler = "client" ->
                        /\ items[fd].data \in DOMAIN session
                        /\ session[items[fd].data].client = fd
                   [] items[fd].handler = "origin" ->
                        /\ items[fd].data \in DOMAIN session
                        /\ session[items[fd].data].origin = fd
                   [] OTHER -> fd = Listen
        /\ \A x \in DOMAIN session :
              {fd \in used : items[fd].data = x} =
                 {session[x].client, session[x].origin} \ {None}

\* When handle_iteration calls a handler, the data it read before the first
\* call is that of the descriptor's owner now: an earlier handler of the
\* batch, or the read handler just before, freed no session that is handed on.
HandlerGetsOwner ==
    \A op \in {"read", "write"} :
        IsNextOp(op) /\ op \in items[key.fd].interest =>
            /\ key.data = items[key.fd].data
            /\ key.data \in DOMAIN session \cup {None}

\* Stronger, and false: a handler is only called for an event of its own
\* session.  A descriptor closed and opened again within one batch gets the
\* events of the old connection.
EventIsOwners ==
    \A op \in {"read", "write"} :
        IsNextOp(op) /\ op \in items[key.fd].interest => key.owner = key.data

\* Also false: a job reaches the session that posted it, or nobody.
NoCrash == loop # "crashed"

\* No index reaches past the jump table, however it has grown and however many
\* descriptors the process may open, until the one that equals its size is
\* registered: ensure_capacity is not asked for that one, and for no other is
\* it asked too late or for too little.
InBounds ==
    loop # "overrun" => \A fd \in Fds : ITEM_USED(items[fd]) => fd < fd_size

\* Also false: ensure_capacity's "garantizar cierta cantidad de elemenos en
\* fds" holds for every descriptor that is registered.
NoOverrun == loop # "overrun"

\* The loop never goes to sleep on a job: while it waits with one in the list,
\* the eventfd is written or a thread is about to write it.
NoLostWakeup ==
    loop = "wait" /\ resolution_jobs # <<>> =>
        event_fd \/ \E t \in Threads : thread[t].pc = "signal"
=============================================================================
