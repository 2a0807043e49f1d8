# A TLA+ model of the SOCKS5 proxy and its monitor

The program is a SOCKS5 proxy in C with a second port, the monitor, on which
administrators read statistics and change users, limits and deny rules. One
thread runs an epoll loop (`shared/selector.c`) that calls the handlers of both
servers; each FQDN request adds a detached thread that runs `getaddrinfo`.
This directory holds TLA+ modules for its parts, TLC configurations that check
them on small instances, and TLAPS proofs, for every size, of all the safety and action
properties the passing runs check. `PROJECT.json` lists components, runs, mutants, the lines
each definition models, findings, hazards and theorems.

## Inventory

Paths are relative to `src/src/`.

| Component | State | Operations | What makes it correct |
|---|---|---|---|
| SOCKS session, `server/socks/socks.c` | state of the machine, buffers c2o and o2c, interests of two descriptors, resolver result, flags, store node | accept, client read/write, origin read/write/connect, block job, expiry, close | bytes relayed exactly; interest follows the buffers; one reply per stage; everything released; the session ends |
| Selector, `shared/selector.c` | table of descriptors, epoll set, queue of block jobs, eventfd | register, unregister, set interest, grow, dispatch a batch, notify | table, kernel and sessions agree; a handler gets the owner of its descriptor; no job is slept on; no index past the table |
| State machine, `shared/stm.c` | current state | read, write, block | no event in a state without a handler for it |
| Idle list, `socks.c` 1140-1291 | doubly linked list, last activity | push, remove, touch, expire | well linked, in order of activity; expiry misses nobody |
| Session table and log, `server/monitor/store.c` | slots, cap, metrics, log ring | begin, set user, destination and phase, add bytes, end, fail, expire, configure | cap respected; slots and sessions match; the log follows the sessions |
| User table, `store.c`, `server/main.c` | table, counter | flags, add, delete, set password, validate | an administrator remains; names unique; credentials take effect |
| Deny rules, `store.c` 910-1093 | two linked lists with tail pointers | deny host, deny address, undeny, look up | the lists are sets |
| Buffer, `shared/buffer.c` | memory, read and write pointer | write, read, compact, reset | a bounded queue |
| Monitor session, `server/monitor/monitor.c`, `monitor_commands.c` | authentication, partial line, write buffer, close flag | read, write, close, one handler per command | lines run once, in order, behind AUTH; replies delivered; the session ends |
| Parsers, `server/socks/{greeting,auth,request}` | state, lengths and arrays per message | feed a byte | accept what RFC 1928 and 1929 describe, however it is cut; the destination is the one in the message |
| Main loop, `server/main.c` | signal flags, counters of the two servers | serve, stop accepting, drain, force, destroy | ends when the sessions have ended, and leaves none behind |
| Monitor client, `client/main.c`, `client/protocol.c` | the screen, what it has read of an answer | greeting, login, fetch configuration, menu commands, quit | in step with the server; every command returns |
| Stress tools, echo server, generic parser, helpers | | | outside the proxy |

How they interact: the selector calls the session handlers with a
`selector_key`; a handler calls `selector_set_interest` and
`selector_unregister_fd`, and the latter calls the close handler, which frees
the session while callers further up the stack may still use it. The resolver
thread writes into the session and queues a job that names only the client's
descriptor. Sessions report to the store; the monitor's commands change the
store between any two handlers. After each `select` the main loop runs the
expiry loop over the idle list.

Where it is hard: a session closed under the feet of a handler or a thread;
descriptors reused while jobs for them are queued; interest to be restored on
the *other* descriptor when a buffer drains; partial writes everywhere; a timeout
that fires in any state; limits that change while sessions are open. The full
list, by line, is `hazards` in `PROJECT.json`.

## Modules

| Module | Models | Kind |
|---|---|---|
| `Buffer` | what the callers of `buffer.c` see: a queue and the dead space in front of it | operators |
| `BufferMemory` | `buffer.c` itself: memory and pointers | component, implements `Buffer` |
| `Tunnel` | what a session promises its two ends: one answer, two streams, an end | abstract specification |
| `SocksSession` | one client descriptor: session, origin, resolver threads, jobs, expiry | component over `Buffer`, implements `Tunnel` |
| `IdleList` | the idle list and the expiry loop over all sessions | component |
| `Server` | the main loop, signals, both listening sockets and all sessions | composition over `IdleList` |
| `Selector` | the event loop, with the SOCKS handlers and resolver threads that call it | component |
| `ConnectionLimit` | a set of open sessions and a limit | abstract specification |
| `SessionTable` | slots, metrics, cap and log ring | component, implements `ConnectionLimit` |
| `Users` | the user table, from the flags on | component |
| `Handshake` | greeting, authentication and request, byte by byte | composition over `Users` |
| `DenySet` | a set of names and a set of addresses | abstract specification |
| `Acl` | the linked lists of deny rules | component, implements `DenySet` |
| `MonitorSession` | one monitor connection | component over `Buffer` |
| `MonitorClient` | the client program at its other end | composition over `MonitorSession` |
| `*_proofs` | theorems and proofs about the module of that name; `Server_proofs` also holds those of `IdleList`, `Handshake_proofs` those of `Users`, `MonitorClient_proofs` those of `MonitorSession` | proofs |
| `MC*` | what a configuration needs: symmetry sets, constant functions | for TLC |

Definitions keep the names of the C functions. A definition named
`<definition>_<Change>`, under a comment that starts with "Mutant", is the
definition with a plausible bug; no specification uses it. Each property of a
passing run has one that violates it.

**SocksSession.** `s` is `struct socks_session` with its two selector items and
its store node, and ghosts for what each side has been sent. A handler is one
step, except that the read loop of `socks_client_read` and the loop over
addresses of `socks_begin_origin_connect` are steps of their own, because the
environment chooses in each; `pc` says where the selector's thread is, and no
other handler runs meanwhile. Client bytes are numbered, so that lost, repeated
and reordered bytes show; the verdict of a parser on a byte is a choice. A reply
is one unit of o2c. `thread` is the resolver of each connection, `jobs` the
queue for this descriptor; both outlive the session, and the next `accept` finds
them. The thread clears `dns_resolving` in one step and writes code and result in the
next, without a lock, so that a job of an earlier connection may come in between.
Undefined behaviour and `abort` end the process in a state of `Crashed`.
A flush writes any part of what is pending, or fails when `Resets`.

**Tunnel.** A client is heard byte by byte, then refused or admitted, once; only an
admitted one has bytes relayed, in order and from the first one behind its request,
and an ended session does nothing until the next `accept`. `Promise` in
`SocksSession` reads this off the session: the answer from `stm` and the success
reply, the handshake from the bytes the parsers took, the two streams from what
each end was really sent.

**IdleList.** The calls on the list are functions on a record of its pointers.
The expiry loop reads the clock once and takes a step per session, while the
clock goes on. Expiring a session either closes it or leaves it alive and
unlisted to flush its reply 0x06. The clock is assumed not to be set back.

**SessionTable.** One step per call; names, hosts and timestamps are reduced to
whether they are set. `held` is the set of identifiers kept by sessions.

**Users.** `Stored[n]` and `Kept[p]` are what `strncpy` leaves of name `n` and of
password `p`; look-ups compare the whole name, as the code does, so that a name too
long for its field is never found again. `phase` follows `main`: the `-u` flags, the
`-a` flags, a malformed or refused one that ends the program, then commands.
`Own(n)` says that `n` fits and that no longer name is cut to it.

**Acl.** `Addr[t]` is what `inet_pton` reads in a text, so that one address may
be written in two ways. Memory is a set of rules of which free ones have no key.

**BufferMemory.** Memory is a function from positions to bytes; compaction is
the overlapping copy of `memmove`, after which the pointers move. `b` is the
`Buffer` value that memory and pointers stand for.

**MonitorSession.** A unit of input is a newline, a carriage return or the whole
text of a command: AUTH, a listing, a command answered by one line, QUIT. The
command answered by one line (SET) ends in an argument that may be any text, as that of
SET_PASSWORD: what follows on the line, a carriage return at the end of the input
included, is part of it. A reply line is two units, its verdict and its end, and the terminator one, so
that a line may not fit where a terminator does. The ghost `said` holds what found
room in `wb`: `RepliesExact` is about its way from there to the client, and what was
dropped for lack of room shows in `EveryReplyTerminated` only. A read takes any part of what
was sent and feeds it unit by unit.

**MonitorClient.** The peer of the session is any program at all (`MonitorSession`'s
client) or the repository's own. The latter is a record `tool`: the screen, the
call it is blocked in and how much of `out` it has read. A command is one step
of `write_all`; the server may still read it in pieces. `read_response` takes a
step per line that has arrived whole. Every screen of the menu is one of three
things: a command answered by one line, a listing, or QUIT. SIGINT ends the
program anywhere; a descriptor closed with answers unread resets the connection.

**Selector.** `items`, `fd_size`, `epoll`, `open` and `session` are the jump table,
its capacity, the kernel's set, the descriptors of the process and the memory of
the sessions. A handler makes several calls in one step, so that each call is a
function from such a world to the next and a handler is the set of worlds it may
leave behind. `epoll_wait` chooses any batch, with hang-ups for descriptors that
asked for nothing; `handle_iteration` takes a step per event and per handler, and
reads the key once, as the code does. `accept` and `socket` return the lowest free
descriptor, so that descriptors are reused at once. A resolver thread writes its
result, queues its job and writes the eventfd in separate steps; the loop holds
the mutex over all the jobs. While it resolves, `getaddrinfo` may have a descriptor
of its own open, so that the next one registered skips a number. A job for a descriptor
that cannot take it ends in the loop state `crashed`, and a store one past the end of
the table in `overrun`: what happens behind undefined behaviour is not modelled. Bytes are the subject of `SocksSession`.

**Server.** `main` is where the process is: the loop's condition, `selector_select`
(any number of handlers, and its return), the expiry loop, destruction. The
handlers of the SOCKS side are the actions of `IdleList` with the counter
`active_sessions` around them; monitor sessions are a set and a counter. A signal
comes at any point; the second ends the process by `_exit`.

**Handshake.** The parsers are functions from a record, with the C arrays in it, and
a byte to the next record, with its status. The session feeds one byte a step, so
that every way to cut the messages is included, and an account command may fall
between any two bytes. `GreetingOutcome`, `AuthOutcome` and `RequestOutcome` say from
the whole message where the session should be. Names and passwords are C strings:
what stands behind a NUL byte is not compared, so `AuthOutcome` ends a name at its
first NUL (`UpToNul`), and a name sent with a NUL and anything behind it is that of
the account it starts with (auth.c 86-91).

## Runs

| Run | Bounds | Shows |
|---|---|---|
| `session_safety` | Cap 4, 4 client and 5 origin bytes, 2 addresses, 2 connections, timeouts, resets | exact relay both ways, interests, accounting, release, log |
| `session_liveness` | Cap 4, 4 + 4 bytes, 1 address, 1 connection, fair | one reply per CONNECT, the session is a `Tunnel`; resolution ends, pending bytes are delivered, closing completes |
| `table_sessions` | cap 1 to 2, ring of 2, 3 sessions | the slot table is a limit; the ring follows the sessions |
| `acl_lists` | 5 rules, 6 texts | the lists are sets |
| `buffer_agrees` | 4 bytes, 3 values | pointers and memory are the queue |
| `monitor_commands` | wb of 6 units, lines of 3, 4 units of input of any program; listings of 2 lines, an array of 3, 2 parameters, 2 logins and 2 menu commands of the client program; fair | commands exact, replies delivered, sessions end; the client program in step, every command returns |
| `selector_dispatch` | 2 sessions, 1 thread, 4 descriptors, initial capacity 2, 3 events a batch | table, epoll set and sessions agree inside every batch; handlers get owners; only the descriptor equal to the size gets past the table; no lost wake-up |
| `server_loop` | 3 SOCKS sessions, 1 monitor session, clock to 3, timeout to 2, fair | the list is linked and ordered, expiry is complete; shutdown ends and finds nobody |
| `handshake` | bytes 0 to 5, lengths to 2, addresses of 1 and 2 bytes, 2 slots, 3 names and 3 passwords, of which one is too long for its field | each client gets as far as its bytes and the accounts allow, to the destination it named; an administrator remains, credentials take effect |

The bounds. Four units of buffer is the least that holds every reply a session
can have pending (`io_buffer_size` is at least 1024 in the program), and a
stream longer than the buffer makes it fill, compact and stop reading. Two
connections are one session and its successor on the same descriptor. Two
addresses give one retry. Three sessions in the idle list give a head, a middle
and a tail; a ring of two wraps at the third entry; five rules allow a list of
three, with a removal in the middle. A write buffer of six units holds the
greeting and one short reply, so the second pipelined reply does not fit; four
units of input are two lines, or AUTH and an unterminated command. A byte from 0 to
5 has every value that the parsers tell apart, one that is no method, command or
address type, and the NUL; lengths of 1 and 2 have a first, a middle and a last byte,
and one name is the prefix of the other; the third name, and the third password, is
cut to the second when stored. Four descriptors are the listening socket, two
clients and an origin, so that an origin may take the descriptor of a client closed
in the same batch, and the table of the process is full with one session and a half.
The jump table starts with room for two (`InitialElements` 0) and grows to five when a
resolver's own descriptor makes the next one skip the number two; where it does not, the
behaviour ends in `overrun` at that number. A handler of that run leaves its
descriptors with no interest or with both, the two extremes between which
`handle_iteration` decides. In the monitor run the answers fit (`AnswersFit`),
as all do in the program but listings of 4 KiB or of 512 lines.

Deadlock checking is off only for `MonitorClient`: a connection that has
closed, or whose client sends nothing more, stops.

### Findings

Three runs expect a violation; each shows that the code does not do what one of
its comments says. `findings` in `PROJECT.json` quotes the comments.

- `session_origin_read`: after a full o2c is drained by `socks_client_write`, the
  origin's read interest is not restored.
- `session_truncation`: the end of the origin's stream drops what is in o2c.
- `session_stale_job`: a resolver's job reaches the next session on the
  descriptor and the state machine aborts.

The same models show more, each by one more property in an existing
configuration:

| Property, added to | Violated by |
|---|---|
| `FlushedSessionCloses`, `session_safety` | a retry that fails at once, and whose reply is flushed at once, leaves the emptied session open (socks.c 751; socks.h 77 says "Cierra la sesión una vez que o2c quedó vacío") |
| `ImplementsTunnel`, `session_safety` | a session that expires while its origin connects is refused, keeps the origin, and sends it what the client had pipelined (socks.c 1233) |
| `EventIsOwners`, `selector_dispatch` | an event of a closed connection is delivered to the one that took its descriptor in the same batch (selector.c 494) |
| `NoCrash`, `selector_dispatch` | a resolver's job finds an origin, or a session that resolves nothing (selector.c 549) |
| `NoOverrun`, `selector_dispatch` | a descriptor equal to the capacity is stored one past the table (selector.c 363) |
| `InSync` without `AnswersFit`, `monitor_commands` with MaxRespLines 2 | the terminator of a listing that fills the array is read as the answer of the next command (protocol.c 90) |
| `CommandReturns` without `AnswersFit`, `monitor_commands` with ListLines 3 | a listing that fills wb loses its terminator and the client program waits for ever (monitor_commands.c 37) |
| `DnsThreadHasSession`, `session_stale_job` | the resolver writes into a session that is gone (socks.c 452) |
| `HandlerHasSession`, `session_safety` | a handler goes on with a session its flush closed (socks.c 417) |
| `ReplyProtocol`, `session_safety` | a session that expires in DONE is answered twice (socks.c 1233) |
| `FailureIsLogged`, `session_safety` | a failed connection is never logged as FAILED (store.c 711) |
| `EveryReplyTerminated`, `monitor_commands` | a full write buffer drops a reply's terminator (monitor_commands.c 37) |
| `RefusedIsTooLong`, `monitor_commands` | a line of exactly the limit is refused (monitor_commands.c 693) |

`Users!UsernamesUnique` fails in `handshake` too: two names that are `Stored` alike, of
which one is longer than the field, are both added (store.c 305). `session_liveness` has no timeouts because with
them `ReplyProtocol` and `ImplementsTunnel` are in the table above, and one address
because with two the session of the table's first row is stuck and deadlocks the model.

## Fairness

Safety is checked without fairness. `SocksSession!FairSpec` assumes weak fairness
of the selector's own code (a handler that started goes on; queued jobs are
taken), of the resolver (`getaddrinfo` has a timeout of its own), of the outcome
of a pending `connect`, and of writing to a peer: epoll is level-triggered and a
descriptor that stays ready and wanted is served in every turn of the loop, and
the peers are assumed to read, so that a write moves at least a byte. Nobody is
obliged to send or to close. `MonitorClient!FairToolSpec` assumes the same of the two
handlers of a monitor session, and that the client program, blocked in a read, takes
a line that has arrived; its user is obliged to nothing. `Server!Fairness` is weak
fairness of the loop, as `selector_select` returns after a batch or after a second,
and strong fairness of each session's close: every peer ends its connection some
time and the server then closes its side, the assumption without which shutdown waits, as
with `timeout` 0 it does. It is an assumption about the handlers as much as about the
peers: a session that a failed retry has left open (the first row of the table above)
does not meet it, and `ShutdownEnds` says nothing of such a session. A client that stops reading keeps its session open; the program
relies on its timeout for that.

## Proofs

TLAPS checks these for every value of the constants that the named assumptions
(`CapAssumption`, `SessionAssumption`, `SelectorAssumption`, `TableAssumption`,
`UsersAssumption`, `HandshakeAssumption`, `IdleAssumption`, `AclAssumption`,
`MonitorAssumption`, `ClientAssumption`) admit. They say that sizes are numbers, that
null values are no members, and what the code sees to itself: a buffer holds every
reply a session may have pending, an IPv4 address is no longer than an IPv6 one. A
theorem that needs more says so in its statement.

What a loop or a recursive function computes is proved without the library's induction
theorems: `LeastExists` (from `WFMin`) gives the least number at which a statement would
fail, and the step before it refutes that.

- **SocksSession_proofs.** The inductive invariant is `Sound(s)` with `At(s, pc)`. A
  handler chains functions from one session to the next, so `Sound` is about any
  session `t`, and each function has a lemma that keeps it. It says where the bytes
  of each stream are (sent, in the buffer, still to come: `Up`, `Down`), that replies
  precede the origin's bytes (`DataLast`), that the replies pending in each state fit
  the buffer (`Room`), and how state, slot, counters, log entry and answers belong
  together (`Mode`, `Slot`, `Counted`, `Logged`, `Answered`). `At` says what the
  handler has established when the loop may interrupt it: interests in line with the
  buffers (`Synced`, `Armed`) only when it returns. The bound on pending replies is
  what makes `DownstreamExact` inductive: a reply that did not fit would be lost. From it
  follow exact streams, accounting, release, the log and both interests for every size.
  `SessionImplementsTunnel` is the refinement of `Tunnel`, for sessions that do not
  expire. What the abstract state depends on is the `Face` of a session, which most
  functions leave alone (`SameFace`). In RELAY a handler's effect is `Goes`: both
  streams grow by their next bytes, or the session ends with both where they were;
  before RELAY it is `Listens`: the parser takes a byte or none. `UpIsStream` and
  `DownIsStream` turn the positions that `Sound` keeps into the two streams.
  `FlushedCloses` is about any number of addresses, with timeouts: its property
  `OthersClose` says that a session stays open behind its last reply only in the two
  ways of `MayBeForgotten`, a retry of a name and an expiry, in which the origin's
  handlers empty o2c and do not look at `close_after_flush`; `FlushedSessionCloses`, of
  every session, is false (see the table of findings). `RepliesInOrder` assumes no
  timeouts, without which it is false too. `DoneStaysDone` is an action
  property.
- **Selector_proofs.** The invariant is `Agree`, a relation between the table, the
  epoll set, the open descriptors and the sessions that holds of every world a
  handler's calls pass on; with it `Keyed` (the data read before the first handler of
  an event is still the owner's, or its item is free), `Batched` and `Posted`. From it
  `OwnersAgree` and `HandlersGetOwner`. `NoWakeupIsLost` adds where each thread is
  between queueing its job and writing the eventfd. `TableInBounds` holds for
  every initial size and every number of descriptors: a descriptor larger than the size
  makes the table grow beyond it (`GrowFits`, from the powers of two of `next_capacity`),
  a smaller one fits, and the one that equals it is the step to `overrun`. That this
  step is never taken, `NoOverrun`, is false, as the table of findings shows.
- **SessionTable_proofs.** The inductive invariant is `Inv`: the type invariant
  with `SlotInv`, which conjoins the slot invariants of `SessionTable` and
  `HeldCounted`, that the concurrent-connections counter counts the identifiers
  that sessions hold. The strengthening is needed because admission and the
  lower bound on a new cap test the counter and never count slots. One lemma per
  kind of write (`UpdateKeepsSlots`, `ReleaseKeepsSlots`, `BeginKeepsSlots`,
  `ConfigKeepsSlots`, `AppendKeepsRing`, `UpdateKeepsRing`) carries the step
  proof. `TableImplementsLimit` is the refinement of `ConnectionLimit`.
  `LogAlwaysFollows` needs `LogInv`: identifiers in the ring and in the sessions are
  distinct and were given out (`RingIds`, `SessionIds`), and an entry reads CONNECTED
  with its session's bytes exactly while that runs (`Entries`). A session whose entry
  was overwritten keeps an identifier that no entry has. `FinishedAlwaysStay` is the
  action property on top of it.
- **Handshake_proofs.** First the user table. `AdminAlwaysRemains` follows from the type
  invariant: `store_user_delete` counts administrators over the whole table before it
  clears a slot. `NamesStayUnique` and `CredentialsAlwaysTakeEffect` are about names and
  passwords of any length. What a name too long for its field does not get is an account
  of its own (`UsernamesUnique` is false); the theorems say that a name that is no cut of
  another keeps its one account and its one password all the same, and that the cut
  password is accepted with the cut name. Then the handshakes.
  `ServesAccounts`: no step of a handshake changes the user table, so
  `AdminRemains` holds while clients authenticate (`AdminRemainsInHandshake`).
  `ParsersStayInBounds`: no byte a client sends is stored outside the array of its
  field, and no counter of bytes left is taken below 0; the invariant `ParserInv` says
  of the parser in use that, inside a field, it has between one and the announced
  number of bytes left. `GrammarFollowed` and `DestinationIsExact` need `HeardInv`: what
  each parser knows after a byte (its state, its counters, the contents of its arrays)
  is what the message so far says, by the predicates `GreetingKnows`, `AuthKnows` and
  `RequestKnows`. One lemma per parser and state shows that a byte keeps it so.
- **Server_proofs.** First the idle list. `WellLinked` is not inductive: two links that
  agree locally do not say that every listed session can be reached from the head. The
  inductive invariant `Inv` says that some enumeration `q` of the listed sessions
  is spelled out by the five link variables (`Spells`) and is in order of
  activity (`Sorted`), and that no activity is later than the clock.
  `RemoveSpells` and `LinkSpells` show that the two changes of the links take a
  session out of `q` and put it last; `PushEnumerated` and `RemoveEnumerated` add
  the order. From `Inv` follow `LinksAlwaysSound`, `OrderKept` and, as the head
  has been idle longest, `ExpiryMissesNobody`. Then the process. `ServesIdleList`:
  every step of it is a step of `IdleList` or leaves it alone, so `ListSoundInServer`
  has `WellLinked`, `Ordered` and `ExpiryComplete` of the whole process.
  `NobodyLeftBehind` is `DestroyFindsNobody`. By itself it is not inductive, as main
  looks at two counters and never at the sessions. The invariant `CountInv` adds that
  each counter is the number of its sessions, and that main leaves the loop on empty
  servers.
- **Acl_proofs.** `ListsAreSets` is the refinement of `DenySet`. The invariant says that
  the links of each list, from first to last, spell out an enumeration of its
  rules (`ListOf`), that no rule is in both lists (`Apart`) and that the keys of a list
  are distinct (`Keyed`). `WalkIs` shows that the walk through the links visits exactly
  the enumerated rules; `AddList` and `RemoveList` are what a command does to the
  enumeration, at the head, in the middle and at the tail.
- **MonitorClient_proofs.** `RepliesAreExact`, on what found room in `wb`, and
  `NoReplyIsLost` hold with any program at the other end. The invariant `Says` states that what was sent and
  what is buffered is what was said, and that the buffer is compacted: a reply is
  then put in whole or not at all. `AnswerEffect` says that an answer given to an
  empty buffer that has room is whole, with its terminator. `AlwaysInSync` is about
  the client program. Its invariant `Talk` follows the dialogue: while a call
  waits, either the server holds the first units of the command and the rest is on
  its way (`Asking`), or it has answered and k lines and the terminator are left
  to read (`Answering`); otherwise nothing is owed (`Idle`). `CommandFed` shows that a
  command is answered once however it is cut into reads. The theorem assumes
  that a line has room for a command's text (`LineMax >= 3`, MONITOR_LINE_MAX in the
  program); `InSync` itself speaks of answers that fit. `CommandsAreExact` and
  `HalfCloseIsServed` are about any program again. Their invariant `Work` relates the
  commands that ran, the partial line and the state of the session to the places of
  the input read so far (`Reading`; `EndRead` once the client has closed its side),
  and says of a session that stopped reading what made it stop (`Ended`).
- **BufferMemory_proofs.** `TypeCorrect`: read and write pointers stay ordered and
  within memory. From it, `MemoryAgrees`: each step of the code is the
  corresponding operator of `Buffer` on `b`. The lemmas say what each call does
  to the sequence between the pointers: `FillAppends`, `DrainRemoves`,
  `CompactKeeps` (with overlapping memory), `ResetEmpties`. `RoomAlwaysAgrees`
  says that both views leave the same room. `SocksSession` and `MonitorSession`
  therefore reason with queues.

The type invariants of `BufferMemory`, `SessionTable`, `Users`, `IdleList` and
`SocksSession`, `SlotsCoverCap`, `CapRespected`, `CountMatchesTable`, `OwnNamesUnique`,
`RoomAgrees`, `WritesInBounds` and `OthersClose` are proved and in no run.

Only model-checked are the liveness properties, which are out of the prover's reach:
`ResolvingEnds`, `UploadDelivered`, `PendingDelivered` and `CloseCompletes` of
`SocksSession`, `ShutdownEnds` of `Server`, `SessionCloses` and `CommandReturns` of the
monitor. Several of them rest on what is proved: no wake-up is lost, interests follow
the buffers, every counter is the number of its sessions.

## Not modelled

The parsing of the monitor's arguments; the wrap of 32-bit identifiers; memory
exhaustion, but for the job of `selector_notify_block`; SIGPIPE; the address of the
selector's table, which moves when it grows; failures before the main loop starts;
an error of `epoll_wait` other than a signal, which ends the loop with sessions
alive; the terminal of the client program and its reads after the server died.

The stress tools generate load and the echo server is an exercise that the proxy
does not call; the generic parser of `shared/parser.c` is used by neither server;
the network and flag helpers keep no state.

## Plan

Done: the components above with their runs; the proofs of all safety and action
properties of the passing runs; the refinements of `Buffer`, `ConnectionLimit`,
`DenySet` and `Tunnel`, proved as well as checked.

What a change of the program would call for first: when expiry closes the
origin and passes over a session already answered, `SessionImplementsTunnel` and
`RepliesInOrder` need no assumption on timeouts; when the job of a
resolver names its session, `session_stale_job` becomes a passing run. The monitor's
arguments, whose parsing is left out, would be a module of its own beside
`MonitorSession`.
