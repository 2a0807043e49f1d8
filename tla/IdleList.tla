------------------------------ MODULE IdleList ------------------------------
(***************************************************************************)
(* The idle list of the SOCKS server (src/server/socks/socks.c): a doubly  *)
(* linked list of the sessions, threaded through them, that the expiry     *)
(* loop reads from the head.  The loop stops at the first session that is  *)
(* not due, so it is right only while the list is in order of activity.    *)
(*                                                                         *)
(* The clock is time(NULL) and is assumed not to be set back.              *)
(***************************************************************************)
EXTENDS Integers, FiniteSets

CONSTANTS
    Sessions,     \* addresses of struct socks_session
    NULL,
    MaxTimeout,   \* bound: largest CONFIG timeout
    MaxTime       \* bound: last second of the run

ASSUME IdleAssumption ==
    /\ NULL \notin Sessions
    /\ MaxTimeout \in Nat
    /\ MaxTime \in Nat

VARIABLES
    idle_head, idle_tail,
    idle_prev, idle_next,   \* links of each session
    in_idle_list,
    last_activity,
    live,         \* sessions that exist
    expired,      \* live sessions with ttl_expired set
    clock,
    timeout,      \* CONFIG timeout; 0 is "never"
    loop          \* NULL, or the time the running expiry loop read

links == <<idle_head, idle_tail, idle_prev, idle_next, in_idle_list>>
vars == <<links, last_activity, live, expired, clock, timeout, loop>>

Init ==
    /\ idle_head = NULL
    /\ idle_tail = NULL
    /\ idle_prev = [x \in Sessions |-> NULL]
    /\ idle_next = [x \in Sessions |-> NULL]
    /\ in_idle_list = [x \in Sessions |-> FALSE]
    /\ last_activity = [x \in Sessions |-> 0]
    /\ live = {}
    /\ expired = {}
    /\ clock = 0
    /\ timeout \in 0..MaxTimeout
    /\ loop = NULL

-----------------------------------------------------------------------------
(***************************************************************************)
(* The list                                                                *)
(***************************************************************************)
\* A list is a record of the five link variables; the calls are functions on
\* it, so that a handler can make two in one step.
List == [head |-> idle_head, tail |-> idle_tail, prev |-> idle_prev,
         next |-> idle_next, in |-> in_idle_list]

\* Mutant (WellLinked): the session behind the removed one keeps pointing at it.
idle_list_remove_StalePrev(l, x) ==
    IF ~l.in[x] THEN l
    ELSE LET p == l.prev[x]
             n == l.next[x]
         IN  [head |-> IF p = NULL THEN n ELSE l.head,
              tail |-> IF n = NULL THEN p ELSE l.tail,
              next |-> [y \in Sessions |-> IF y = x THEN NULL
                                           ELSE IF y = p THEN n ELSE l.next[y]],
              prev |-> [l.prev EXCEPT ![x] = NULL],
              in |-> [l.in EXCEPT ![x] = FALSE]]

\* p = NULL stands for the list's own pointer.
idle_list_remove(l, x) ==
    IF ~l.in[x] THEN l
    ELSE LET p == l.prev[x]
             n == l.next[x]
         IN  [head |-> IF p = NULL THEN n ELSE l.head,
              tail |-> IF n = NULL THEN p ELSE l.tail,
              next |-> [y \in Sessions |-> IF y = x THEN NULL
                                           ELSE IF y = p THEN n ELSE l.next[y]],
              prev |-> [y \in Sessions |-> IF y = x THEN NULL
                                           ELSE IF y = n THEN p ELSE l.prev[y]],
              in |-> [l.in EXCEPT ![x] = FALSE]]

Linked(l, x) ==
    [head |-> IF l.tail = NULL THEN x ELSE l.head,
     tail |-> x,
     next |-> [y \in Sessions |-> IF y = x THEN NULL
                                  ELSE IF y = l.tail THEN x ELSE l.next[y]],
     prev |-> [l.prev EXCEPT ![x] = l.tail],
     in |-> [l.in EXCEPT ![x] = TRUE]]

idle_list_push_tail(l, x) ==
    IF l.in[x] /\ x = l.tail THEN l
    ELSE Linked(idle_list_remove(l, x), x)

SetList(l) ==
    /\ idle_head' = l.head
    /\ idle_tail' = l.tail
    /\ idle_prev' = l.prev
    /\ idle_next' = l.next
    /\ in_idle_list' = l.in

-----------------------------------------------------------------------------
(***************************************************************************)
(* The callers                                                             *)
(***************************************************************************)
\* passive_read: the session is allocated, initialised and listed.
Accept(x) ==
    /\ loop = NULL
    /\ x \notin live
    /\ live' = live \cup {x}
    /\ last_activity' = [last_activity EXCEPT ![x] = clock]
    /\ SetList(idle_list_push_tail(List, x))
    /\ UNCHANGED <<expired, clock, timeout, loop>>

\* Mutant (Ordered): the session keeps its place.
socks_session_touch_NoMove(x) ==
    /\ loop = NULL
    /\ x \in live
    /\ last_activity' = [last_activity EXCEPT ![x] = clock]
    /\ UNCHANGED <<links, live, expired, clock, timeout, loop>>

\* Bytes moved: client_read, flush_client, flush_origin, origin_read.  An
\* expired session is touched too, and not listed again.
socks_session_touch(x) ==
    /\ loop = NULL
    /\ x \in live
    /\ last_activity' = [last_activity EXCEPT ![x] = clock]
    /\ IF in_idle_list[x] THEN SetList(idle_list_push_tail(List, x))
                          ELSE UNCHANGED links
    /\ UNCHANGED <<live, expired, clock, timeout, loop>>

socks_client_close(x) ==
    /\ loop = NULL
    /\ x \in live
    /\ SetList(idle_list_remove(List, x))
    /\ live' = live \ {x}
    /\ expired' = expired \ {x}
    /\ UNCHANGED <<last_activity, clock, timeout, loop>>

\* expire_idle reads the clock once.
ExpireStart ==
    /\ loop = NULL
    /\ timeout > 0
    /\ loop' = clock
    /\ UNCHANGED <<links, last_activity, live, expired, clock, timeout>>

Due(x) == loop - last_activity[x] >= timeout

\* The head is due: it leaves the list, and is closed, or (reply 0x06 not
\* sent yet) goes on as an expired session; a partial write touches it.
ExpireHead ==
    /\ loop # NULL
    /\ idle_head # NULL
    /\ Due(idle_head)
    /\ SetList(idle_list_remove(List, idle_head))
    /\ \/ live' = live \ {idle_head} /\ UNCHANGED <<expired, last_activity>>
       \/ /\ expired' = expired \cup {idle_head}
          /\ last_activity' \in {last_activity,
                                 [last_activity EXCEPT ![idle_head] = clock]}
          /\ UNCHANGED live
    /\ UNCHANGED <<clock, timeout, loop>>

\* Mutant (ExpiryComplete): one session per call.
ExpireStop_Early ==
    /\ loop # NULL
    /\ loop' = NULL
    /\ UNCHANGED <<links, last_activity, live, expired, clock, timeout>>

ExpireStop ==
    /\ loop # NULL
    /\ idle_head # NULL => ~Due(idle_head)
    /\ loop' = NULL
    /\ UNCHANGED <<links, last_activity, live, expired, clock, timeout>>

socks_server_expire_idle == ExpireStart \/ ExpireHead \/ ExpireStop

\* CONFIG timeout on the monitor port.
SetTimeout ==
    /\ loop = NULL
    /\ timeout' \in 0..MaxTimeout
    /\ UNCHANGED <<links, last_activity, live, expired, clock, loop>>

Tick ==
    /\ clock < MaxTime
    /\ clock' = clock + 1
    /\ UNCHANGED <<links, last_activity, live, expired, timeout, loop>>

Next ==
    \/ \E x \in Sessions :
          Accept(x) \/ socks_session_touch(x) \/ socks_client_close(x)
    \/ socks_server_expire_idle
    \/ SetTimeout
    \/ Tick

Spec == Init /\ [][Next]_vars

-----------------------------------------------------------------------------
Listed == {x \in Sessions : in_idle_list[x]}

\* Links, flags and times are of their types, and only a live session is
\* marked as expired.
TypeOK ==
    /\ idle_head \in Sessions \cup {NULL}
    /\ idle_tail \in Sessions \cup {NULL}
    /\ idle_prev \in [Sessions -> Sessions \cup {NULL}]
    /\ idle_next \in [Sessions -> Sessions \cup {NULL}]
    /\ in_idle_list \in [Sessions -> BOOLEAN]
    /\ last_activity \in [Sessions -> 0..MaxTime]
    /\ expired \subseteq live
    /\ live \subseteq Sessions
    /\ clock \in 0..MaxTime
    /\ timeout \in 0..MaxTimeout
    /\ loop \in (0..MaxTime) \cup {NULL}

\* The links agree with each other, with the ends and with in_idle_list, and
\* reach no freed session: exactly the live sessions that have not expired
\* are listed.
WellLinked ==
    /\ Listed = live \ expired
    /\ idle_head = NULL <=> Listed = {}
    /\ idle_tail = NULL <=> Listed = {}
    /\ Listed # {} => idle_head \in Listed /\ idle_tail \in Listed
    /\ \A x \in Listed :
          /\ idle_prev[x] = NULL <=> x = idle_head
          /\ idle_next[x] = NULL <=> x = idle_tail
          /\ idle_next[x] # NULL =>
                idle_next[x] \in Listed /\ idle_prev[idle_next[x]] = x
          /\ idle_prev[x] # NULL =>
                idle_prev[x] \in Listed /\ idle_next[idle_prev[x]] = x
    /\ \A x \in Sessions \ Listed : idle_prev[x] = NULL /\ idle_next[x] = NULL

\* "head = mas viejo, tail = mas reciente": following the links from the head,
\* activity never goes back, so the head is the longest idle of all.
Ordered ==
    /\ \A x \in Listed : idle_next[x] # NULL =>
          last_activity[x] <= last_activity[idle_next[x]]
    /\ \A x \in Listed : last_activity[idle_head] <= last_activity[x]

\* When the expiry loop stops, no session that was due at the time it read is
\* left in the list, although it looked at nothing behind the first that was
\* not.
ExpiryComplete ==
    [][ExpireStop => \A x \in Listed : ~Due(x)]_vars
=============================================================================
