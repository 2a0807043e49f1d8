-------------------------- MODULE Selector_proofs --------------------------
(***************************************************************************)
(* The selector never hands a handler a session that is gone, keeps its    *)
(* table, the epoll set and the open descriptors in agreement, and never   *)
(* sleeps on a queued job, for every number of descriptors, sessions and   *)
(* resolver threads and every size of a batch.                             *)
(*                                                                         *)
(* The invariant speaks of the table as the calls of a handler leave it,   *)
(* one after the other: Agree relates its four parts, and Fits bounds what *)
(* it uses by its size, until a store has gone past its end.               *)
(***************************************************************************)
EXTENDS Selector, NaturalsInduction, WellFoundedInduction, TLAPS

Ops == {"read", "write"}

Item == [handler : {None, "passive", "client", "origin"}, interest : SUBSET Ops,
         data : Sessions \cup {None}]

State == {"handshake", "resolving", "connecting", "relay", "done"}

Fields == [client : Fds, origin : Fds \cup {None}, state : State,
           dns_resolving : BOOLEAN]

Used(it) == {fd \in Fds : it[fd].handler # None}

\* An item that is not in use is clear; one that is says whose it is.
Owned(it, se) ==
    \A fd \in Fds :
        /\ it[fd].handler = None => it[fd] = Unused
        /\ it[fd].handler = "passive" => fd = Listen /\ it[fd].data = None
        /\ it[fd].handler = "client" =>
              it[fd].data \in DOMAIN se /\ se[it[fd].data].client = fd
        /\ it[fd].handler = "origin" =>
              it[fd].data \in DOMAIN se /\ se[it[fd].data].origin = fd

\* A session knows its items; it has no origin before it connects.
Owns(it, se) ==
    \A x \in DOMAIN se :
        /\ it[se[x].client].handler = "client" /\ it[se[x].client].data = x
        /\ se[x].origin # None =>
              it[se[x].origin].handler = "origin" /\ it[se[x].origin].data = x
        /\ se[x].state \in {"handshake", "resolving"} => se[x].origin = None

Memory(se) ==
    /\ DOMAIN se \subseteq Sessions
    /\ se = [x \in DOMAIN se |-> se[x]]
    /\ \A x \in DOMAIN se : se[x] \in Fields

Agree(it, ep, op, se) ==
    /\ it \in [Fds -> Item]
    /\ op = Used(it)
    /\ ep = [fd \in Used(it) |-> it[fd].interest]
    /\ Memory(se) /\ Owned(it, se) /\ Owns(it, se)

\* What is in use is inside a table that nothing was stored behind.
Fits(it, size, over) == size \in Nat /\ (~over => \A fd \in Used(it) : fd < size)

Table == Agree(items, epoll, open, session) /\ Fits(items, fd_size, loop = "overrun")

\* A world, as the calls of a handler pass it on.
Good(w) ==
    /\ w = [items |-> w.items, size |-> w.size, epoll |-> w.epoll,
            open |-> w.open, session |-> w.session, overrun |-> w.overrun]
    /\ Agree(w.items, w.epoll, w.open, w.session)
    /\ Fits(w.items, w.size, w.overrun)

\* Between two calls of one event no descriptor changes hands.
Keyed ==
    key # None =>
        /\ loop \in {"dispatch", "overrun"}
        /\ key.fd \in Fds /\ key.todo \in SUBSET Ops
        /\ items[key.fd].handler # None => key.data = items[key.fd].data
        /\ key = [fd |-> key.fd, data |-> key.data, todo |-> key.todo,
                  owner |-> key.owner]

\* The records of a batch: descriptors of the table, or the eventfd.
Batched ==
    \A e \in batch : e.fd \in Fds \cup {EventFd} /\ e.events \in SUBSET Ops

Posted ==
    /\ resolution_jobs \in Seq(Fds)
    /\ thread \in [Threads -> [pc : {"idle", "resolving", "notify", "signal"},
                               fd : Fds \cup {None}, data : Sessions \cup {None},
                               own : Fds \cup {None}]]
    /\ \A t \in Threads : thread[t].pc # "idle" => thread[t].fd \in Fds

Inv ==
    /\ Table
    /\ Keyed /\ Batched /\ Posted
    /\ loop \in {"wait", "dispatch", "block", "crashed", "overrun"}

-----------------------------------------------------------------------------
(***************************************************************************)
(* How far the table grows                                                 *)
(***************************************************************************)
\* A set of numbers that has a member has a least one.
LEMMA LeastExists ==
    ASSUME NEW T, T \subseteq Nat, T # {}
    PROVE  \E x \in T : \A y \in T : x <= y
<1> DEFINE R == OpToRel(<, Nat)
<1>1. IsWellFoundedOn(R, Nat) BY NatLessThanWellFounded
<1>2. \A x, y \in Nat : x < y => <<x, y>> \in R BY DEF OpToRel
<1> HIDE DEF R
<1>3. PICK x \in T : \A y \in T : ~(<<y, x>> \in R) BY <1>1, WFMin
<1>4. ASSUME NEW y \in T PROVE x <= y
  <2>1. x \in Nat /\ y \in Nat OBVIOUS
  <2>2. ~(y < x) BY <2>1, <1>2, <1>3
  <2> QED BY <2>1, <2>2
<1> QED BY <1>4

\* f doubles n times.
Doubles(f, n) == f = [k \in 0..n |-> IF k = 0 THEN 1 ELSE 2 * f[k - 1]]

\* There is such a function.
LEMMA DoublesExists ==
    ASSUME NEW n \in Nat PROVE \E f : Doubles(f, n)
<1> DEFINE T == {m \in Nat : ~\E f : Doubles(f, m)}
<1> SUFFICES ASSUME T # {} PROVE FALSE OBVIOUS
<1>1. PICK m \in T : \A y \in T : m <= y BY LeastExists
<1>2. CASE m = 0
  <2> DEFINE f == [k \in 0..0 |-> 1]
  <2>1. f = [k \in 0..0 |-> IF k = 0 THEN 1 ELSE 2 * f[k - 1]] OBVIOUS
  <2> HIDE DEF f
  <2> QED BY <1>2, <2>1 DEF Doubles
<1>3. CASE m # 0
  <2>1. m - 1 \in Nat /\ ~(m <= m - 1) BY <1>3
  <2>2. m - 1 \notin T BY <1>1, <2>1
  <2>3. PICK f : Doubles(f, m - 1) BY <2>1, <2>2
  <2> DEFINE g == [k \in 0..m |-> IF k = m THEN 2 * f[m - 1] ELSE f[k]]
             h == [k \in 0..m |-> IF k = 0 THEN 1 ELSE 2 * g[k - 1]]
  <2>4. \A k \in 0..(m - 1) : f[k] = IF k = 0 THEN 1 ELSE 2 * f[k - 1]
    BY <2>3 DEF Doubles
  <2>5. ASSUME NEW k \in 0..m PROVE g[k] = h[k]
    <3>1. CASE k = m
      <4>1. k # 0 /\ m - 1 \in 0..m /\ m - 1 # m BY <1>3, <3>1, <2>1
      <4>2. g[m - 1] = f[m - 1] BY <4>1
      <4> QED BY <3>1, <4>1, <4>2
    <3>2. CASE k # m
      <4>1. k \in 0..(m - 1) /\ (k # 0 => k - 1 \in 0..m /\ k - 1 # m) BY <3>2
      <4>2. g[k] = f[k] /\ (k # 0 => g[k - 1] = f[k - 1]) BY <3>2, <4>1
      <4> QED BY <2>4, <4>1, <4>2
    <3> QED BY <3>1, <3>2
  <2>6. g = h
    <3>1. g = [k \in 0..m |-> g[k]] /\ h = [k \in 0..m |-> h[k]] OBVIOUS
    <3> HIDE DEF g, h
    <3> QED BY <2>5, <3>1
  <2>7. Doubles(g, m)
    <3> HIDE DEF g
    <3> QED BY <2>6 DEF Doubles
  <2> QED BY <2>7
<1> QED BY <1>2, <1>3

\* It outgrows its argument.
LEMMA DoublesAbove ==
    ASSUME NEW n \in Nat, NEW f, Doubles(f, n), NEW k \in 0..n
    PROVE  f[k] \in Nat /\ f[k] > k
<1> DEFINE T == {m \in 0..n : ~(f[m] \in Nat /\ f[m] > m)}
<1>0. \A m \in 0..n : f[m] = IF m = 0 THEN 1 ELSE 2 * f[m - 1] BY DEF Doubles
<1> SUFFICES ASSUME T # {} PROVE FALSE OBVIOUS
<1>4. T \subseteq Nat OBVIOUS
<1>1. PICK m \in T : \A y \in T : m <= y BY <1>4, LeastExists, Zenon
<1>2. CASE m = 0 BY <1>0, <1>1, <1>2
<1>3. CASE m # 0
  <2>1. m - 1 \in 0..n /\ ~(m <= m - 1) BY <1>3
  <2>2. f[m - 1] \in Nat /\ f[m - 1] > m - 1 BY <1>1, <2>1
  <2>3. f[m] = 2 * f[m - 1] BY <1>0, <1>3
  <2> HIDE DEF T
  <2>4. m \in Nat /\ f[m] \in Nat /\ f[m] > m
    <3>1. m \in Nat BY DEF T
    <3> QED BY <3>1, <1>3, <2>2, <2>3
  <2> QED BY <2>4 DEF T
<1> QED BY <1>2, <1>3

\* The capacity that is made for a descriptor has room for it.
LEMMA CapacityAbove ==
    ASSUME NEW n \in Nat, n <= ItemsMax
    PROVE  next_capacity(n) \in Nat /\ next_capacity(n) > n
<1> DEFINE p == CHOOSE f : f = [k \in 0..n |-> IF k = 0 THEN 1 ELSE 2 * f[k - 1]]
           Bits(k) == p[k] > n /\ \A j \in 0..(k - 1) : p[j] <= n
           b == CHOOSE k \in 0..n : Bits(k)
<1>1. next_capacity(n) = (IF p[b] > ItemsMax THEN ItemsMax ELSE p[b]) + 1
  BY DEF next_capacity
<1>2. Doubles(p, n)
  <2>1. \E f : f = [k \in 0..n |-> IF k = 0 THEN 1 ELSE 2 * f[k - 1]]
    BY DoublesExists DEF Doubles
  <2>2. p = [k \in 0..n |-> IF k = 0 THEN 1 ELSE 2 * p[k - 1]] BY <2>1
  <2> HIDE DEF p
  <2> QED BY <2>2 DEF Doubles
<1> HIDE DEF p
<1>3. \A k \in 0..n : p[k] \in Nat /\ p[k] > k BY <1>2, DoublesAbove
<1>4. \E k \in 0..n : Bits(k)
  <2> DEFINE T == {k \in 0..n : p[k] > n}
  <2>1. n \in T /\ T \subseteq Nat BY <1>3
  <2>2. PICK k \in T : \A y \in T : k <= y BY <2>1, LeastExists, Zenon
  <2>3. ASSUME NEW j \in 0..(k - 1) PROVE p[j] <= n
    <3>1. j \in 0..n /\ ~(k <= j) BY <2>2
    <3>2. j \notin T BY <2>2, <3>1
    <3> QED BY <1>3, <3>1, <3>2
  <2> QED BY <2>2, <2>3
<1>5. b \in 0..n /\ p[b] > n BY <1>4
<1> HIDE DEF b
<1>6. p[b] \in Nat BY <1>3, <1>5
<1> QED BY <1>1, <1>5, <1>6, SelectorAssumption

-----------------------------------------------------------------------------
(***************************************************************************)
(* What one call does to the four parts                                    *)
(***************************************************************************)
\* The handlers' names and None are different, and None is no descriptor.
LEMMA Distinct ==
    /\ None \notin Fds /\ Listen \in Fds /\ EventFd \notin Fds
    /\ None \notin {"passive", "client", "origin"} /\ None \notin Sessions
BY SelectorAssumption DEF Fds, Listen, EventFd

\* A table that fits still does when items are given back.
LEMMA FitsLess ==
    ASSUME NEW it, NEW jt, Used(jt) \subseteq Used(it), NEW size, NEW over,
           Fits(it, size, over)
    PROVE  Fits(jt, size, over)
BY DEF Fits

\* selector_set_interest changes the item and the epoll set alike.
LEMMA InterestAgrees ==
    ASSUME NEW it, NEW ep, NEW op, NEW se, Agree(it, ep, op, se),
           NEW fd \in Fds, it[fd].handler # None, NEW i \in SUBSET Ops
    PROVE  Agree([it EXCEPT ![fd].interest = i], [ep EXCEPT ![fd] = i], op, se)
<1> DEFINE jt == [it EXCEPT ![fd].interest = i]
<1>1. it \in [Fds -> Item] BY DEF Agree
<1>2. /\ jt \in [Fds -> Item]
      /\ \A g \in Fds : jt[g].handler = it[g].handler /\ jt[g].data = it[g].data
      /\ \A g \in Fds : jt[g].interest = IF g = fd THEN i ELSE it[g].interest
      /\ \A g \in Fds : g # fd => jt[g] = it[g]
  BY <1>1 DEF Item
<1> HIDE DEF jt
<1>3. Used(jt) = Used(it) /\ fd \in Used(it) BY <1>2 DEF Used
<1>4. [ep EXCEPT ![fd] = i] = [g \in Used(jt) |-> jt[g].interest]
  BY <1>2, <1>3 DEF Agree, Used
<1>5. Owned(jt, se) BY <1>2 DEF Agree, Owned
<1>6. Owns(jt, se) BY <1>2 DEF Agree, Owns, Memory, Fields
<1>7. Agree(jt, [ep EXCEPT ![fd] = i], op, se) BY <1>2, <1>3, <1>4, <1>5, <1>6 DEF Agree
<1> QED BY <1>7 DEF jt

\* A session may change its state, as long as one that waits for its
\* destination has no origin.
LEMMA StateAgrees ==
    ASSUME NEW it, NEW ep, NEW op, NEW se, Agree(it, ep, op, se),
           NEW x \in DOMAIN se, NEW st \in State,
           st \in {"handshake", "resolving"} => se[x].origin = None
    PROVE  /\ Agree(it, ep, op, [se EXCEPT ![x].state = st])
           /\ x \in DOMAIN [se EXCEPT ![x].state = st]
<1> DEFINE te == [se EXCEPT ![x].state = st]
<1>1. Memory(se) BY DEF Agree
<1>2. /\ DOMAIN te = DOMAIN se /\ Memory(te)
      /\ \A y \in DOMAIN se : te[y].client = se[y].client /\ te[y].origin = se[y].origin
      /\ \A y \in DOMAIN se : te[y].state = IF y = x THEN st ELSE se[y].state
  BY <1>1 DEF Memory, Fields
<1> HIDE DEF te
<1>3. Owned(it, te) BY <1>2 DEF Agree, Owned
<1>4. Owns(it, te) BY <1>2 DEF Agree, Owns
<1>5. Agree(it, ep, op, te) BY <1>2, <1>3, <1>4 DEF Agree
<1> QED BY <1>5, <1>2 DEF te

\* The resolver may write its result at any time.
LEMMA ResolvingAgrees ==
    ASSUME NEW it, NEW ep, NEW op, NEW se, Agree(it, ep, op, se),
           NEW x \in DOMAIN se, NEW b \in BOOLEAN
    PROVE  /\ Agree(it, ep, op, [se EXCEPT ![x].dns_resolving = b])
           /\ x \in DOMAIN [se EXCEPT ![x].dns_resolving = b]
<1> DEFINE te == [se EXCEPT ![x].dns_resolving = b]
<1>1. Memory(se) BY DEF Agree
<1>2. /\ DOMAIN te = DOMAIN se /\ Memory(te)
      /\ \A y \in DOMAIN se : /\ te[y].client = se[y].client
                              /\ te[y].origin = se[y].origin
                              /\ te[y].state = se[y].state
  BY <1>1 DEF Memory, Fields
<1> HIDE DEF te
<1>3. Owned(it, te) BY <1>2 DEF Agree, Owned
<1>4. Owns(it, te) BY <1>2 DEF Agree, Owns
<1>5. Agree(it, ep, op, te) BY <1>2, <1>3, <1>4 DEF Agree
<1> QED BY <1>5, <1>2 DEF te

\* socks_session_destroy_origin closes, clears and forgets the origin.
LEMMA DestroyAgrees ==
    ASSUME NEW it, NEW ep, NEW op, NEW se, Agree(it, ep, op, se),
           NEW x \in DOMAIN se, NEW o, o = se[x].origin, o # None
    PROVE  /\ o \in Fds /\ it[o].handler = "origin"
           /\ Agree([it EXCEPT ![o] = Unused], Restrict(ep, DOMAIN ep \ {o}),
                    op \ {o}, [se EXCEPT ![x].origin = None])
<1> DEFINE jt == [it EXCEPT ![o] = Unused]
           te == [se EXCEPT ![x].origin = None]
<1>1. it \in [Fds -> Item] /\ Memory(se) BY DEF Agree
<1>2. o \in Fds /\ it[o].handler = "origin" /\ it[o].data = x
  BY <1>1 DEF Agree, Owns, Memory, Fields
<1>3. /\ jt \in [Fds -> Item] /\ jt[o] = Unused
      /\ \A g \in Fds : g # o => jt[g] = it[g]
  BY <1>1, <1>2 DEF Item, Unused, Ops
<1>4. /\ DOMAIN te = DOMAIN se /\ Memory(te)
      /\ \A y \in DOMAIN se : te[y].client = se[y].client /\ te[y].state = se[y].state
      /\ \A y \in DOMAIN se : te[y].origin = IF y = x THEN None ELSE se[y].origin
  BY <1>1 DEF Memory, Fields
<1> HIDE DEF jt, te
<1>5. Used(jt) = Used(it) \ {o} BY <1>3, <1>2 DEF Used, Unused
<1>6. Restrict(ep, DOMAIN ep \ {o}) = [g \in Used(jt) |-> jt[g].interest]
  BY <1>3, <1>5 DEF Agree, Used, Restrict
<1>7. Owned(jt, te)
  BY <1>2, <1>3, <1>4, Distinct DEF Agree, Owned, Unused
<1>8. Owns(jt, te)
  BY <1>1, <1>2, <1>3, <1>4, Distinct DEF Agree, Owns, Memory, Fields
<1>9. Agree(jt, Restrict(ep, DOMAIN ep \ {o}), op \ {o}, te)
  BY <1>3, <1>4, <1>5, <1>6, <1>7, <1>8 DEF Agree
<1> QED BY <1>9, <1>2 DEF jt, te

\* Closing the client of a session without an origin frees the session.
LEMMA CloseAgrees ==
    ASSUME NEW it, NEW ep, NEW op, NEW se, Agree(it, ep, op, se),
           NEW x \in DOMAIN se, se[x].origin = None, NEW c, c = se[x].client
    PROVE  /\ c \in Fds /\ it[c].handler = "client"
           /\ Agree([it EXCEPT ![c] = Unused], Restrict(ep, DOMAIN ep \ {c}),
                    op \ {c}, Restrict(se, DOMAIN se \ {x}))
<1> DEFINE jt == [it EXCEPT ![c] = Unused]
           te == Restrict(se, DOMAIN se \ {x})
<1>1. it \in [Fds -> Item] /\ Memory(se) BY DEF Agree
<1>2. c \in Fds /\ it[c].handler = "client" /\ it[c].data = x
  BY <1>1 DEF Agree, Owns, Memory, Fields
<1>3. /\ jt \in [Fds -> Item] /\ jt[c] = Unused
      /\ \A g \in Fds : g # c => jt[g] = it[g]
  BY <1>1, <1>2 DEF Item, Unused, Ops
<1>4. /\ DOMAIN te = DOMAIN se \ {x} /\ Memory(te)
      /\ \A y \in DOMAIN se \ {x} : te[y] = se[y]
  BY <1>1 DEF Memory, Restrict
<1> HIDE DEF jt, te
<1>5. Used(jt) = Used(it) \ {c} BY <1>3, <1>2 DEF Used, Unused
<1>6. Restrict(ep, DOMAIN ep \ {c}) = [g \in Used(jt) |-> jt[g].interest]
  BY <1>3, <1>5 DEF Agree, Used, Restrict
<1>7. Owned(jt, te)
  BY <1>2, <1>3, <1>4, Distinct DEF Agree, Owned, Unused
<1>8. Owns(jt, te)
  BY <1>1, <1>2, <1>3, <1>4, Distinct DEF Agree, Owns, Memory, Fields
<1>9. Agree(jt, Restrict(ep, DOMAIN ep \ {c}), op \ {c}, te)
  BY <1>3, <1>4, <1>5, <1>6, <1>7, <1>8 DEF Agree
<1> QED BY <1>9, <1>2 DEF jt, te

\* The item of a new descriptor, and a session once it has an origin.
NewItem(handler, interest, data) ==
    [handler |-> handler, interest |-> interest, data |-> data]

Joined(se, x, fd) == [se EXCEPT ![x].origin = fd, ![x].state = "connecting"]

\* A new origin takes a descriptor that no item uses.
LEMMA ConnectAgrees ==
    ASSUME NEW it, NEW ep, NEW op, NEW se, Agree(it, ep, op, se),
           NEW x \in DOMAIN se, se[x].origin = None,
           NEW fd \in Fds, it[fd].handler = None
    PROVE  /\ x \in DOMAIN Joined(se, x, fd)
           /\ Agree([it EXCEPT ![fd] = NewItem("origin", {"write"}, x)],
                    Update(ep, fd, {"write"}), op \cup {fd}, Joined(se, x, fd))
<1> DEFINE new == NewItem("origin", {"write"}, x)
           jt == [it EXCEPT ![fd] = new]
           te == Joined(se, x, fd)
<1>1. it \in [Fds -> Item] /\ Memory(se) BY DEF Agree
<1>2. /\ jt \in [Fds -> Item] /\ jt[fd] = new
      /\ \A g \in Fds : g # fd => jt[g] = it[g]
  BY <1>1 DEF Item, Ops, Memory, NewItem
<1>3. new.handler = "origin" /\ new.interest = {"write"} /\ new.data = x BY DEF NewItem
<1>4. /\ DOMAIN te = DOMAIN se /\ Memory(te)
      /\ \A y \in DOMAIN se : te[y].client = se[y].client
      /\ \A y \in DOMAIN se : y # x => te[y] = se[y]
      /\ te[x].origin = fd /\ te[x].state = "connecting"
  BY <1>1, ZenonT(60) DEF Memory, Fields, State, Joined
<1> HIDE DEF jt, new, te
<1>5. Used(jt) = Used(it) \cup {fd} BY <1>2, <1>3, Distinct DEF Used
<1>6. Update(ep, fd, {"write"}) = [g \in Used(jt) |-> jt[g].interest]
  BY <1>2, <1>3, <1>5 DEF Agree, Used, Update
<1>7. Owned(jt, te)
  BY <1>2, <1>3, <1>4, Distinct DEF Agree, Owned
<1>8. Owns(jt, te)
  BY <1>1, <1>2, <1>3, <1>4, Distinct DEF Agree, Owns, Memory, Fields
<1>9. Agree(jt, Update(ep, fd, {"write"}), op \cup {fd}, te)
  BY <1>2, <1>4, <1>5, <1>6, <1>7, <1>8 DEF Agree
<1> QED BY <1>9, <1>4 DEF jt, new, te

\* What accept() makes: a session that has only its client.
Accepted(fd) ==
    [client |-> fd, origin |-> None, state |-> "handshake", dns_resolving |-> FALSE]

\* So does a new client, with a session that was not there.
LEMMA AcceptAgrees ==
    ASSUME NEW it, NEW ep, NEW op, NEW se, Agree(it, ep, op, se),
           NEW x \in Sessions \ DOMAIN se, NEW fd \in Fds, it[fd].handler = None
    PROVE  Agree([it EXCEPT ![fd] = NewItem("client", {"read"}, x)],
                 Update(ep, fd, {"read"}), op \cup {fd}, Update(se, x, Accepted(fd)))
<1> DEFINE new == NewItem("client", {"read"}, x)
           jt == [it EXCEPT ![fd] = new]
           te == Update(se, x, Accepted(fd))
<1>1. it \in [Fds -> Item] /\ Memory(se) BY DEF Agree
<1>2. /\ jt \in [Fds -> Item] /\ jt[fd] = new
      /\ \A g \in Fds : g # fd => jt[g] = it[g]
  BY <1>1 DEF Item, Ops, Memory, NewItem
<1>3. new.handler = "client" /\ new.interest = {"read"} /\ new.data = x BY DEF NewItem
<1>4. Accepted(fd) \in Fields /\ Accepted(fd).client = fd /\ Accepted(fd).origin = None
  BY DEF Accepted, Fields, State
<1>5. /\ DOMAIN te = DOMAIN se \cup {x} /\ Memory(te)
      /\ \A y \in DOMAIN se : y # x /\ te[y] = se[y]
      /\ te[x] = Accepted(fd)
  BY <1>1, <1>4 DEF Memory, Update
<1> HIDE DEF jt, new, te
<1>6. Used(jt) = Used(it) \cup {fd} BY <1>2, <1>3, Distinct DEF Used
<1>7. Update(ep, fd, {"read"}) = [g \in Used(jt) |-> jt[g].interest]
  BY <1>2, <1>3, <1>6 DEF Agree, Used, Update
<1>8. Owned(jt, te)
  BY <1>2, <1>3, <1>4, <1>5, Distinct DEF Agree, Owned
<1>9. Owns(jt, te)
  BY <1>1, <1>2, <1>3, <1>4, <1>5, Distinct DEF Agree, Owns, Memory, Fields
<1>10. Agree(jt, Update(ep, fd, {"read"}), op \cup {fd}, te)
  BY <1>2, <1>5, <1>6, <1>7, <1>8, <1>9 DEF Agree
<1> QED BY <1>10 DEF jt, new, te

-----------------------------------------------------------------------------
(***************************************************************************)
(* The calls of a handler, on a world                                      *)
(***************************************************************************)
\* No descriptor in use has changed hands: it has the same owner or none.
Kept(w, v) ==
    \A fd \in Fds : w.items[fd].handler # None /\ v.items[fd].handler # None =>
                        v.items[fd].data = w.items[fd].data

\* Every item still has its handler and its owner.
Same(w, v) ==
    \A fd \in Fds : /\ v.items[fd].handler = w.items[fd].handler
                    /\ v.items[fd].data = w.items[fd].data

\* selector_set_interest, on a descriptor of the table.
LEMMA InterestGood ==
    ASSUME NEW w, Good(w), NEW fd \in Fds, NEW i \in SUBSET Ops
    PROVE  /\ Good(selector_set_interest(w, fd, i))
           /\ Same(w, selector_set_interest(w, fd, i))
           /\ selector_set_interest(w, fd, i).session = w.session
<1> DEFINE v == selector_set_interest(w, fd, i)
<1>1. CASE w.items[fd].handler = None
  <2>1. v = w BY <1>1 DEF selector_set_interest, ITEM_USED
  <2> QED BY <2>1 DEF Same
<1>2. CASE w.items[fd].handler # None
  <2>1. v = [w EXCEPT !.items[fd].interest = i, !.epoll[fd] = i]
    BY <1>2 DEF selector_set_interest, ITEM_USED
  <2>2. /\ v.items = [w.items EXCEPT ![fd].interest = i]
        /\ v.epoll = [w.epoll EXCEPT ![fd] = i]
        /\ v.open = w.open /\ v.session = w.session
        /\ v.size = w.size /\ v.overrun = w.overrun
        /\ v = [items |-> v.items, size |-> v.size, epoll |-> v.epoll,
                open |-> v.open, session |-> v.session, overrun |-> v.overrun]
    BY <2>1 DEF Good
  <2> HIDE DEF v
  <2>3. Agree(w.items, w.epoll, w.open, w.session) BY DEF Good
  <2>4. Agree([w.items EXCEPT ![fd].interest = i], [w.epoll EXCEPT ![fd] = i],
              w.open, w.session)
    BY <2>3, <1>2, InterestAgrees, Zenon
  <2>6. Agree(v.items, v.epoll, v.open, v.session) BY <2>2, <2>4, Zenon
  <2>5. Same(w, v) BY <2>2, <2>3 DEF Same, Agree, Item
  <2>8. Used(v.items) \subseteq Used(w.items) BY <2>5 DEF Same, Used
  <2>7. Fits(v.items, v.size, v.overrun) BY <2>2, <2>8, FitsLess DEF Good
  <2> QED BY <2>2, <2>5, <2>6, <2>7 DEF Good, v
<1> QED BY <1>1, <1>2

\* A handler that ends by recomputing the interests.
LEMMA InterestsGood ==
    ASSUME NEW w, Good(w), NEW x \in DOMAIN w.session, NEW v \in SetInterests(w, x)
    PROVE  Good(v) /\ Same(w, v)
<1>1. PICK c \in Wanted : \E o \in Wanted :
         v = LET u == selector_set_interest(w, w.session[x].client, c)
             IN  IF u.session[x].origin = None \/ u.session[x].state # "relay" THEN u
                 ELSE selector_set_interest(u, u.session[x].origin, o)
  BY DEF SetInterests
<1> DEFINE u == selector_set_interest(w, w.session[x].client, c)
<1>2. PICK o \in Wanted :
         v = IF u.session[x].origin = None \/ u.session[x].state # "relay" THEN u
             ELSE selector_set_interest(u, u.session[x].origin, o)
  BY <1>1
<1>3. c \in SUBSET Ops /\ o \in SUBSET Ops BY SelectorAssumption DEF Ops
<1>4. w.session[x].client \in Fds /\ w.session[x].origin \in Fds \cup {None}
  BY DEF Good, Agree, Memory, Fields
<1>5. Good(u) /\ Same(w, u) /\ u.session = w.session BY <1>3, <1>4, InterestGood
<1> HIDE DEF u
<1>6. CASE v = u BY <1>5, <1>6
<1>7. CASE v # u
  <2>1. u.session[x].origin \in Fds /\ v = selector_set_interest(u, u.session[x].origin, o)
    BY <1>2, <1>4, <1>5, <1>7
  <2>2. Good(v) /\ Same(u, v) BY <2>1, <1>3, <1>5, InterestGood
  <2> QED BY <2>2, <1>5 DEF Same
<1> QED BY <1>6, <1>7

\* Closing the origin of a session.
LEMMA DestroyGood ==
    ASSUME NEW w, Good(w), NEW x \in DOMAIN w.session
    PROVE  LET v == socks_session_destroy_origin(w, x)
           IN  /\ Good(v)
               /\ \A fd \in Fds : v.items[fd] = w.items[fd] \/ v.items[fd] = Unused
               /\ DOMAIN v.session = DOMAIN w.session
               /\ v.session[x].client = w.session[x].client
               /\ v.session[x].origin = None
<1> DEFINE v == socks_session_destroy_origin(w, x)
           o == w.session[x].origin
<1>0. Agree(w.items, w.epoll, w.open, w.session) BY DEF Good
<1>1. CASE o = None
  <2>1. v = w BY <1>1 DEF socks_session_destroy_origin
  <2> QED BY <2>1, <1>1
<1>2. CASE o # None
  <2>1. /\ o \in Fds /\ w.items[o].handler = "origin"
        /\ Agree([w.items EXCEPT ![o] = Unused], Restrict(w.epoll, DOMAIN w.epoll \ {o}),
                 w.open \ {o}, [w.session EXCEPT ![x].origin = None])
    BY <1>0, <1>2, DestroyAgrees
  <2>2. v = [[w EXCEPT !.items[o] = Unused,
                       !.epoll = Restrict(@, DOMAIN @ \ {o}),
                       !.open = @ \ {o}] EXCEPT !.session[x].origin = None]
    BY <1>2, <2>1, Distinct
    DEF socks_session_destroy_origin, selector_unregister_fd, ITEM_USED
  <2>3. /\ v.items = [w.items EXCEPT ![o] = Unused]
        /\ v.epoll = Restrict(w.epoll, DOMAIN w.epoll \ {o})
        /\ v.open = w.open \ {o} /\ v.size = w.size /\ v.overrun = w.overrun
        /\ v.session = [w.session EXCEPT ![x].origin = None]
        /\ v = [items |-> v.items, size |-> v.size, epoll |-> v.epoll,
                open |-> v.open, session |-> v.session, overrun |-> v.overrun]
    BY <2>2 DEF Good
  <2> HIDE DEF v
  <2>5. \A fd \in Fds : v.items[fd] = w.items[fd] \/ v.items[fd] = Unused
    BY <2>3, <1>0 DEF Agree
  <2>7. Used(v.items) \subseteq Used(w.items) BY <2>5 DEF Used, Unused
  <2>8. Fits(v.items, v.size, v.overrun) BY <2>3, <2>7, FitsLess DEF Good
  <2>4. Good(v) BY <2>1, <2>3, <2>8 DEF Good
  <2>6. /\ DOMAIN v.session = DOMAIN w.session
        /\ v.session[x].client = w.session[x].client /\ v.session[x].origin = None
    BY <2>3, <1>0 DEF Agree, Memory, Fields
  <2> QED BY <2>4, <2>5, <2>6 DEF v
<1> QED BY <1>1, <1>2

\* Closing a session, its origin first.
LEMMA UnregisterGood ==
    ASSUME NEW w, Good(w), NEW x \in DOMAIN w.session
    PROVE  /\ Good(socks_unregister_session(w, x))
           /\ Kept(w, socks_unregister_session(w, x))
<1> DEFINE u == socks_session_destroy_origin(w, x)
           c == w.session[x].client
           v == socks_unregister_session(w, x)
<1>1. /\ Good(u) /\ x \in DOMAIN u.session
      /\ \A fd \in Fds : u.items[fd] = w.items[fd] \/ u.items[fd] = Unused
      /\ u.session[x].client = c /\ u.session[x].origin = None
  BY DestroyGood
<1>2. v = [selector_unregister_fd(u, c) EXCEPT !.session = Restrict(@, DOMAIN @ \ {x})]
  BY DEF socks_unregister_session
<1> HIDE DEF u, v
<1>3. Agree(u.items, u.epoll, u.open, u.session) BY <1>1 DEF Good
<1>4. /\ c \in Fds /\ u.items[c].handler = "client"
      /\ Agree([u.items EXCEPT ![c] = Unused], Restrict(u.epoll, DOMAIN u.epoll \ {c}),
               u.open \ {c}, Restrict(u.session, DOMAIN u.session \ {x}))
  BY <1>1, <1>3, CloseAgrees
<1>5. v = [[u EXCEPT !.items[c] = Unused,
                     !.epoll = Restrict(@, DOMAIN @ \ {c}),
                     !.open = @ \ {c}]
             EXCEPT !.session = Restrict(@, DOMAIN @ \ {x})]
  BY <1>2, <1>4, Distinct DEF selector_unregister_fd, ITEM_USED
<1>6. /\ v.items = [u.items EXCEPT ![c] = Unused]
      /\ v.epoll = Restrict(u.epoll, DOMAIN u.epoll \ {c})
      /\ v.open = u.open \ {c} /\ v.size = u.size /\ v.overrun = u.overrun
      /\ v.session = Restrict(u.session, DOMAIN u.session \ {x})
      /\ v = [items |-> v.items, size |-> v.size, epoll |-> v.epoll,
              open |-> v.open, session |-> v.session, overrun |-> v.overrun]
  BY <1>1, <1>5 DEF Good
<1>10. \A fd \in Fds : v.items[fd] = u.items[fd] \/ v.items[fd] = Unused
  BY <1>3, <1>4, <1>6 DEF Agree
<1>11. Used(v.items) \subseteq Used(u.items) BY <1>10 DEF Used, Unused
<1>12. Fits(v.items, v.size, v.overrun) BY <1>1, <1>6, <1>11, FitsLess DEF Good
<1>7. Good(v) BY <1>1, <1>4, <1>6, <1>12 DEF Good
<1>8. \A fd \in Fds : v.items[fd] = w.items[fd] \/ v.items[fd] = Unused
  BY <1>1, <1>10
<1>9. Kept(w, v) BY <1>8 DEF Kept, Unused
<1> QED BY <1>7, <1>9 DEF v

\* A change of state that leaves a waiting session without an origin.
LEMMA StateGood ==
    ASSUME NEW w, Good(w), NEW x \in DOMAIN w.session, NEW st \in State,
           st \in {"handshake", "resolving"} => w.session[x].origin = None
    PROVE  LET v == [w EXCEPT !.session[x].state = st]
           IN  Good(v) /\ v.items = w.items /\ x \in DOMAIN v.session
<1> DEFINE v == [w EXCEPT !.session[x].state = st]
<1>1. /\ v.items = w.items /\ v.epoll = w.epoll /\ v.open = w.open /\ v.size = w.size
      /\ v.session = [w.session EXCEPT ![x].state = st] /\ v.overrun = w.overrun
      /\ v = [items |-> v.items, size |-> v.size, epoll |-> v.epoll,
              open |-> v.open, session |-> v.session, overrun |-> v.overrun]
  BY DEF Good
<1> HIDE DEF v
<1>2. /\ Agree(w.items, w.epoll, w.open, [w.session EXCEPT ![x].state = st])
      /\ x \in DOMAIN [w.session EXCEPT ![x].state = st]
  BY StateAgrees, Zenon DEF Good
<1>3. Good(v) BY <1>1, <1>2 DEF Good
<1> QED BY <1>1, <1>2, <1>3 DEF v

\* socks_fail_request, whether or not the reply could be flushed.
LEMMA FailGood ==
    ASSUME NEW w, Good(w), NEW x \in DOMAIN w.session, NEW v \in socks_fail_request(w, x)
    PROVE  Good(v) /\ Kept(w, v)
<1>1. CASE v = socks_unregister_session(w, x) BY <1>1, UnregisterGood
<1>2. CASE v \in SetInterests([w EXCEPT !.session[x].state = "done"], x)
  <2> DEFINE u == [w EXCEPT !.session[x].state = "done"]
  <2>1. Good(u) /\ u.items = w.items /\ x \in DOMAIN u.session
    BY StateGood DEF State
  <2>2. v \in SetInterests(u, x) BY <1>2
  <2> HIDE DEF u
  <2>3. Good(v) /\ Same(u, v) BY <2>1, <2>2, InterestsGood
  <2> QED BY <2>1, <2>3 DEF Same, Kept
<1> QED BY <1>1, <1>2 DEF socks_fail_request

\* The size of the table once fd is registered.
Grown(size, fd) == IF fd > size THEN ensure_capacity(size, fd) ELSE size

\* A table that grows for a descriptor has room for it, and the one that does
\* not grow has, unless the descriptor is its size.
LEMMA GrowFits ==
    ASSUME NEW it \in [Fds -> Item], NEW size, NEW over, Fits(it, size, over),
           NEW fd \in Fds, fd < ItemsMax, NEW new
    PROVE  Fits([it EXCEPT ![fd] = new], Grown(size, fd), over \/ fd = size)
<1> DEFINE jt == [it EXCEPT ![fd] = new]
<1>0. fd \in Nat /\ ItemsMax \in Nat /\ size \in Nat
  BY SelectorAssumption DEF Fds, Fits
<1>1. \A g \in Used(jt) : g = fd \/ g \in Used(it) BY DEF Used
<1>2. \A g \in Used(it) : g \in Nat BY SelectorAssumption DEF Used, Fds
<1> HIDE DEF jt
<1>3. CASE fd > size
  <2>1. Grown(size, fd) = next_capacity(fd) BY <1>0, <1>3 DEF Grown, ensure_capacity
  <2>2. next_capacity(fd) \in Nat /\ next_capacity(fd) > fd BY <1>0, CapacityAbove
  <2> HIDE DEF next_capacity
  <2>3. ASSUME ~over, NEW g \in Used(jt) PROVE g < Grown(size, fd)
    <3>1. CASE g = fd BY <3>1, <2>1, <2>2
    <3>2. CASE g \in Used(it)
      <4>1. g < size BY <2>3, <3>2 DEF Fits
      <4> QED BY <1>0, <1>2, <1>3, <2>1, <2>2, <3>2, <4>1
    <3> QED BY <1>1, <3>1, <3>2
  <2> QED BY <2>1, <2>2, <2>3 DEF Fits, jt
<1>4. CASE ~(fd > size)
  <2>1. Grown(size, fd) = size BY <1>4 DEF Grown
  <2>2. ASSUME ~over, fd # size, NEW g \in Used(jt) PROVE g < size
    <3>1. CASE g = fd BY <1>0, <1>4, <2>2, <3>1
    <3>2. CASE g \in Used(it) BY <2>2, <3>2 DEF Fits
    <3> QED BY <1>1, <3>1, <3>2
  <2> QED BY <1>0, <2>1, <2>2 DEF Fits, jt
<1> QED BY <1>3, <1>4

\* What selector_register writes.
LEMMA RegisterFields ==
    ASSUME NEW u, u = [items |-> u.items, size |-> u.size, epoll |-> u.epoll,
                       open |-> u.open, session |-> u.session, overrun |-> u.overrun],
           NEW fd, NEW h, NEW i, NEW x
    PROVE  LET r == selector_register(u, fd, h, i, x)
           IN  /\ r.items = [u.items EXCEPT ![fd] = NewItem(h, i, x)]
               /\ r.size = Grown(u.size, fd)
               /\ r.epoll = Update(u.epoll, fd, i)
               /\ r.open = u.open /\ r.session = u.session
               /\ r.overrun = (u.overrun \/ fd = u.size)
               /\ r = [items |-> r.items, size |-> r.size, epoll |-> r.epoll,
                       open |-> r.open, session |-> r.session, overrun |-> r.overrun]
<1> DEFINE r == selector_register(u, fd, h, i, x)
           new == NewItem(h, i, x)
           sz == Grown(u.size, fd)
           ep == Update(u.epoll, fd, i)
           ov == u.overrun \/ fd = u.size
<1>1. r = [u EXCEPT !.overrun = ov, !.size = sz, !.items[fd] = new, !.epoll = ep]
  BY DEF selector_register, NewItem, Grown
<1> HIDE DEF sz, ep, new, ov
<1>2. r = [items |-> [u.items EXCEPT ![fd] = new], size |-> sz, epoll |-> ep,
           open |-> u.open, session |-> u.session, overrun |-> ov]
  BY <1>1
<1> HIDE DEF r
<1>3. /\ r.items = [u.items EXCEPT ![fd] = new]
      /\ r.size = sz /\ r.epoll = ep /\ r.open = u.open /\ r.session = u.session
      /\ r.overrun = ov
      /\ r = [items |-> r.items, size |-> r.size, epoll |-> r.epoll,
              open |-> r.open, session |-> r.session, overrun |-> r.overrun]
  BY <1>2
<1> QED BY <1>3 DEF r, sz, ep, new, ov

\* The world after the socket of a new origin is registered.
Connecting(w, x, fd) ==
    [selector_register([w EXCEPT !.open = @ \cup {fd}], fd, "origin", {"write"}, x)
        EXCEPT !.session[x].origin = fd, !.session[x].state = "connecting"]

\* socket() gives a descriptor that no item uses.
LEMMA ConnectingGood ==
    ASSUME NEW w, Good(w), NEW x \in DOMAIN w.session, w.session[x].origin = None,
           NEW fd \in Fds, w.items[fd].handler = None, fd < ItemsMax
    PROVE  /\ Good(Connecting(w, x, fd)) /\ Kept(w, Connecting(w, x, fd))
           /\ x \in DOMAIN Connecting(w, x, fd).session
<1> DEFINE v == Connecting(w, x, fd)
           new == NewItem("origin", {"write"}, x)
           te == Joined(w.session, x, fd)
<1>1. /\ v.items = [w.items EXCEPT ![fd] = new]
      /\ v.epoll = Update(w.epoll, fd, {"write"})
      /\ v.open = w.open \cup {fd} /\ Fits(v.items, v.size, v.overrun)
      /\ v.session = te
      /\ v = [items |-> v.items, size |-> v.size, epoll |-> v.epoll,
              open |-> v.open, session |-> v.session, overrun |-> v.overrun]
  <2> DEFINE u == [w EXCEPT !.open = @ \cup {fd}]
             r == selector_register(u, fd, "origin", {"write"}, x)
  <2>0. w = [items |-> w.items, size |-> w.size, epoll |-> w.epoll,
             open |-> w.open, session |-> w.session, overrun |-> w.overrun]
    BY DEF Good
  <2>6. u = [items |-> w.items, size |-> w.size, epoll |-> w.epoll,
             open |-> w.open \cup {fd}, session |-> w.session, overrun |-> w.overrun]
    BY <2>0
  <2>1. /\ u.items = w.items /\ u.epoll = w.epoll /\ u.open = w.open \cup {fd}
        /\ u.session = w.session /\ u.size = w.size /\ u.overrun = w.overrun
        /\ u = [items |-> u.items, size |-> u.size, epoll |-> u.epoll,
                open |-> u.open, session |-> u.session, overrun |-> u.overrun]
    BY <2>6
  <2>2. v = [r EXCEPT !.session[x].origin = fd, !.session[x].state = "connecting"]
    BY Zenon DEF Connecting
  <2> HIDE DEF u
  <2>3. /\ r.items = [u.items EXCEPT ![fd] = new]
        /\ r.epoll = Update(u.epoll, fd, {"write"})
        /\ r.open = u.open /\ r.session = u.session
        /\ r.size = Grown(u.size, fd) /\ r.overrun = (u.overrun \/ fd = u.size)
        /\ r = [items |-> r.items, size |-> r.size, epoll |-> r.epoll,
                open |-> r.open, session |-> r.session, overrun |-> r.overrun]
    BY <2>1, RegisterFields
  <2> HIDE DEF r, v, new
  <2>4. /\ v.items = r.items /\ v.epoll = r.epoll /\ v.open = r.open /\ v.size = r.size
        /\ v.overrun = r.overrun
        /\ v = [items |-> v.items, size |-> v.size, epoll |-> v.epoll,
                open |-> v.open, session |-> v.session, overrun |-> v.overrun]
    BY <2>2, <2>3
  <2>5. v.session = [r.session EXCEPT ![x].origin = fd, ![x].state = "connecting"]
    BY <2>2, <2>3
  <2>7. Fits(w.items, w.size, w.overrun) /\ w.items \in [Fds -> Item] BY DEF Good, Agree
  <2>9. Fits([w.items EXCEPT ![fd] = new], Grown(w.size, fd), w.overrun \/ fd = w.size)
    BY <2>7, GrowFits
  <2>8. Fits(v.items, v.size, v.overrun) BY <2>1, <2>3, <2>4, <2>9, Zenon
  <2> QED BY <2>1, <2>3, <2>4, <2>5, <2>8 DEF Joined
<1> HIDE DEF v
<1>2. Agree(w.items, w.epoll, w.open, w.session) BY DEF Good
<1>3. /\ x \in DOMAIN te
      /\ Agree([w.items EXCEPT ![fd] = new], Update(w.epoll, fd, {"write"}),
               w.open \cup {fd}, te)
  BY <1>2, ConnectAgrees
<1>4. Good(v) BY <1>1, <1>3 DEF Good
<1>5. Kept(w, v) BY <1>1, <1>2 DEF Kept, Agree
<1> QED BY <1>1, <1>3, <1>4, <1>5 DEF v

\* socks_begin_origin_connect, for a session without an origin.
LEMMA BeginGood ==
    ASSUME NEW w, Good(w), NEW x \in DOMAIN w.session, w.session[x].origin = None,
           NEW v \in socks_begin_origin_connect(w, x)
    PROVE  Good(v) /\ Kept(w, v)
<1>1. CASE v \in socks_fail_request(w, x) BY <1>1, FailGood
<1>2. CASE v \notin socks_fail_request(w, x)
  <2>1. PICK fd \in Fds : /\ IsNextFd(w, fd) /\ CanRegister(w, fd)
                          /\ v \in SetInterests(Connecting(w, x, fd), x)
    BY <1>2, Zenon DEF socks_begin_origin_connect, Connecting
  <2>2. w.items[fd].handler = None /\ fd < ItemsMax BY <2>1 DEF CanRegister, ITEM_USED
  <2>3. /\ Good(Connecting(w, x, fd)) /\ Kept(w, Connecting(w, x, fd))
        /\ x \in DOMAIN Connecting(w, x, fd).session
    BY <2>2, ConnectingGood
  <2>4. Good(v) /\ Same(Connecting(w, x, fd), v) BY <2>1, <2>3, InterestsGood
  <2> QED BY <2>3, <2>4 DEF Same, Kept
<1> QED BY <1>1, <1>2

\* The world after a client is registered, with its session.
Accepting(w, x, fd) ==
    selector_register([w EXCEPT !.open = @ \cup {fd},
                                !.session = Update(@, x, Accepted(fd))],
                      fd, "client", {"read"}, x)

\* So does accept(), and it touches no other item.
LEMMA AcceptingGood ==
    ASSUME NEW w, Good(w), NEW x \in Sessions \ DOMAIN w.session,
           NEW fd \in Fds, w.items[fd].handler = None, fd < ItemsMax
    PROVE  /\ Good(Accepting(w, x, fd))
           /\ \A g \in Fds \ {fd} : Accepting(w, x, fd).items[g] = w.items[g]
<1> DEFINE te == Update(w.session, x, Accepted(fd))
           os == w.open \cup {fd}
           o == [w EXCEPT !.open = os]
           u == [o EXCEPT !.session = te]
           r == selector_register(u, fd, "client", {"read"}, x)
           v == Accepting(w, x, fd)
           new == NewItem("client", {"read"}, x)
<1>1. w = [items |-> w.items, size |-> w.size, epoll |-> w.epoll,
           open |-> w.open, session |-> w.session, overrun |-> w.overrun]
  BY DEF Good
<1>2. v = r BY DEF Accepting
<1> HIDE DEF te, v, os
<1>3. o = [items |-> w.items, size |-> w.size, epoll |-> w.epoll,
           open |-> os, session |-> w.session, overrun |-> w.overrun]
  BY <1>1
<1> HIDE DEF o
<1>10. u = [items |-> w.items, size |-> w.size, epoll |-> w.epoll,
            open |-> os, session |-> te, overrun |-> w.overrun]
  BY <1>3
<1> HIDE DEF u
<1>4. /\ u.items = w.items /\ u.epoll = w.epoll /\ u.open = os /\ u.session = te
      /\ u.size = w.size /\ u.overrun = w.overrun
      /\ u = [items |-> u.items, size |-> u.size, epoll |-> u.epoll,
              open |-> u.open, session |-> u.session, overrun |-> u.overrun]
  BY <1>10
<1>11. /\ r.items = [u.items EXCEPT ![fd] = new]
       /\ r.epoll = Update(u.epoll, fd, {"read"})
       /\ r.open = u.open /\ r.session = u.session
       /\ r.size = Grown(u.size, fd) /\ r.overrun = (u.overrun \/ fd = u.size)
       /\ r = [items |-> r.items, size |-> r.size, epoll |-> r.epoll,
               open |-> r.open, session |-> r.session, overrun |-> r.overrun]
  BY <1>4, RegisterFields
<1> HIDE DEF r, new
<1>5. /\ v.items = [u.items EXCEPT ![fd] = new]
      /\ v.epoll = Update(u.epoll, fd, {"read"})
      /\ v.open = u.open /\ v.session = u.session /\ v.size = r.size
      /\ v.overrun = r.overrun
      /\ v = [items |-> v.items, size |-> v.size, epoll |-> v.epoll,
              open |-> v.open, session |-> v.session, overrun |-> v.overrun]
  BY <1>2, <1>11
<1>6. Agree(w.items, w.epoll, w.open, w.session) /\ w.items \in [Fds -> Item]
  BY DEF Good, Agree
<1>12. Fits([w.items EXCEPT ![fd] = new], Grown(w.size, fd), w.overrun \/ fd = w.size)
  BY <1>6, GrowFits DEF Good
<1>13. Fits(v.items, v.size, v.overrun) BY <1>4, <1>5, <1>11, <1>12, Zenon
<1>7. Agree([w.items EXCEPT ![fd] = new], Update(w.epoll, fd, {"read"}),
            w.open \cup {fd}, te)
  BY <1>6, AcceptAgrees DEF te, new
<1>8. Good(v) BY <1>4, <1>5, <1>7, <1>13 DEF Good, os
<1>9. \A g \in Fds \ {fd} : v.items[g] = w.items[g] BY <1>4, <1>5, <1>6 DEF Agree
<1> QED BY <1>8, <1>9 DEF v

\* What every handler may do: close its session, or change its interests.
LEMMA EndGood ==
    ASSUME NEW w, Good(w), NEW x \in DOMAIN w.session,
           NEW v \in {socks_unregister_session(w, x)} \cup SetInterests(w, x)
    PROVE  Good(v) /\ Kept(w, v)
<1>1. CASE v = socks_unregister_session(w, x) BY <1>1, UnregisterGood
<1>2. CASE v \in SetInterests(w, x) BY <1>2, InterestsGood DEF Same, Kept
<1> QED BY <1>1, <1>2

\* socks_client_read connects only a session that has no origin yet.
LEMMA ClientReadGood ==
    ASSUME NEW w, Good(w), NEW x \in DOMAIN w.session, NEW v \in socks_client_read(w, x)
    PROVE  Good(v) /\ Kept(w, v)
<1>1. CASE v \in {socks_unregister_session(w, x)} \cup SetInterests(w, x)
  BY <1>1, EndGood
<1>2. CASE w.session[x].state = "handshake" /\ v \in socks_begin_origin_connect(w, x)
  <2>1. w.session[x].origin = None BY <1>2 DEF Good, Agree, Owns
  <2> QED BY <1>2, <2>1, BeginGood
<1> QED BY <1>1, <1>2 DEF socks_client_read

\* socks_origin_write closes one origin before it opens the next; the
\* descriptor may come back with another owner.
LEMMA OriginWriteGood ==
    ASSUME NEW w, Good(w), NEW x \in DOMAIN w.session, NEW v \in socks_origin_write(w, x)
    PROVE  Good(v)
<1> DEFINE u == socks_session_destroy_origin(w, x)
           r == [w EXCEPT !.session[x].state = "relay"]
<1>1. CASE v \in {socks_unregister_session(w, x)} \cup SetInterests(w, x)
  BY <1>1, EndGood
<1>2. CASE v \in SetInterests(r, x)
  <2>1. Good(r) /\ x \in DOMAIN r.session BY StateGood DEF State
  <2> HIDE DEF r
  <2> QED BY <1>2, <2>1, InterestsGood
<1>3. CASE v \in socks_begin_origin_connect(u, x)
  <2>1. Good(u) /\ x \in DOMAIN u.session /\ u.session[x].origin = None BY DestroyGood
  <2> HIDE DEF u
  <2> QED BY <1>3, <2>1, BeginGood
<1> QED BY <1>1, <1>2, <1>3 DEF socks_origin_write

\* Every handler leaves the table in agreement, and one that reads lets no
\* descriptor change hands.
LEMMA HandleGood ==
    ASSUME NEW w, Good(w), NEW fd \in Fds, NEW op \in Ops,
           w.items[fd].handler \notin {None, "passive"}, NEW v \in Handle(w, fd, op)
    PROVE  Good(v) /\ (op = "read" => Kept(w, v))
<1> DEFINE x == w.items[fd].data
<1>1. w.items[fd].handler \in {"client", "origin"} BY DEF Good, Agree, Item
<1>2. x \in DOMAIN w.session BY <1>1 DEF Good, Agree, Owned
<1> HIDE DEF x
<1>3. CASE w.items[fd].handler = "client" /\ op = "read"
  <2>1. v \in socks_client_read(w, x) BY <1>3 DEF Handle, x
  <2> QED BY <1>2, <2>1, ClientReadGood
<1>4. CASE w.items[fd].handler = "client" /\ op = "write"
  <2>1. v \in socks_client_write(w, x) BY <1>4 DEF Handle, x
  <2> QED BY <1>2, <2>1, <1>4, EndGood DEF socks_client_write
<1>5. CASE w.items[fd].handler = "origin" /\ op = "read"
  <2>1. v \in socks_origin_read(w, x) BY <1>5 DEF Handle, x
  <2> QED BY <1>2, <2>1, EndGood DEF socks_origin_read
<1>6. CASE w.items[fd].handler = "origin" /\ op = "write"
  <2>1. v \in socks_origin_write(w, x) BY <1>6 DEF Handle, x
  <2> QED BY <1>2, <2>1, <1>6, OriginWriteGood
<1> QED BY <1>1, <1>3, <1>4, <1>5, <1>6 DEF Ops

-----------------------------------------------------------------------------
(***************************************************************************)
(* The steps                                                               *)
(***************************************************************************)
\* The current table, as a world.
LEMMA WorldGood ==
    ASSUME Table, loop # "overrun"
    PROVE  /\ Good(World) /\ World.items = items /\ World.epoll = epoll
           /\ World.open = open /\ World.session = session
BY DEF Good, World, Table, Fits

\* A step that becomes a good world leaves a good table.
LEMMA BecomeAgrees ==
    ASSUME NEW w, Good(w), Become(w), loop # "overrun"
    PROVE  Table' /\ items' = w.items /\ loop' \in {loop, "overrun"}
<1>1. /\ items' = w.items /\ fd_size' = w.size /\ epoll' = w.epoll
      /\ open' = w.open /\ session' = w.session
      /\ loop' \in {loop, "overrun"} /\ (w.overrun => loop' = "overrun")
  BY Zenon DEF Become
<1>2. Agree(items', epoll', open', session') BY <1>1, Zenon DEF Good
<1>3. Fits(items', fd_size', loop' = "overrun") BY <1>1 DEF Good, Fits
<1> QED BY <1>1, <1>2, <1>3 DEF Table

\* The item of a descriptor that has an interest is in use.
LEMMA InterestIsUsed ==
    ASSUME Inv, key # None, NEW op, op \in items[key.fd].interest
    PROVE  key.fd \in Fds /\ items[key.fd].handler # None /\ key.data = items[key.fd].data
<1>1. key.fd \in Fds BY DEF Inv, Keyed
<1>2. items[key.fd].handler # None BY <1>1 DEF Inv, Table, Agree, Owned, Unused
<1> QED BY <1>1, <1>2 DEF Inv, Keyed

\* One operation of the key is done; the table may have changed, as long as
\* the descriptor has kept its owner or was closed.
LEMMA OpDoneKeyed ==
    ASSUME Inv, NEW op \in Ops, IsNextOp(op), OpDone(op),
           loop' \in {loop, "overrun"},
           key' # None => (items'[key.fd].handler # None => key.data = items'[key.fd].data)
    PROVE  Keyed'
<1>1. CASE key.todo = {op}
  <2>1. key' = None BY <1>1 DEF OpDone
  <2> QED BY <2>1 DEF Keyed
<1>2. CASE key.todo # {op}
  <2>1. key' = [key EXCEPT !.todo = @ \ {op}] BY <1>2 DEF OpDone
  <2>2. /\ key = [fd |-> key.fd, data |-> key.data, todo |-> key.todo,
                  owner |-> key.owner]
        /\ key.fd \in Fds /\ key.todo \in SUBSET Ops /\ loop = "dispatch"
    BY DEF Inv, Keyed, IsNextOp
  <2>3. /\ key'.fd = key.fd /\ key'.data = key.data /\ key'.todo = key.todo \ {op}
        /\ key' = [fd |-> key'.fd, data |-> key'.data, todo |-> key'.todo,
                   owner |-> key'.owner]
    BY <2>1, <2>2
  <2> QED BY <2>2, <2>3 DEF Keyed
<1> QED BY <1>1, <1>2

\* epoll_wait reports descriptors of the table and the eventfd.
LEMMA WaitStep ==
    ASSUME Inv, epoll_wait PROVE Inv'
<1>1. /\ loop = "wait" /\ loop' = "dispatch"
      /\ UNCHANGED <<items, fd_size, epoll, open, session, resolution_jobs, thread, key>>
  BY DEF epoll_wait, table
<1>2. Batched'
  <2> SUFFICES ASSUME NEW e \in batch' PROVE e.fd \in Fds \cup {EventFd} /\ e.events \in SUBSET Ops
    BY DEF Batched
  <2>1. PICK R \in SUBSET DOMAIN epoll :
           \E ev \in [R -> SUBSET {"read", "write"}] :
              batch' = {Report(fd, ev[fd]) : fd \in R} \cup
                      (IF event_fd /\ Cardinality(R) < EventsCapacity
                       THEN {Report(EventFd, {"read"})} ELSE {})
    BY DEF epoll_wait
  <2>2. PICK ev \in [R -> SUBSET {"read", "write"}] :
              batch' = {Report(fd, ev[fd]) : fd \in R} \cup
                      (IF event_fd /\ Cardinality(R) < EventsCapacity
                       THEN {Report(EventFd, {"read"})} ELSE {})
    BY <2>1
  <2>3. R \subseteq Fds BY DEF Inv, Table, Agree, Used
  <2>4. e = Report(EventFd, {"read"}) \/ \E fd \in R : e = Report(fd, ev[fd]) BY <2>2
  <2>5. CASE e = Report(EventFd, {"read"}) BY <2>5 DEF Report, Ops
  <2>6. CASE \E fd \in R : e = Report(fd, ev[fd]) BY <2>6, <2>3 DEF Report, Ops
  <2> QED BY <2>4, <2>5, <2>6
<1>3. Keyed' BY <1>1 DEF Inv, Keyed
<1>4. Table' BY <1>1 DEF Inv, Table
<1> QED BY <1>1, <1>2, <1>3, <1>4 DEF Inv, Posted

\* The key is filled in from the item as it is now.
LEMMA TakeStep ==
    ASSUME Inv, TakeEvent PROVE Inv'
<1>1. /\ loop' = loop /\ loop = "dispatch"
      /\ UNCHANGED <<items, fd_size, epoll, open, session, resolution_jobs, thread>>
  BY DEF TakeEvent, table
<1>2. PICK e \in batch :
         /\ batch' = batch \ {e}
         /\ key' = IF e.fd = EventFd \/ ~ITEM_USED(items[e.fd]) THEN None
                   ELSE [fd |-> e.fd, data |-> items[e.fd].data,
                         todo |-> e.events, owner |-> e.owner]
  BY DEF TakeEvent
<1>3. Batched' BY <1>2 DEF Inv, Batched
<1>4. Keyed'
  <2>1. CASE key' = None BY <2>1 DEF Keyed
  <2>2. CASE key' # None
    <3>1. /\ e.fd \in Fds /\ e.events \in SUBSET Ops
          /\ key' = [fd |-> e.fd, data |-> items[e.fd].data,
                     todo |-> e.events, owner |-> e.owner]
      BY <1>2, <2>2 DEF Inv, Batched
    <3> QED BY <1>1, <3>1 DEF Keyed
  <2> QED BY <2>1, <2>2
<1> QED BY <1>1, <1>3, <1>4 DEF Inv, Table, Posted

\* An event without the interest is passed over.
LEMMA SkipStep ==
    ASSUME Inv, NEW op \in Ops, SkipEvent(op) PROVE Inv'
<1>1. /\ IsNextOp(op) /\ OpDone(op) /\ loop' = loop /\ key # None
      /\ UNCHANGED <<items, fd_size, epoll, open, session, resolution_jobs, thread, batch>>
  BY DEF SkipEvent, table, IsNextOp
<1>2. items[key.fd].handler # None => key.data = items[key.fd].data
  BY <1>1 DEF Inv, Keyed
<1>3. Keyed' BY <1>1, <1>2, OpDoneKeyed
<1> QED BY <1>1, <1>3 DEF Inv, Table, Posted, Batched

\* A handler runs.
LEMMA HandleStep ==
    ASSUME Inv, NEW op \in Ops, HandleEvent(op) PROVE Inv'
<1>1. /\ IsNextOp(op) /\ OpDone(op) /\ loop = "dispatch" /\ key # None
      /\ op \in items[key.fd].interest /\ items[key.fd].handler # "passive"
      /\ UNCHANGED <<resolution_jobs, thread, batch>>
  BY DEF HandleEvent, IsNextOp
<1>2. PICK v \in Handle(World, key.fd, op) : Become(v) BY DEF HandleEvent
<1>3. key.fd \in Fds /\ items[key.fd].handler # None /\ key.data = items[key.fd].data
  BY <1>1, InterestIsUsed
<1>4. Good(World) /\ World.items = items BY <1>1, WorldGood DEF Inv
<1>5. Good(v) /\ (op = "read" => Kept(World, v))
  BY <1>1, <1>2, <1>3, <1>4, HandleGood
<1>6. Table' /\ items' = v.items /\ loop' \in {loop, "overrun"}
  BY <1>1, <1>2, <1>5, BecomeAgrees
<1>7. key' # None => (items'[key.fd].handler # None => key.data = items'[key.fd].data)
  <2>1. CASE op = "read" BY <2>1, <1>3, <1>4, <1>5, <1>6 DEF Kept
  <2>2. CASE op = "write"
    <3>1. key.todo = {op} BY <2>2, <1>1 DEF IsNextOp, Inv, Keyed, Ops
    <3> QED BY <3>1, <1>1 DEF OpDone
  <2> QED BY <2>1, <2>2 DEF Ops
<1>8. Keyed' BY <1>1, <1>6, <1>7, OpDoneKeyed
<1> QED BY <1>1, <1>6, <1>8 DEF Inv, Posted, Batched

\* A thread starts for the session of the event.
LEMMA ResolveStep ==
    ASSUME Inv, NEW t \in Threads, StartResolve(t) PROVE Inv'
<1>0. "read" \in Ops BY DEF Ops
<1>1. /\ IsNextOp("read") /\ OpDone("read") /\ loop = "dispatch" /\ key # None
      /\ "read" \in items[key.fd].interest /\ items[key.fd].handler = "client"
      /\ session[key.data].state = "handshake"
      /\ thread' = [thread EXCEPT ![t] = [pc |-> "resolving", fd |-> key.fd,
                                           data |-> key.data, own |-> None]]
      /\ UNCHANGED <<resolution_jobs, batch>>
  BY DEF StartResolve, IsNextOp
<1>3. key.fd \in Fds /\ items[key.fd].handler # None /\ key.data = items[key.fd].data
  BY <1>1, InterestIsUsed
<1>4. Good(World) /\ World.items = items /\ World.session = session
  BY <1>1, WorldGood DEF Inv
<1>5. key.data \in DOMAIN session /\ key.data \in Sessions
  BY <1>1, <1>3 DEF Inv, Table, Agree, Owned, Memory
<1>6. session[key.data].origin = None BY <1>1, <1>5 DEF Inv, Table, Agree, Owns
<1> DEFINE x == key.data
           u == [World EXCEPT !.session[x].state = "resolving"]
           r == [World EXCEPT !.session[x].state = "resolving",
                              !.session[x].dns_resolving = TRUE]
<1>2. PICK v \in SetInterests(r, x) : Become(v) BY DEF StartResolve
<1>7. Good(u) /\ u.items = items /\ x \in DOMAIN u.session
  BY <1>4, <1>5, <1>6, StateGood, ZenonT(60) DEF State
<1>8. r = [u EXCEPT !.session[x].dns_resolving = TRUE] BY <1>4 DEF Good
<1> HIDE DEF u, r, x
<1>9. /\ r.items = u.items /\ r.epoll = u.epoll /\ r.open = u.open /\ r.size = u.size
      /\ r.session = [u.session EXCEPT ![x].dns_resolving = TRUE] /\ r.overrun = u.overrun
      /\ r = [items |-> r.items, size |-> r.size, epoll |-> r.epoll,
              open |-> r.open, session |-> r.session, overrun |-> r.overrun]
  BY <1>7, <1>8 DEF Good
<1>10. /\ Agree(u.items, u.epoll, u.open, [u.session EXCEPT ![x].dns_resolving = TRUE])
       /\ x \in DOMAIN [u.session EXCEPT ![x].dns_resolving = TRUE]
  BY <1>7, ResolvingAgrees, Zenon DEF Good
<1>11. Good(r) /\ x \in DOMAIN r.session BY <1>7, <1>9, <1>10 DEF Good
<1>12. Good(v) /\ Same(r, v) BY <1>2, <1>11, InterestsGood
<1>13. Table' /\ items' = v.items /\ loop' \in {loop, "overrun"}
  BY <1>1, <1>2, <1>12, BecomeAgrees
<1>14. items'[key.fd].data = key.data BY <1>3, <1>7, <1>9, <1>12, <1>13 DEF Same
<1>15. Keyed' BY <1>0, <1>1, <1>13, <1>14, OpDoneKeyed
<1>16. Posted' BY <1>1, <1>3, <1>5 DEF Inv, Posted
<1> QED BY <1>1, <1>13, <1>15, <1>16 DEF Inv, Batched

\* accept() made a session.
LEMMA AcceptStep ==
    ASSUME Inv, NEW x \in Sessions, socks_passive_read(x) PROVE Inv'
<1>1. /\ loop = "dispatch" /\ key # None /\ items[key.fd].handler = "passive"
      /\ x \notin DOMAIN session
      /\ UNCHANGED <<resolution_jobs, thread, batch, key>>
  BY DEF socks_passive_read, InPassiveRead, IsNextOp
<1>2. PICK fd \in Fds : /\ IsNextFd(World, fd) /\ CanRegister(World, fd)
                        /\ Become(Accepting(World, x, fd))
  BY Zenon DEF socks_passive_read, Accepted, Accepting
<1>3. Good(World) /\ World.items = items /\ World.open = open /\ World.session = session
  BY <1>1, WorldGood DEF Inv
<1>4. items[fd].handler = None /\ fd < ItemsMax
  BY <1>2, <1>3 DEF CanRegister, ITEM_USED
<1>5. /\ Good(Accepting(World, x, fd))
      /\ \A g \in Fds \ {fd} : Accepting(World, x, fd).items[g] = items[g]
  BY <1>1, <1>3, <1>4, AcceptingGood
<1>10. Table' /\ items' = Accepting(World, x, fd).items /\ loop' \in {loop, "overrun"}
  BY <1>1, <1>2, <1>5, BecomeAgrees
<1>11. key.fd # fd BY <1>1, <1>4, Distinct
<1>12. items'[key.fd] = items[key.fd]
  BY <1>1, <1>5, <1>10, <1>11 DEF Inv, Keyed
<1>13. Keyed' BY <1>1, <1>10, <1>12 DEF Inv, Keyed
<1> QED BY <1>1, <1>10, <1>13 DEF Inv, Posted, Batched

\* The listening socket is drained.
LEMMA AcceptEndsStep ==
    ASSUME Inv, AcceptEnds PROVE Inv'
<1>0. "read" \in Ops BY DEF Ops
<1>1. /\ IsNextOp("read") /\ OpDone("read") /\ loop' = loop /\ key # None
      /\ UNCHANGED <<items, fd_size, epoll, open, session, resolution_jobs, thread, batch>>
  BY DEF AcceptEnds, InPassiveRead, table, IsNextOp
<1>2. items[key.fd].handler # None => key.data = items[key.fd].data
  BY <1>1 DEF Inv, Keyed
<1>3. Keyed' BY <1>0, <1>1, <1>2, OpDoneKeyed
<1> QED BY <1>1, <1>3 DEF Inv, Table, Posted, Batched

\* The batch is done.
LEMMA IterationStep ==
    ASSUME Inv, IterationDone PROVE Inv'
<1>1. /\ loop = "dispatch" /\ loop' = "block" /\ key = None
      /\ UNCHANGED <<items, fd_size, epoll, open, session, resolution_jobs, thread,
                     batch, key>>
  BY DEF IterationDone, table
<1>2. Table' BY <1>1 DEF Inv, Table
<1> QED BY <1>1, <1>2 DEF Inv, Keyed, Posted, Batched

\* A job is handed to the descriptor it names, or dropped, or it aborts.
LEMMA BlockStep ==
    ASSUME Inv, handle_block_notifications PROVE Inv'
<1>1. /\ loop = "block" /\ key = None
      /\ UNCHANGED <<thread, batch, key>>
  BY DEF handle_block_notifications, Inv, Keyed
<1>2. Keyed' BY <1>1 DEF Keyed
<1>3. Batched' BY <1>1 DEF Inv, Batched
<1>4. CASE resolution_jobs = <<>>
  <2>1. /\ loop' = "wait"
        /\ UNCHANGED <<items, fd_size, epoll, open, session, resolution_jobs>>
    BY <1>4 DEF handle_block_notifications, table
  <2> QED BY <1>1, <1>2, <1>3, <2>1 DEF Inv, Table, Posted
<1>5. CASE resolution_jobs # <<>>
  <2> DEFINE fd == Head(resolution_jobs)
  <2>1. fd \in Fds /\ Tail(resolution_jobs) \in Seq(Fds)
    BY <1>5 DEF Inv, Posted
  <2>2. resolution_jobs' = Tail(resolution_jobs)
    BY <1>5 DEF handle_block_notifications
  <2>3. Posted' BY <1>1, <2>1, <2>2 DEF Inv, Posted
  <2>4. \/ ~ITEM_USED(items[fd]) /\ UNCHANGED <<table, loop>>
        \/ /\ BlockAccepted(World, fd)
           /\ \E w \in socks_client_block(World, items[fd].data) : Become(w)
        \/ loop' = "crashed" /\ UNCHANGED table
    BY <1>5 DEF handle_block_notifications
  <2> HIDE DEF fd
  <2>5. CASE ~ITEM_USED(items[fd]) /\ UNCHANGED <<table, loop>>
    BY <2>3, <2>5, <1>2, <1>3 DEF Inv, Table, table
  <2>6. CASE loop' = "crashed" /\ UNCHANGED table
    BY <2>3, <2>6, <1>1, <1>2, <1>3 DEF Inv, Table, table
  <2>7. CASE /\ BlockAccepted(World, fd)
             /\ \E w \in socks_client_block(World, items[fd].data) : Become(w)
    <3> DEFINE x == items[fd].data
    <3>1. PICK v \in socks_client_block(World, x) : Become(v) BY <2>7
    <3>2. Good(World) /\ World.items = items /\ World.session = session
      BY <1>1, WorldGood DEF Inv
    <3>3. x \in DOMAIN session /\ session[x].state = "resolving"
      BY <2>1, <2>7, <3>2 DEF BlockAccepted, Inv, Table, Agree, Owned
    <3>4. session[x].origin = None BY <3>3 DEF Inv, Table, Agree, Owns
    <3> HIDE DEF x
    <3>5. Good(v)
      <4>1. CASE v \in SetInterests(World, x) BY <4>1, <3>2, <3>3, InterestsGood
      <4>2. CASE v \in socks_begin_origin_connect(World, x)
        BY <4>2, <3>2, <3>3, <3>4, BeginGood
      <4> QED BY <3>1, <4>1, <4>2 DEF socks_client_block
    <3>6. Table' /\ loop' \in {loop, "overrun"} BY <1>1, <3>1, <3>5, BecomeAgrees
    <3> QED BY <2>3, <3>6, <1>2, <1>3 DEF Inv
  <2> QED BY <2>4, <2>5, <2>6, <2>7
<1> QED BY <1>4, <1>5

\* A resolver opens and closes descriptors of its own, and writes only the
\* result of its session, if that is still there.
LEMMA ResolverStep ==
    ASSUME Inv, NEW t \in Threads,
           ResolverOpens(t) \/ ResolverCloses(t) \/ WriteResult(t)
    PROVE  Inv'
<1>0. UNCHANGED <<items, fd_size, epoll, open, resolution_jobs, loop, batch, key>>
  BY DEF ResolverOpens, ResolverCloses, WriteResult, table
<1>1. Posted'
  <2>1. CASE ResolverOpens(t)
    <3>1. PICK fd \in Fds : thread' = [thread EXCEPT ![t].own = fd]
      BY <2>1 DEF ResolverOpens
    <3> QED BY <1>0, <3>1 DEF Inv, Posted
  <2>2. CASE ResolverCloses(t)
    <3>1. thread' = [thread EXCEPT ![t].own = None] BY <2>2 DEF ResolverCloses
    <3> QED BY <1>0, <3>1 DEF Inv, Posted
  <2>3. CASE WriteResult(t)
    <3>1. thread' = [thread EXCEPT ![t].pc = "notify"] /\ thread[t].pc = "resolving"
      BY <2>3 DEF WriteResult
    <3> QED BY <1>0, <3>1 DEF Inv, Posted
  <2> QED BY <2>1, <2>2, <2>3
<1>2. Agree(items', epoll', open', session')
  <2> DEFINE x == thread[t].data
  <2>1. CASE session' = session BY <1>0, <2>1 DEF Inv, Table
  <2>2. CASE session' # session
    <3>1. x \in DOMAIN session /\ session' = [session EXCEPT ![x].dns_resolving = FALSE]
      BY <2>2 DEF ResolverOpens, ResolverCloses, WriteResult, table
    <3> HIDE DEF x
    <3>2. Agree(items, epoll, open, [session EXCEPT ![x].dns_resolving = FALSE])
      BY <3>1, ResolvingAgrees, Zenon DEF Inv, Table
    <3> QED BY <1>0, <3>1, <3>2, Zenon
  <2> QED BY <2>1, <2>2
<1>3. Table' BY <1>0, <1>2 DEF Inv, Table
<1> QED BY <1>0, <1>1, <1>3 DEF Inv, Keyed, Batched

\* A resolver posts its job.
LEMMA NotifyStep ==
    ASSUME Inv, NEW t \in Threads, selector_notify_block(t) PROVE Inv'
<1>0. UNCHANGED <<items, fd_size, epoll, open, session, loop, batch, key>>
  BY DEF selector_notify_block, NotifyQueue, NotifySignal, NotifyFails, table
<1>1. CASE NotifyQueue(t)
  <2>1. /\ thread[t].pc = "notify"
        /\ resolution_jobs' = <<thread[t].fd>> \o resolution_jobs
        /\ thread' = [thread EXCEPT ![t].pc = "signal"]
    BY <1>1 DEF NotifyQueue
  <2>3. thread[t].fd \in Fds BY <2>1 DEF Inv, Posted
  <2>4. <<thread[t].fd>> \o resolution_jobs \in Seq(Fds) BY <2>3 DEF Inv, Posted
  <2>5. Posted' BY <2>1, <2>3, <2>4 DEF Inv, Posted
  <2> QED BY <1>0, <2>5 DEF Inv, Table, Keyed, Batched
<1>2. CASE NotifySignal(t) \/ NotifyFails(t)
  <2>1. thread' = [thread EXCEPT ![t] = NoThread] /\ UNCHANGED resolution_jobs
    BY <1>2 DEF NotifySignal, NotifyFails
  <2>2. Posted' BY <2>1 DEF Inv, Posted, NoThread
  <2> QED BY <1>0, <2>2 DEF Inv, Table, Keyed, Batched
<1> QED BY <1>1, <1>2 DEF selector_notify_block

-----------------------------------------------------------------------------
(***************************************************************************)
(* The theorems                                                            *)
(***************************************************************************)
\* The listening socket is registered, and no session is there.
LEMMA InitHolds == Init => Inv
<1> SUFFICES ASSUME Init PROVE Inv OBVIOUS
<1>1. /\ items \in [Fds -> Item]
      /\ items[Listen] = [handler |-> "passive", interest |-> {"read"}, data |-> None]
      /\ \A fd \in Fds \ {Listen} : items[fd] = Unused
  BY Distinct DEF Init, Item, Ops, Unused
<1>2. Used(items) = {Listen} BY <1>1, Distinct DEF Used, Unused
<1>3. epoll = [fd \in Used(items) |-> items[fd].interest] BY <1>1, <1>2 DEF Init
<1>4. DOMAIN session = {} /\ session = [x \in DOMAIN session |-> session[x]]
  BY DEF Init
<1>5. Memory(session) BY <1>4 DEF Memory
<1>6. Owned(items, session) BY <1>1, Distinct DEF Owned, Unused
<1>7. Owns(items, session) BY <1>4 DEF Owns
<1>8. open = Used(items) BY <1>2 DEF Init
<1>9. Agree(items, epoll, open, session)
  BY <1>1, <1>3, <1>5, <1>6, <1>7, <1>8 DEF Agree
<1>10. Fits(items, fd_size, loop = "overrun")
  <2>1. InitialElements \in Nat /\ InitialElements <= ItemsMax BY SelectorAssumption
  <2>2. next_capacity(InitialElements) \in Nat /\ next_capacity(InitialElements) > InitialElements
    BY <2>1, CapacityAbove
  <2> HIDE DEF next_capacity
  <2>3. fd_size = next_capacity(InitialElements)
    BY <2>1, SelectorAssumption DEF Init, ensure_capacity
  <2>4. fd_size \in Nat /\ 0 < fd_size BY <2>1, <2>2, <2>3
  <2> QED BY <1>2, <2>4 DEF Fits, Listen
<1>11. Posted BY DEF Init, Posted, NoThread
<1>12. Keyed /\ Batched /\ loop = "wait" BY DEF Init, Keyed, Batched
<1> QED BY <1>9, <1>10, <1>11, <1>12 DEF Inv, Table

\* Every step keeps the invariant.
LEMMA NextHolds == Inv /\ [Next]_vars => Inv'
<1> SUFFICES ASSUME Inv, [Next]_vars PROVE Inv' OBVIOUS
<1>1. CASE UNCHANGED vars
  BY <1>1 DEF vars, table, Inv, Table, Keyed, Batched, Posted
<1>2. CASE epoll_wait BY <1>2, WaitStep
<1>3. CASE TakeEvent BY <1>3, TakeStep
<1>4. CASE \E op \in {"read", "write"} : SkipEvent(op) \/ HandleEvent(op)
  BY <1>4, SkipStep, HandleStep DEF Ops
<1>5. CASE \E t \in Threads : StartResolve(t) BY <1>5, ResolveStep
<1>6. CASE \E x \in Sessions : socks_passive_read(x) BY <1>6, AcceptStep
<1>7. CASE AcceptEnds BY <1>7, AcceptEndsStep
<1>8. CASE IterationDone BY <1>8, IterationStep
<1>9. CASE handle_block_notifications BY <1>9, BlockStep
<1>10. CASE \E t \in Threads : socks_dns_thread(t)
  BY <1>10, ResolverStep, NotifyStep DEF socks_dns_thread
<1> QED
  BY <1>1, <1>2, <1>3, <1>4, <1>5, <1>6, <1>7, <1>8, <1>9, <1>10
  DEF Next, selector_select, Crashed

\* Whatever the order of events, accepts, closes and resolver steps, the table
\* of the selector agrees with the epoll set, the descriptors and the sessions.
THEOREM Invariance == Spec => []Inv
BY InitHolds, NextHolds, PTL DEF Spec

\* No item outlives its session or its descriptor, no session loses an item,
\* and epoll has the interest that handle_iteration tests.
THEOREM OwnersAgree == Spec => []OwnersMatch
<1>1. Inv => OwnersMatch
  <2> SUFFICES ASSUME Inv PROVE OwnersMatch OBVIOUS
  <2> DEFINE used == {fd \in Fds : ITEM_USED(items[fd])}
  <2>1. used = Used(items) BY DEF Used, ITEM_USED
  <2>2. open = used /\ DOMAIN epoll = used BY <2>1 DEF Inv, Table, Agree
  <2>3. ASSUME NEW fd \in used PROVE epoll[fd] = items[fd].interest
    BY <2>1, <2>3 DEF Inv, Table, Agree
  <2>4. ASSUME NEW fd \in used
        PROVE  CASE items[fd].handler = "client" ->
                      /\ items[fd].data \in DOMAIN session
                      /\ session[items[fd].data].client = fd
                 [] items[fd].handler = "origin" ->
                      /\ items[fd].data \in DOMAIN session
                      /\ session[items[fd].data].origin = fd
                 [] OTHER -> fd = Listen
    <3>1. fd \in Fds /\ items[fd].handler \in {"passive", "client", "origin"}
      BY <2>4 DEF Inv, Table, Agree, Item, ITEM_USED
    <3>2. CASE items[fd].handler = "client"
      BY <3>1, <3>2 DEF Inv, Table, Agree, Owned
    <3>3. CASE items[fd].handler = "origin"
      BY <3>1, <3>3 DEF Inv, Table, Agree, Owned
    <3>4. CASE items[fd].handler = "passive"
      BY <3>1, <3>4 DEF Inv, Table, Agree, Owned
    <3> QED BY <3>1, <3>2, <3>3, <3>4
  <2>5. ASSUME NEW x \in DOMAIN session
        PROVE  {fd \in used : items[fd].data = x} =
                  {session[x].client, session[x].origin} \ {None}
    <3>1. x \in Sessions /\ session[x].client \in Fds /\ session[x].origin \in Fds \cup {None}
      BY <2>5 DEF Inv, Table, Agree, Memory, Fields
    <3>2. ASSUME NEW fd \in used, items[fd].data = x
          PROVE  fd \in {session[x].client, session[x].origin} \ {None}
      <4>1. fd \in Fds /\ items[fd].handler \in {"passive", "client", "origin"}
        BY <3>2 DEF Inv, Table, Agree, Item, ITEM_USED
      <4>2. items[fd].handler # "passive"
        BY <3>1, <3>2, <4>1, Distinct DEF Inv, Table, Agree, Owned
      <4> QED BY <3>2, <4>1, <4>2, Distinct DEF Inv, Table, Agree, Owned
    <3>3. ASSUME NEW fd \in {session[x].client, session[x].origin} \ {None}
          PROVE  fd \in used /\ items[fd].data = x
      BY <2>5, <3>1, <3>3, Distinct DEF Inv, Table, Agree, Owns, ITEM_USED
    <3> QED BY <3>2, <3>3
  <2> QED BY <2>2, <2>3, <2>4, <2>5 DEF OwnersMatch
<1> QED BY <1>1, Invariance, PTL

\* handle_iteration calls no handler with the data of a session that an
\* earlier call freed.
THEOREM HandlersGetOwner == Spec => []HandlerGetsOwner
<1>1. Inv => HandlerGetsOwner
  <2> SUFFICES ASSUME Inv, NEW op \in {"read", "write"}, IsNextOp(op),
                      op \in items[key.fd].interest
               PROVE  /\ key.data = items[key.fd].data
                      /\ key.data \in DOMAIN session \cup {None}
    BY DEF HandlerGetsOwner
  <2>1. key # None BY DEF IsNextOp
  <2>2. key.fd \in Fds /\ items[key.fd].handler # None /\ key.data = items[key.fd].data
    BY <2>1, InterestIsUsed
  <2>3. items[key.fd].handler \in {"passive", "client", "origin"}
    BY <2>2 DEF Inv, Table, Agree, Item
  <2>4. key.data \in DOMAIN session \cup {None}
    BY <2>2, <2>3 DEF Inv, Table, Agree, Owned
  <2> QED BY <2>2, <2>4
<1> QED BY <1>1, Invariance, PTL

\* Whatever the size the table starts with and however many descriptors the
\* process may open, nothing but the registration of the descriptor that
\* equals its size reaches past it.
THEOREM TableInBounds == Spec => []InBounds
<1>1. Inv => InBounds
  <2> SUFFICES ASSUME Inv, loop # "overrun", NEW fd \in Fds, ITEM_USED(items[fd])
               PROVE  fd < fd_size
    BY DEF InBounds
  <2>1. fd \in Used(items) BY DEF Used, ITEM_USED
  <2> QED BY <2>1 DEF Inv, Table, Fits
<1> QED BY <1>1, Invariance, PTL

\* A wake-up that is due is there: nothing takes it back while the loop waits.
LEMMA WakeupStep == Inv /\ NoLostWakeup /\ [Next]_vars => NoLostWakeup'
<1> SUFFICES ASSUME Inv, NoLostWakeup, [Next]_vars, loop' = "wait",
                    resolution_jobs' # <<>>
             PROVE  event_fd' \/ \E t \in Threads : thread'[t].pc = "signal"
  BY DEF NoLostWakeup
<1>1. CASE UNCHANGED vars BY <1>1 DEF vars, table, NoLostWakeup
<1>2. CASE epoll_wait BY <1>2 DEF epoll_wait
<1>3. CASE selector_select /\ ~epoll_wait
  <2>1. CASE handle_block_notifications
    <3>1. CASE resolution_jobs = <<>> BY <2>1, <3>1 DEF handle_block_notifications
    <3>2. CASE resolution_jobs # <<>>
      BY <2>1, <3>2 DEF handle_block_notifications, Become
    <3> QED BY <3>1, <3>2
  <2>2. CASE ~handle_block_notifications
    <3>1. loop = "dispatch" /\ loop' \in {loop, "block", "overrun"}
      BY <1>3, <2>2
      DEF selector_select, TakeEvent, SkipEvent, HandleEvent, StartResolve, IsNextOp,
          socks_passive_read, InPassiveRead, AcceptEnds, IterationDone, Become
    <3> QED BY <3>1
  <2> QED BY <2>1, <2>2
<1>4. ASSUME NEW t \in Threads, socks_dns_thread(t)
      PROVE  event_fd' \/ \E u \in Threads : thread'[u].pc = "signal"
  <2>0. thread \in [Threads -> [pc : {"idle", "resolving", "notify", "signal"},
                                fd : Fds \cup {None}, data : Sessions \cup {None},
                                own : Fds \cup {None}]]
    BY DEF Inv, Posted
  <2>1. CASE NotifyQueue(t)
    <3>1. thread' = [thread EXCEPT ![t].pc = "signal"] BY <2>1 DEF NotifyQueue
    <3>2. thread'[t].pc = "signal" BY <2>0, <3>1
    <3> QED BY <3>2
  <2>2. CASE NotifySignal(t) BY <2>2 DEF NotifySignal
  <2>3. CASE ~NotifyQueue(t) /\ ~NotifySignal(t)
    <3>1. UNCHANGED <<resolution_jobs, event_fd, loop>>
      BY <1>4, <2>3
      DEF socks_dns_thread, selector_notify_block, ResolverOpens, ResolverCloses,
          WriteResult, NotifyFails
    <3>2. event_fd \/ \E u \in Threads : thread[u].pc = "signal"
      BY <3>1 DEF NoLostWakeup
    <3>3. \A u \in Threads : thread[u].pc = "signal" => thread'[u].pc = "signal"
      <4>1. CASE ResolverOpens(t)
        <5>1. PICK fd \in Fds : thread' = [thread EXCEPT ![t].own = fd]
          BY <4>1 DEF ResolverOpens
        <5> QED BY <2>0, <5>1
      <4>2. CASE ResolverCloses(t)
        <5>1. thread' = [thread EXCEPT ![t].own = None] BY <4>2 DEF ResolverCloses
        <5> QED BY <2>0, <5>1
      <4>3. CASE WriteResult(t)
        <5>1. thread' = [thread EXCEPT ![t].pc = "notify"] /\ thread[t].pc = "resolving"
          BY <4>3 DEF WriteResult
        <5> QED BY <2>0, <5>1
      <4>4. CASE NotifyFails(t)
        <5>1. thread' = [thread EXCEPT ![t] = NoThread] /\ thread[t].pc = "notify"
          BY <4>4 DEF NotifyFails
        <5> QED BY <2>0, <5>1
      <4> QED BY <1>4, <2>3, <4>1, <4>2, <4>3, <4>4
              DEF socks_dns_thread, selector_notify_block
    <3> QED BY <3>1, <3>2, <3>3
  <2> QED BY <2>1, <2>2, <2>3
<1> QED BY <1>1, <1>2, <1>3, <1>4 DEF Next, Crashed

\* However resolver threads post their jobs, the loop does not go to sleep
\* on one.
THEOREM NoWakeupIsLost == Spec => []NoLostWakeup
<1>1. Init => NoLostWakeup BY DEF Init, NoLostWakeup
<1> QED BY <1>1, Invariance, WakeupStep, PTL DEF Spec
=============================================================================
