------------------------ MODULE SocksSession_proofs ------------------------
(***************************************************************************)
(* One session keeps both byte streams, its replies, its interests, its    *)
(* counters and its log entry right, for every buffer size, every number   *)
(* of bytes, addresses and connections, whatever the kernel answers.       *)
(*                                                                         *)
(* The invariant speaks of a session t, as the handlers chain functions    *)
(* that take one session to the next; At adds what depends on where        *)
(* the selector thread is.                                                 *)
(***************************************************************************)
EXTENDS SocksSession, SequenceTheorems, FiniteSetTheorems, TLAPS

Interests == SUBSET {"R", "W"}

Bytes(V) == [q : Seq(V), off : Nat]

Entry ==
    [active : BOOLEAN, username : BOOLEAN, host : BOOLEAN,
     phase : {"AUTH", "CONNECTING", "RELAY"},
     bytes_up : Nat, bytes_down : Nat, log : LogState]

Shape ==
    [open : BOOLEAN, stm : SocksState,
     c2o : Bytes(1..CStream), o2c : Bytes(Unit),
     close_after_flush : BOOLEAN, ttl_expired : BOOLEAN,
     client_i : Interests, origin_i : Interests, origin_fd : BOOLEAN,
     dns_resolving : BOOLEAN, dns_result : 0..Addrs, dns_cursor : 0..Addrs,
     store_id : BOOLEAN,
     node : Entry,
     sent : 0..CStream, parsed : 0..CStream, got : 0..OStream,
     to_client : Seq(Unit), to_origin : Seq(1..CStream)]

\* What the client was or will be sent, and what the origin was or will be.
Down(t) == t.to_client \o t.o2c.q
Up(t) == t.to_origin \o t.c2o.q

Has(q, k) == \E i \in DOMAIN q : q[i].kind = k

\* Replies, then the first got bytes of the origin.
DataLast(q, got) ==
    LET k == Len(q) - got
    IN  /\ k >= 0
        /\ \A i \in 1..k : q[i].kind # "data"
        /\ \A i \in 1..got : q[k + i] = [kind |-> "data", n |-> i]

\* The two buffers do not overflow, and o2c is always compacted.
Room(t) ==
    /\ t.c2o.off + Len(t.c2o.q) <= Cap
    /\ t.o2c.off = 0
    /\ Len(t.o2c.q) <= Cap

\* A session that expired before RELAY, the only one that is DONE and may
\* still have an origin.
Late(t) == t.stm = "DONE" /\ t.ttl_expired

\* How many replies were queued.
MaxReplies(t) ==
    CASE t.stm = "AUTH_GREETING" -> 0
      [] t.stm = "AUTH_USERPASS" -> 1
      [] t.stm \in {"REQUEST", "RESOLVING", "ORIGIN_CONNECTING"} -> 2
      [] OTHER -> IF t.ttl_expired THEN 4 ELSE 3

\* What a session may hold in each state of its machine.
Mode(t) ==
    /\ t.stm # "RELAY" /\ ~Late(t) => t.to_origin = << >> /\ t.got = 0
    /\ t.stm \notin {"ORIGIN_CONNECTING", "RELAY"} /\ ~Late(t) => t.origin_i = {}
    /\ t.stm = "ORIGIN_CONNECTING" => t.origin_i \subseteq {"W"}
    /\ t.stm \in {"REQUEST", "RESOLVING", "ORIGIN_CONNECTING"} => t.node.username
    /\ t.open /\ t.close_after_flush => t.stm = "DONE"

Slot(t) ==
    /\ t.node.active <=> t.store_id
    /\ t.open /\ ~t.store_id => t.stm = "DONE" /\ t.origin_i = {}
    /\ ~t.open => ~t.store_id /\ ~t.origin_fd /\ t.origin_i = {}

Counted(t) ==
    /\ t.node.bytes_up = Len(t.to_origin)
    /\ t.node.bytes_down = t.got

Logged(t) ==
    /\ t.node.host <=> t.node.log # "NONE"
    /\ t.open => t.node.log = IF t.stm = "RELAY" THEN "CONNECTED" ELSE "NONE"
    /\ ~t.open /\ t.node.log # "NONE" =>
          t.node.log = IF t.ttl_expired THEN "TTL_EXPIRED" ELSE "CLOSED"
    /\ t.node.log # "NONE" <=> Has(Down(t), "connect_ok")

\* A session that has not expired answered at most once, last of its replies.
Answered(q, got, stm) ==
    LET k == Len(q) - got
    IN  /\ \A i \in 1..(k - 1) : q[i].kind \notin ConnectReply
        /\ stm \notin {"RELAY", "DONE"} =>
              \A i \in 1..k : q[i].kind \notin ConnectReply
        /\ stm = "RELAY" => k >= 1 /\ q[k].kind = "connect_ok"

Sound(t) ==
    /\ t \in Shape
    /\ t.parsed <= t.sent
    /\ Up(t) = ClientBytes(t.parsed, t.sent - t.parsed)
    /\ DataLast(Down(t), t.got)
    /\ Len(Down(t)) - t.got <= MaxReplies(t)
    /\ Room(t) /\ Mode(t) /\ Slot(t) /\ Counted(t) /\ Logged(t)
    /\ ~t.ttl_expired => Answered(Down(t), t.got, t.stm)
    /\ t.ttl_expired => Timeouts

\* Where the selector thread is.
InHandler == {"drain", "tail", "connect", "reconnect"}

Synced(t) == t.client_i = socks_client_interest(t)

Armed(t) ==
    /\ "W" \in t.origin_i <=> buffer_can_read(t.c2o)
    /\ "R" \in t.origin_i => buffer_can_write(t.o2c)

\* A name's next address is being tried, or the session expired.
Forgotten(t) == t.dns_cursor \in 1..(t.dns_result - 1) \/ t.ttl_expired

Flushed(t) == t.close_after_flush /\ ~Forgotten(t) => buffer_can_read(t.o2c)

\* What a handler has established when the selector thread is at p with t.
At(t, p) ==
    /\ p \in {"select"} \cup InHandler \cup Crashed
    /\ p \in InHandler => t.open /\ t.stm # "RELAY"
    /\ p = "drain" => t.stm \in Parsing /\ t.c2o.q # << >>
    /\ p = "connect" => t.stm \in {"REQUEST", "RESOLVING"}
    /\ p = "reconnect" =>
          /\ t.stm = "ORIGIN_CONNECTING" /\ t.origin_i = {}
          /\ t.dns_cursor \in 1..(t.dns_result - 1)
    /\ p \in {"select", "reconnect"} /\ t.open => Synced(t)
    /\ p = "select" /\ t.open => (t.stm = "RELAY" => Armed(t)) /\ Flushed(t)

\* The addresses of a name that are left, and a thread that has not stored its
\* list yet: the session it writes into still has none.
Resolved(t, th) ==
    /\ t.dns_cursor <= t.dns_result
    /\ t.open /\ th \in {"running", "done"} => t.dns_result = 0

Inv ==
    /\ Sound(s)
    /\ At(s, pc)
    /\ Resolved(s, thread[conn])
    /\ conn \in 1..MaxConns
    /\ thread \in [1..MaxConns -> {"none", "running", "done", "published"}]
    /\ jobs \in Nat

-----------------------------------------------------------------------------
(***************************************************************************)
(* Sequences                                                               *)
(***************************************************************************)
\* ClientBytes(lo, n) are the n bytes behind the first lo.
LEMMA ClientBytesSeq ==
    ASSUME NEW lo \in Nat, NEW n \in Nat, lo + n <= CStream
    PROVE  /\ ClientBytes(lo, n) \in Seq(1..CStream)
           /\ Len(ClientBytes(lo, n)) = n
           /\ \A i \in 1..n : ClientBytes(lo, n)[i] = lo + i
<1>1. \A i \in 1..n : lo + i \in 1..CStream
  BY SessionAssumption
<1> QED
  BY <1>1, SessionAssumption DEF ClientBytes

\* What is read next continues what was read before.
LEMMA ClientBytesJoin ==
    ASSUME NEW lo \in Nat, NEW m \in Nat, NEW n \in Nat, lo + m + n <= CStream
    PROVE  ClientBytes(lo, m) \o ClientBytes(lo + m, n) = ClientBytes(lo, m + n)
<1> DEFINE a == ClientBytes(lo, m)
           b == ClientBytes(lo + m, n)
           c == ClientBytes(lo, m + n)
<1>1. /\ a \in Seq(1..CStream) /\ Len(a) = m /\ \A i \in 1..m : a[i] = lo + i
      /\ b \in Seq(1..CStream) /\ Len(b) = n /\ \A i \in 1..n : b[i] = lo + m + i
      /\ c \in Seq(1..CStream) /\ Len(c) = m + n /\ \A i \in 1..(m + n) : c[i] = lo + i
  <2>1. lo + m <= CStream /\ lo + m \in Nat /\ (lo + m) + n <= CStream /\ m + n \in Nat
        /\ lo + (m + n) <= CStream
    BY SessionAssumption
  <2> QED
    BY <2>1, ClientBytesSeq
<1> HIDE DEF a, b, c
<1>2. /\ a \o b \in Seq(1..CStream) /\ Len(a \o b) = m + n
      /\ \A i \in 1..(m + n) : (a \o b)[i] = IF i <= m THEN a[i] ELSE b[i - m]
  BY <1>1, ConcatProperties, ZenonT(30)
<1>3. \A i \in 1..(m + n) : (a \o b)[i] = c[i]
  BY <1>1, <1>2, SMTT(30)
<1>4. a \o b = c
  BY <1>1, <1>2, <1>3, SeqEqual, SMTT(30)
<1> QED
  BY <1>4 DEF a, b, c

\* A byte taken from the front leaves the bytes behind it.
LEMMA ClientBytesTail ==
    ASSUME NEW lo \in Nat, NEW n \in Nat \ {0}, lo + n <= CStream
    PROVE  SubSeq(ClientBytes(lo, n), 2, n) = ClientBytes(lo + 1, n - 1)
<1> DEFINE a == ClientBytes(lo, n)
           b == ClientBytes(lo + 1, n - 1)
           c == SubSeq(a, 2, n)
<1>1. /\ a \in Seq(1..CStream) /\ Len(a) = n /\ \A i \in 1..n : a[i] = lo + i
      /\ b \in Seq(1..CStream) /\ Len(b) = n - 1 /\ \A i \in 1..(n - 1) : b[i] = lo + 1 + i
  <2>1. n - 1 \in Nat /\ lo + 1 \in Nat /\ (lo + 1) + (n - 1) <= CStream
    BY SessionAssumption
  <2> QED
    BY <2>1, ClientBytesSeq
<1> HIDE DEF a, b
<1>2. \A i \in 2..n : a[i] \in 1..CStream
  <2>1. a \in [1..n -> 1..CStream]
    BY <1>1, LenProperties
  <2> QED
    BY <2>1
<1>3. /\ c \in Seq(1..CStream) /\ Len(c) = n - 1
      /\ \A i \in 1..(n - 1) : c[i] = a[i + 1]
  <2>1. /\ c \in Seq(1..CStream) /\ Len(c) = IF 2 <= n THEN n - 2 + 1 ELSE 0
        /\ \A i \in 1..(n - 2 + 1) : c[i] = a[2 + i - 1]
    BY <1>2, SubSeqProperties
  <2> QED
    BY <2>1
<1>4. \A i \in 1..(n - 1) : c[i] = b[i]
  BY <1>1, <1>3
<1>5. c = b
  BY <1>1, <1>3, <1>4, SeqEqual
<1> QED
  BY <1>5 DEF a, b

\* A partial write moves a front part of the buffer behind what was written.
Moves(S, x, q, k) ==
    /\ SubSeq(q, k + 1, Len(q)) \in Seq(S)
    /\ Len(SubSeq(q, k + 1, Len(q))) = Len(q) - k
    /\ x \o SubSeq(q, 1, k) \in Seq(S)
    /\ Len(x \o SubSeq(q, 1, k)) = Len(x) + k
    /\ (x \o SubSeq(q, 1, k)) \o SubSeq(q, k + 1, Len(q)) = x \o q

\* It changes neither the elements nor their order.
LEMMA MoveFront ==
    ASSUME NEW S, NEW x \in Seq(S), NEW q \in Seq(S), NEW k \in 0..Len(q)
    PROVE  Moves(S, x, q, k)
<1> DEFINE front == SubSeq(q, 1, k)
           rest == SubSeq(q, k + 1, Len(q))
<1>0. Len(q) \in Nat /\ k \in Nat /\ k <= Len(q) /\ \A i \in 1..Len(q) : q[i] \in S
  BY LenProperties, ElementOfSeq
<1>1. front \in Seq(S) /\ Len(front) = k
  <2>1. \A i \in 1..k : q[i] \in S
    BY <1>0
  <2>2. front \in Seq(S) /\ Len(front) = IF 1 <= k THEN k - 1 + 1 ELSE 0
    BY <2>1, <1>0, SubSeqProperties
  <2> QED
    BY <2>2, <1>0
<1>2. rest \in Seq(S) /\ Len(rest) = Len(q) - k
  <2>1. \A i \in (k + 1)..Len(q) : q[i] \in S
    BY <1>0
  <2>2. rest \in Seq(S) /\ Len(rest) = IF k + 1 <= Len(q) THEN Len(q) - (k + 1) + 1 ELSE 0
    BY <2>1, <1>0, SubSeqProperties
  <2> QED
    BY <2>2, <1>0
<1>3. front \o rest = q
  <2>1. front \o rest = SubSeq(q, 1, Len(q))
    <3>1. 1 \in 1..(Len(q) + 1) /\ k \in (1 - 1)..Len(q) /\ Len(q) \in k..Len(q)
      BY <1>0
    <3> QED
      BY <3>1, ConcatAdjacentSubSeq
  <2> QED
    BY <2>1, SubSeqFull
<1> HIDE DEF front, rest
<1>4. (x \o front) \o rest = x \o (front \o rest)
  BY <1>1, <1>2, ConcatAssociative, SMTT(30)
<1>5. x \o front \in Seq(S) /\ Len(x \o front) = Len(x) + k
  BY <1>1, ConcatProperties
<1> QED
  BY <1>1, <1>2, <1>3, <1>4, <1>5 DEF front, rest, Moves

-----------------------------------------------------------------------------
(***************************************************************************)
(* Streams to the client                                                   *)
(***************************************************************************)
\* A reply goes behind what is queued.
LEMMA AppendReply ==
    ASSUME NEW q \in Seq(Unit), NEW k \in Kinds
    PROVE  LET r == q \o <<Reply(k)>>
           IN  /\ <<Reply(k)>> \in Seq(Unit) /\ Len(<<Reply(k)>>) = 1
               /\ r \in Seq(Unit) /\ Len(r) = Len(q) + 1
               /\ \A i \in 1..Len(q) : r[i] = q[i]
               /\ r[Len(q) + 1].kind = k
<1>0. Len(q) \in Nat
  BY LenProperties
<1>1. Reply(k) \in Unit /\ Reply(k).kind = k
  BY SessionAssumption DEF Reply, Unit
<1>2. <<Reply(k)>> \in Seq(Unit) /\ Len(<<Reply(k)>>) = 1 /\ <<Reply(k)>>[1] = Reply(k)
  BY <1>1
<1> DEFINE d == <<Reply(k)>>
           r == q \o d
<1> HIDE DEF d
<1>3. /\ r \in Seq(Unit) /\ Len(r) = Len(q) + 1
      /\ \A i \in 1..(Len(q) + 1) : r[i] = IF i <= Len(q) THEN q[i] ELSE d[i - Len(q)]
  BY <1>2, ConcatProperties DEF d
<1>4. r[Len(q) + 1] = d[1]
  BY <1>0, <1>3
<1>5. \A i \in 1..Len(q) : r[i] = q[i]
  BY <1>0, <1>3
<1> QED
  BY <1>1, <1>2, <1>3, <1>4, <1>5 DEF d

\* While the origin has sent nothing, replies come one behind the other.
LEMMA ReplyStreams ==
    ASSUME NEW q \in Seq(Unit), NEW k \in Kinds \ {"data"}, DataLast(q, 0)
    PROVE  LET r == q \o <<Reply(k)>>
           IN  /\ DataLast(r, 0)
               /\ \A j : Has(r, j) <=> Has(q, j) \/ j = k
               /\ Answered(q, 0, "REQUEST") /\ k \notin ConnectReply =>
                     \A m \in SocksState \ {"RELAY"} : Answered(r, 0, m)
               /\ Answered(q, 0, "REQUEST") => Answered(r, 0, "DONE")
               /\ Answered(q, 0, "REQUEST") /\ k = "connect_ok" =>
                     Answered(r, 0, "RELAY")
<1> DEFINE r == q \o <<Reply(k)>>
<1>1. /\ r \in Seq(Unit) /\ Len(r) = Len(q) + 1
      /\ \A i \in 1..Len(q) : r[i] = q[i]
      /\ r[Len(q) + 1].kind = k
      /\ Len(q) \in Nat
      /\ DOMAIN q = 1..Len(q) /\ DOMAIN r = 1..(Len(q) + 1)
  BY AppendReply, LenProperties
<1> HIDE DEF r
<1>2. DataLast(r, 0)
  BY <1>1 DEF DataLast
<1>3. \A j : Has(r, j) <=> Has(q, j) \/ j = k
  BY <1>1 DEF Has
<1>4. ASSUME Answered(q, 0, "REQUEST")
      PROVE  \A i \in 1..Len(q) : r[i].kind \notin ConnectReply
  BY <1>1, <1>4 DEF Answered
<1>5. ASSUME Answered(q, 0, "REQUEST"), k \notin ConnectReply,
             NEW m \in SocksState \ {"RELAY"}
      PROVE  Answered(r, 0, m)
  BY <1>1, <1>4, <1>5 DEF Answered
<1>6. ASSUME Answered(q, 0, "REQUEST")
      PROVE  Answered(r, 0, "DONE") /\ (k = "connect_ok" => Answered(r, 0, "RELAY"))
  BY <1>1, <1>4, <1>6 DEF Answered
<1> QED
  BY <1>2, <1>3, <1>5, <1>6 DEF r

\* Bytes of the origin go behind the earlier ones.
LEMMA DataStreams ==
    ASSUME NEW q \in Seq(Unit), NEW got \in Nat, NEW n \in Nat,
           got + n <= OStream, DataLast(q, got)
    PROVE  LET d == OriginBytes(got, n)
               r == q \o d
           IN  /\ d \in Seq(Unit) /\ Len(d) = n
               /\ r \in Seq(Unit) /\ Len(r) = Len(q) + n
               /\ DataLast(r, got + n)
               /\ Has(r, "connect_ok") <=> Has(q, "connect_ok")
               /\ \A m : Answered(q, got, m) => Answered(r, got + n, m)
<1> DEFINE d == OriginBytes(got, n)
           r == q \o d
<1>1. /\ d \in Seq(Unit) /\ Len(d) = n
      /\ \A i \in 1..n : d[i] = [kind |-> "data", n |-> got + i]
  <2>1. \A i \in 1..n : [kind |-> "data", n |-> got + i] \in Unit
    BY SessionAssumption DEF Unit, Kinds
  <2>2. d \in [1..n -> Unit] /\ \A i \in 1..n : d[i] = [kind |-> "data", n |-> got + i]
    BY <2>1 DEF OriginBytes
  <2> HIDE DEF d
  <2> QED
    BY <2>2
<1>0. Len(q) \in Nat /\ DOMAIN q = 1..Len(q)
  BY LenProperties
<1> HIDE DEF d
<1>2. /\ r \in Seq(Unit) /\ Len(r) = Len(q) + n
      /\ \A i \in 1..(Len(q) + n) : r[i] = IF i <= Len(q) THEN q[i] ELSE d[i - Len(q)]
  BY <1>1, ConcatProperties
<1>3. DOMAIN r = 1..(Len(q) + n)
  BY <1>2, LenProperties
<1>4. \A i \in 1..Len(q) : r[i] = q[i]
  BY <1>0, <1>2
<1>5. \A i \in 1..n : r[Len(q) + i] = [kind |-> "data", n |-> got + i]
  BY <1>0, <1>1, <1>2
<1> HIDE DEF r
<1> DEFINE k == Len(q) - got
<1>6. /\ k \in Nat /\ k + got = Len(q) /\ k = Len(r) - (got + n)
      /\ \A i \in 1..k : q[i].kind # "data"
      /\ \A i \in 1..got : q[k + i] = [kind |-> "data", n |-> i]
  BY <1>0, <1>2 DEF DataLast
<1>7. \A i \in 1..k : r[i] = q[i]
  BY <1>0, <1>4, <1>6
<1>71. k \in Nat /\ k + got = Len(q) /\ k = Len(r) - (got + n)
  BY <1>6
<1>8. DataLast(r, got + n)
  <2>1. \A i \in 1..(got + n) : r[k + i] = [kind |-> "data", n |-> i]
    <3> SUFFICES ASSUME NEW i \in 1..(got + n)
                 PROVE  r[k + i] = [kind |-> "data", n |-> i]
      OBVIOUS
    <3> HIDE DEF k
    <3>1. CASE i <= got
      <4>1. k + i \in 1..Len(q) /\ i \in 1..got
        BY <1>0, <1>6, <3>1
      <4> QED
        BY <1>4, <1>6, <4>1
    <3>2. CASE i > got
      <4>1. i - got \in 1..n /\ k + i = Len(q) + (i - got) /\ got + (i - got) = i
        BY <1>0, <1>71, <3>2
      <4> QED
        BY <1>5, <4>1
    <3> QED
      BY <3>1, <3>2
  <2> QED
    BY <1>6, <1>7, <2>1 DEF DataLast
<1>9. Has(r, "connect_ok") <=> Has(q, "connect_ok")
  <2>1. \A i \in 1..(Len(q) + n) : i <= Len(q) \/ r[i].kind = "data"
    <3> SUFFICES ASSUME NEW i \in 1..(Len(q) + n), i > Len(q)
                 PROVE  r[i].kind = "data"
      BY <1>0
    <3> DEFINE j == i - Len(q)
    <3>1. j \in 1..n /\ i = Len(q) + j
      BY <1>0
    <3> HIDE DEF j
    <3>2. r[Len(q) + j].kind = "data"
      <4>1. r[Len(q) + j] = [kind |-> "data", n |-> got + j]
        BY <1>5, <3>1, Zenon
      <4> QED
        BY <4>1
    <3> QED
      BY <3>1, <3>2
  <2> QED
    BY <1>0, <1>3, <1>4, <2>1 DEF Has
<1>10. ASSUME NEW m, Answered(q, got, m)
       PROVE  Answered(r, got + n, m)
  <2>1. /\ \A i \in 1..(k - 1) : q[i].kind \notin ConnectReply
        /\ m \notin {"RELAY", "DONE"} => \A i \in 1..k : q[i].kind \notin ConnectReply
        /\ m = "RELAY" => k >= 1 /\ q[k].kind = "connect_ok"
    BY <1>10 DEF Answered
  <2> HIDE DEF k
  <2>2. \A i \in 1..(k - 1) : r[i] = q[i]
    BY <1>7, <1>71
  <2>3. k >= 1 => r[k] = q[k]
    BY <1>7, <1>71
  <2>4. /\ \A i \in 1..(k - 1) : r[i].kind \notin ConnectReply
        /\ m \notin {"RELAY", "DONE"} => \A i \in 1..k : r[i].kind \notin ConnectReply
        /\ m = "RELAY" => k >= 1 /\ r[k].kind = "connect_ok"
    BY <1>7, <2>1, <2>2, <2>3
  <2> QED
    BY <1>71, <2>4 DEF Answered
<1> QED
  BY <1>1, <1>2, <1>8, <1>9, <1>10 DEF d, r

-----------------------------------------------------------------------------
(***************************************************************************)
(* Functions of the handlers                                               *)
(***************************************************************************)
\* All that Sound looks at, but for the shape of the record and the room in
\* its buffers.
Core(t) ==
    <<t.open, t.stm, t.close_after_flush, t.ttl_expired, t.origin_i,
      t.origin_fd, t.store_id, t.node, t.sent, t.parsed, t.got, t.to_origin,
      Up(t), Down(t)>>

\* Equal cores are equal part by part.
LEMMA SameCore ==
    ASSUME NEW t, NEW u, Core(u) = Core(t)
    PROVE  /\ u.open = t.open /\ u.stm = t.stm
           /\ u.close_after_flush = t.close_after_flush
           /\ u.ttl_expired = t.ttl_expired /\ u.origin_i = t.origin_i
           /\ u.origin_fd = t.origin_fd /\ u.store_id = t.store_id
           /\ u.node = t.node /\ u.sent = t.sent /\ u.parsed = t.parsed
           /\ u.got = t.got /\ u.to_origin = t.to_origin
           /\ Up(u) = Up(t) /\ Down(u) = Down(t)
BY DEF Core

\* A function that keeps the core keeps the session sound.
LEMMA CoreKept ==
    ASSUME NEW t, Sound(t), NEW u \in Shape, Core(u) = Core(t), Room(u)
    PROVE  Sound(u)
BY SameCore DEF Sound, MaxReplies, Mode, Late, Slot, Counted, Logged

\* Setting the interest of the client brings it up to date and does no more.
LEMMA InterestKept ==
    ASSUME NEW t, Sound(t)
    PROVE  LET u == set_client_interest(t)
           IN  /\ Sound(u) /\ Core(u) = Core(t) /\ u.c2o = t.c2o /\ u.o2c = t.o2c
               /\ u.open => u.client_i = socks_client_interest(u)
<1> DEFINE i == socks_client_interest(t)
           u == [t EXCEPT !.client_i = i]
<1>1. i \in Interests
  BY DEF socks_client_interest, Interests
<1>2. t \in Shape /\ Room(t)
  BY DEF Sound
<1> HIDE DEF i
<1>3. u \in Shape /\ u.client_i = i /\ Core(u) = Core(t) /\ u.c2o = t.c2o /\ u.o2c = t.o2c
  BY <1>1, <1>2 DEF Shape, Core, Up, Down
<1>4. Room(u)
  BY <1>2, <1>3 DEF Room
<1>5. Sound(u)
  BY <1>3, <1>4, CoreKept
<1>6. socks_client_interest(u) = i
  BY <1>3 DEF socks_client_interest, i
<1> QED
  BY <1>3, <1>5, <1>6, SameCore DEF set_client_interest, i

\* client_close frees the slot and the origin, and leaves the right entry.
LEMMA CloseSound ==
    ASSUME NEW t, Sound(t), t.open
    PROVE  /\ Sound(socks_client_close(t))
           /\ ~socks_client_close(t).open
           /\ socks_client_close(t).stm = t.stm
           /\ socks_client_close(t).parsed = t.parsed
           /\ socks_client_close(t).got = t.got
           /\ socks_client_close(t).to_origin = t.to_origin
<1> DEFINE log == IF t.node.log = "NONE" THEN "NONE"
                  ELSE IF t.ttl_expired THEN "TTL_EXPIRED" ELSE "CLOSED"
           n == [t.node EXCEPT !.active = FALSE, !.log = log]
           logged == IF ~t.store_id THEN t
                     ELSE IF t.ttl_expired THEN store_session_mark_ttl_expired(t)
                     ELSE store_session_end(t)
           u == socks_client_close(t)
<1>0. t \in Shape /\ Slot(t) /\ Logged(t) /\ Room(t) /\ Mode(t) /\ Counted(t)
  BY DEF Sound
<1>1. t.node.host \in BOOLEAN /\ t.node.log \in LogState /\ (t.node.host <=> t.node.log # "NONE")
  BY <1>0 DEF Shape, Entry, Logged
<1>2. logged = [t EXCEPT !.store_id = FALSE, !.node = n]
  <2>1. CASE ~t.store_id
    <3>1. t.store_id = FALSE /\ t.node.active = FALSE /\ t.node.log = "NONE"
      BY <1>0, <2>1 DEF Shape, Entry, Slot, Logged
    <3>2. n = t.node
      BY <1>0, <3>1 DEF Shape, Entry
    <3> QED
      BY <1>0, <2>1, <3>1, <3>2 DEF Shape
  <2>2. CASE t.store_id /\ t.ttl_expired
    BY <1>0, <1>1, <2>2
       DEF Shape, Entry, store_session_mark_ttl_expired, store_session_remove
  <2>3. CASE t.store_id /\ ~t.ttl_expired
    BY <1>0, <1>1, <2>3 DEF Shape, Entry, store_session_end, store_session_remove
  <2> QED
    BY <2>1, <2>2, <2>3
<1>3. u = [logged EXCEPT !.origin_fd = FALSE, !.origin_i = {}, !.open = FALSE,
                         !.client_i = {}, !.dns_result = 0, !.dns_cursor = 0]
  BY <1>0, <1>2 DEF socks_client_close, socks_session_destroy_origin, Shape
<1>4. log \in LogState
  BY DEF LogState
<1>5. /\ n \in Entry
      /\ n.active = FALSE /\ n.log = log /\ n.host = t.node.host
      /\ n.username = t.node.username
      /\ n.bytes_up = t.node.bytes_up /\ n.bytes_down = t.node.bytes_down
  BY <1>0, <1>4 DEF Shape, Entry
<1> HIDE DEF n, logged, u
<1>6. /\ u \in Shape
      /\ u.open = FALSE /\ u.stm = t.stm /\ u.ttl_expired = t.ttl_expired
      /\ u.store_id = FALSE /\ u.origin_fd = FALSE /\ u.origin_i = {} /\ u.node = n
      /\ u.sent = t.sent /\ u.parsed = t.parsed /\ u.got = t.got
      /\ u.to_origin = t.to_origin /\ u.to_client = t.to_client
      /\ u.c2o = t.c2o /\ u.o2c = t.o2c
  <2>1. {} \in Interests /\ 0 \in 0..Addrs
    BY SessionAssumption DEF Interests
  <2> QED
    BY <1>0, <1>2, <1>3, <1>5, <2>1 DEF Shape
<1>7. Up(u) = Up(t) /\ Down(u) = Down(t) /\ Room(u) /\ Late(u) = Late(t)
      /\ MaxReplies(u) = MaxReplies(t)
  BY <1>0, <1>6 DEF Up, Down, Room, Late, MaxReplies
<1>8. Mode(u)
  BY <1>0, <1>5, <1>6, <1>7 DEF Mode
<1>9. Slot(u) /\ Counted(u)
  BY <1>0, <1>5, <1>6 DEF Slot, Counted
<1>10. Logged(u)
  BY <1>0, <1>5, <1>6, <1>7 DEF Logged
<1>11. Sound(u)
  BY <1>6, <1>7, <1>8, <1>9, <1>10 DEF Sound
<1> QED
  BY <1>6, <1>11 DEF u

\* A write() to the client of any size, or one that fails.
LEMMA FlushClient ==
    ASSUME NEW t, Sound(t), t.open, NEW u \in socks_flush_client(t)
    PROVE  /\ Sound(u) /\ u.stm = t.stm /\ u.parsed = t.parsed
           /\ u.got = t.got /\ u.to_origin = t.to_origin
           /\ u.open => /\ Core(u) = Core(t) /\ u.c2o = t.c2o
                        /\ u.client_i = t.client_i
                        /\ buffer_can_write(t.o2c) => buffer_can_write(u.o2c)
<1>0. t \in Shape /\ Room(t)
  BY DEF Sound
<1>1. t.o2c.q \in Seq(Unit) /\ t.to_client \in Seq(Unit) /\ Len(t.o2c.q) \in Nat
  BY <1>0 DEF Shape, Bytes
<1>2. CASE u = t
  BY <1>2
<1>3. ASSUME NEW k \in 1..Len(t.o2c.q),
             u = [t EXCEPT !.to_client = @ \o buffer_peek(t.o2c, k),
                           !.o2c = buffer_compact(buffer_read_adv(@, k))]
      PROVE  /\ Sound(u) /\ Core(u) = Core(t) /\ u.c2o = t.c2o
             /\ u.client_i = t.client_i
             /\ buffer_can_write(t.o2c) => buffer_can_write(u.o2c)
  <2> DEFINE x == t.to_client \o SubSeq(t.o2c.q, 1, k)
             r == SubSeq(t.o2c.q, k + 1, Len(t.o2c.q))
             b == [q |-> r, off |-> 0]
  <2>1. u = [t EXCEPT !.to_client = x, !.o2c = b]
    BY <1>0, <1>3 DEF Shape, buffer_peek, buffer_compact, buffer_read_adv
  <2>2. /\ x \in Seq(Unit) /\ r \in Seq(Unit) /\ Len(r) = Len(t.o2c.q) - k
        /\ x \o r = t.to_client \o t.o2c.q
    <3>1. k \in 0..Len(t.o2c.q)
      BY <1>1
    <3>2. Moves(Unit, t.to_client, t.o2c.q, k)
      BY <1>1, <3>1, MoveFront, Zenon
    <3> QED
      BY <3>2 DEF Moves
  <2>3. /\ b \in Bytes(Unit) /\ b.q = r /\ b.off = 0
    BY <2>2 DEF Bytes
  <2> HIDE DEF x, r, b
  <2>4. /\ u \in Shape /\ u.to_client = x /\ u.o2c = b
        /\ u.c2o = t.c2o /\ u.client_i = t.client_i
    BY <1>0, <2>1, <2>2, <2>3, ZenonT(30) DEF Shape
  <2>5. Down(u) = Down(t)
    BY <2>2, <2>3, <2>4 DEF Down
  <2>6. Core(u) = Core(t)
    BY <1>0, <2>1, <2>5 DEF Shape, Core, Up
  <2>7. Room(u)
    BY <1>0, <1>1, <2>2, <2>3, <2>4, CapAssumption DEF Room
  <2>8. buffer_can_write(t.o2c) => buffer_can_write(u.o2c)
    BY <1>0, <1>1, <2>2, <2>3, <2>4, CapAssumption DEF buffer_can_write, buffer_space, Room
  <2> QED
    BY <2>4, <2>6, <2>7, <2>8, CoreKept
<1>4. CASE u = socks_client_close(t)
  BY <1>4, CloseSound
<1>5. \/ u = t \/ u = socks_client_close(t)
      \/ \E k \in 1..Len(t.o2c.q) :
            u = [t EXCEPT !.to_client = @ \o buffer_peek(t.o2c, k),
                          !.o2c = buffer_compact(buffer_read_adv(@, k))]
  <2>1. CASE u = socks_client_close(t)
    BY <2>1
  <2>2. CASE u # socks_client_close(t)
    <3>1. PICK k \in 0..Len(t.o2c.q) :
             u = IF k = 0 THEN t
                 ELSE [t EXCEPT !.to_client = @ \o buffer_peek(t.o2c, k),
                                !.o2c = buffer_compact(buffer_read_adv(@, k))]
      BY <2>2 DEF socks_flush_client
    <3>2. k # 0 => k \in 1..Len(t.o2c.q)
      BY <1>1
    <3> QED
      BY <3>1, <3>2
  <2> QED
    BY <2>1, <2>2
<1>6. Core(u) = Core(t) => /\ u.stm = t.stm /\ u.parsed = t.parsed
                           /\ u.got = t.got /\ u.to_origin = t.to_origin
  BY SameCore
<1> QED
  BY <1>2, <1>3, <1>4, <1>5, <1>6

\* A write() to the origin of any size, or one that fails.
LEMMA FlushOrigin ==
    ASSUME NEW t, Sound(t), t.open, t.store_id, t.stm = "RELAY" \/ Late(t),
           NEW u \in socks_flush_origin(t)
    PROVE  /\ Sound(u) /\ u.stm = t.stm
           /\ u.open => /\ u.store_id = t.store_id /\ u.o2c = t.o2c
                        /\ u.ttl_expired = t.ttl_expired
                        /\ u.close_after_flush = t.close_after_flush
<1>0. t \in Shape /\ Room(t) /\ Mode(t) /\ Slot(t) /\ Logged(t) /\ Counted(t)
  BY DEF Sound
<1>1. /\ t.c2o.q \in Seq(1..CStream) /\ t.to_origin \in Seq(1..CStream)
      /\ Len(t.c2o.q) \in Nat /\ Len(t.to_origin) \in Nat
  BY <1>0 DEF Shape, Bytes
<1>2. CASE u = t
  BY <1>2
<1>3. ASSUME NEW k \in 1..Len(t.c2o.q),
             u = [t EXCEPT !.to_origin = @ \o buffer_peek(t.c2o, k),
                           !.c2o = buffer_compact(buffer_read_adv(@, k)),
                           !.node.bytes_up = IF t.store_id THEN @ + k ELSE @]
      PROVE  /\ Sound(u) /\ u.stm = t.stm /\ u.store_id = t.store_id /\ u.o2c = t.o2c
             /\ u.ttl_expired = t.ttl_expired
             /\ u.close_after_flush = t.close_after_flush
  <2> DEFINE x == t.to_origin \o SubSeq(t.c2o.q, 1, k)
             r == SubSeq(t.c2o.q, k + 1, Len(t.c2o.q))
             b == [q |-> r, off |-> 0]
             n == [t.node EXCEPT !.bytes_up = @ + k]
  <2>1. u = [t EXCEPT !.to_origin = x, !.c2o = b, !.node = n]
    BY <1>0, <1>3 DEF Shape, Entry, buffer_peek, buffer_compact, buffer_read_adv
  <2>2. /\ x \in Seq(1..CStream) /\ r \in Seq(1..CStream)
        /\ Len(x) = Len(t.to_origin) + k /\ Len(r) = Len(t.c2o.q) - k
        /\ x \o r = t.to_origin \o t.c2o.q
    <3>1. k \in 0..Len(t.c2o.q)
      BY <1>1
    <3>2. Moves(1..CStream, t.to_origin, t.c2o.q, k)
      BY <1>1, <3>1, MoveFront, Zenon
    <3> QED
      BY <3>2 DEF Moves
  <2>3. b \in Bytes(1..CStream) /\ b.q = r /\ b.off = 0
    BY <2>2 DEF Bytes
  <2>4. /\ n \in Entry
        /\ n.active = t.node.active /\ n.log = t.node.log /\ n.host = t.node.host
        /\ n.username = t.node.username
        /\ n.bytes_up = t.node.bytes_up + k /\ n.bytes_down = t.node.bytes_down
    <3>1. t.node.bytes_up \in Nat /\ t.node.bytes_up + k \in Nat
      BY <1>0, <1>1 DEF Shape, Entry
    <3> QED
      BY <1>0, <3>1 DEF Shape, Entry
  <2> HIDE DEF x, r, b, n
  <2>5. /\ u \in Shape
        /\ u.open = t.open /\ u.stm = t.stm /\ u.ttl_expired = t.ttl_expired
        /\ u.close_after_flush = t.close_after_flush
        /\ u.store_id = t.store_id /\ u.origin_fd = t.origin_fd
        /\ u.origin_i = t.origin_i /\ u.node = n
        /\ u.sent = t.sent /\ u.parsed = t.parsed /\ u.got = t.got
        /\ u.to_origin = x /\ u.to_client = t.to_client
        /\ u.c2o = b /\ u.o2c = t.o2c
    BY <1>0, <2>1, <2>2, <2>3, <2>4, ZenonT(30) DEF Shape
  <2>6. /\ Up(u) = Up(t) /\ Down(u) = Down(t) /\ Late(u) = Late(t)
        /\ MaxReplies(u) = MaxReplies(t)
    BY <2>2, <2>3, <2>5 DEF Up, Down, Late, MaxReplies
  <2>7. Room(u)
    <3>1. t.c2o.off \in Nat /\ Len(r) <= Cap
      BY <1>0, <1>1, <2>2, CapAssumption, SMTT(30) DEF Room, Shape, Bytes
    <3> QED
      BY <1>0, <2>3, <2>5, <3>1, CapAssumption DEF Room
  <2>8. Mode(u) /\ Slot(u)
    BY <1>0, <2>4, <2>5, <2>6 DEF Mode, Slot
  <2>9. Counted(u)
    BY <1>0, <2>2, <2>4, <2>5 DEF Counted
  <2>10. Logged(u)
    BY <1>0, <2>4, <2>5, <2>6 DEF Logged
  <2> QED
    BY <2>5, <2>6, <2>7, <2>8, <2>9, <2>10 DEF Sound
<1>4. CASE u = socks_client_close(t)
  BY <1>4, CloseSound
<1>5. \/ u = t \/ u = socks_client_close(t)
      \/ \E k \in 1..Len(t.c2o.q) :
            u = [t EXCEPT !.to_origin = @ \o buffer_peek(t.c2o, k),
                          !.c2o = buffer_compact(buffer_read_adv(@, k)),
                          !.node.bytes_up = IF t.store_id THEN @ + k ELSE @]
  <2>1. CASE u = socks_client_close(t)
    BY <2>1
  <2>2. CASE u # socks_client_close(t)
    <3>1. PICK k \in 0..Len(t.c2o.q) :
             u = IF k = 0 THEN t
                 ELSE [t EXCEPT !.to_origin = @ \o buffer_peek(t.c2o, k),
                                !.c2o = buffer_compact(buffer_read_adv(@, k)),
                                !.node.bytes_up = IF t.store_id THEN @ + k ELSE @]
      BY <2>2 DEF socks_flush_origin
    <3>2. k # 0 => k \in 1..Len(t.c2o.q)
      BY <1>1
    <3> QED
      BY <3>1, <3>2
  <2> QED
    BY <2>1, <2>2
<1> QED
  BY <1>2, <1>3, <1>4, <1>5

\* The origin is watched only in RELAY, or by a session that is late.
LEMMA OriginInterest ==
    ASSUME NEW t, Sound(t), t.open => t.store_id /\ (t.stm = "RELAY" \/ Late(t))
    PROVE  LET u == set_origin_interest(t)
           IN  /\ Sound(u) /\ u.open = t.open /\ u.stm = t.stm
               /\ u.ttl_expired = t.ttl_expired
               /\ u.close_after_flush = t.close_after_flush
               /\ u.parsed = t.parsed /\ u.got = t.got /\ u.to_origin = t.to_origin
               /\ u.c2o = t.c2o /\ u.o2c = t.o2c /\ u.client_i = t.client_i
               /\ u.open => u.origin_i = socks_origin_interest(u)
<1> DEFINE i == socks_origin_interest(t)
           u == [t EXCEPT !.origin_i = i]
<1>1. i \in Interests
  BY DEF socks_origin_interest, Interests
<1>2. t \in Shape /\ Room(t) /\ Mode(t) /\ Slot(t) /\ Logged(t) /\ Counted(t)
  BY DEF Sound
<1>3. CASE ~t.open
  BY <1>3 DEF set_origin_interest
<1>4. CASE t.open
  <2> HIDE DEF i
  <2>1. /\ u \in Shape /\ u.origin_i = i
        /\ u.open = t.open /\ u.stm = t.stm /\ u.ttl_expired = t.ttl_expired
        /\ u.close_after_flush = t.close_after_flush
        /\ u.store_id = t.store_id /\ u.origin_fd = t.origin_fd /\ u.node = t.node
        /\ u.sent = t.sent /\ u.parsed = t.parsed /\ u.got = t.got
        /\ u.to_origin = t.to_origin /\ u.to_client = t.to_client
        /\ u.c2o = t.c2o /\ u.o2c = t.o2c /\ u.client_i = t.client_i
    BY <1>1, <1>2 DEF Shape
  <2> HIDE DEF u
  <2>2. /\ Up(u) = Up(t) /\ Down(u) = Down(t) /\ Room(u) /\ Late(u) = Late(t)
        /\ MaxReplies(u) = MaxReplies(t)
    BY <1>2, <2>1 DEF Up, Down, Room, Late, MaxReplies
  <2>3. Mode(u) /\ Slot(u)
    BY <1>2, <1>4, <2>1, <2>2 DEF Mode, Slot, Late
  <2>4. Logged(u) /\ Counted(u)
    BY <1>2, <2>1, <2>2 DEF Logged, Counted
  <2>5. Sound(u)
    BY <2>1, <2>2, <2>3, <2>4 DEF Sound
  <2>6. socks_origin_interest(u) = i
    BY <2>1 DEF socks_origin_interest, i
  <2>7. set_origin_interest(t) = u
    BY <1>4 DEF set_origin_interest, u, i
  <2> QED
    BY <2>1, <2>5, <2>6, <2>7
<1> QED
  BY <1>3, <1>4 DEF Shape

\* close_if_flushed closes or does nothing.
LEMMA CloseIfFlushed ==
    ASSUME NEW t, Sound(t)
    PROVE  LET u == socks_close_if_flushed(t)
           IN  /\ Sound(u) /\ u.stm = t.stm /\ u.parsed = t.parsed
               /\ u.open => u = t
               /\ u.open /\ u.close_after_flush => buffer_can_read(u.o2c)
BY CloseSound DEF socks_close_if_flushed

\* The part of the core that is not about the stream of the client, nor about
\* the phase that the monitor shows.
Base(t) ==
    <<t.open, t.stm, t.close_after_flush, t.ttl_expired, t.origin_i,
      t.origin_fd, t.store_id, t.got, t.to_origin, Down(t),
      t.node.active, t.node.username, t.node.host, t.node.bytes_up,
      t.node.bytes_down, t.node.log>>

\* Equal bases are equal part by part.
LEMMA SameBase ==
    ASSUME NEW t, NEW u, Base(u) = Base(t)
    PROVE  /\ u.open = t.open /\ u.stm = t.stm
           /\ u.close_after_flush = t.close_after_flush
           /\ u.ttl_expired = t.ttl_expired /\ u.origin_i = t.origin_i
           /\ u.origin_fd = t.origin_fd /\ u.store_id = t.store_id
           /\ u.got = t.got /\ u.to_origin = t.to_origin /\ Down(u) = Down(t)
           /\ u.node.active = t.node.active /\ u.node.username = t.node.username
           /\ u.node.host = t.node.host /\ u.node.log = t.node.log
           /\ u.node.bytes_up = t.node.bytes_up
           /\ u.node.bytes_down = t.node.bytes_down
BY DEF Base

\* A step of the client's stream keeps the session sound.
LEMMA BaseKept ==
    ASSUME NEW t, Sound(t), NEW u \in Shape, Base(u) = Base(t), Room(u),
           u.parsed <= u.sent, Up(u) = ClientBytes(u.parsed, u.sent - u.parsed)
    PROVE  Sound(u)
BY SameBase DEF Sound, MaxReplies, Mode, Late, Slot, Counted, Logged

\* A read() from the client.
LEMMA ReceivedSound ==
    ASSUME Sound(s), NEW n \in ClientReadSizes
    PROVE  LET u == Received(n)
           IN  /\ Sound(u) /\ Base(u) = Base(s) /\ u.o2c = s.o2c
               /\ u.client_i = s.client_i
               /\ u.parsed = s.parsed /\ u.to_client = s.to_client
<1> DEFINE d == ClientBytes(s.sent, n)
           b == [q |-> s.c2o.q \o d, off |-> s.c2o.off]
           u == Received(n)
<1>0. s \in Shape /\ Room(s) /\ s.parsed <= s.sent
      /\ Up(s) = ClientBytes(s.parsed, s.sent - s.parsed)
  BY DEF Sound
<1>1. /\ s.c2o.q \in Seq(1..CStream) /\ s.c2o.off \in Nat /\ Len(s.c2o.q) \in Nat
      /\ s.to_origin \in Seq(1..CStream)
      /\ s.sent \in 0..CStream /\ s.parsed \in 0..CStream
  BY <1>0 DEF Shape, Bytes
<1>2. n \in 1..CStream /\ s.sent + n <= CStream /\ n <= Cap - (s.c2o.off + Len(s.c2o.q))
  BY DEF ClientReadSizes, buffer_space
<1>3. d \in Seq(1..CStream) /\ Len(d) = n
  <2>1. s.sent \in Nat /\ n \in Nat
    BY <1>1, <1>2, SessionAssumption
  <2> QED
    BY <1>2, <2>1, ClientBytesSeq
<1>4. u = [s EXCEPT !.c2o = b, !.sent = s.sent + n]
  BY <1>0 DEF Received, buffer_write_adv, Shape
<1> HIDE DEF d
<1>5. b.q \in Seq(1..CStream) /\ Len(b.q) = Len(s.c2o.q) + n /\ b.off = s.c2o.off
  BY <1>1, <1>3, ConcatProperties
<1>6. b \in Bytes(1..CStream) /\ s.sent + n \in 0..CStream
  BY <1>1, <1>2, <1>5, SessionAssumption DEF Bytes
<1>7. s.to_origin \o b.q = ClientBytes(s.parsed, s.sent + n - s.parsed)
  <2> DEFINE m == s.sent - s.parsed
  <2>1. (s.to_origin \o s.c2o.q) \o d = s.to_origin \o (s.c2o.q \o d)
    <3> DEFINE x == s.to_origin
               y == s.c2o.q
    <3>1. x \in Seq(1..CStream) /\ y \in Seq(1..CStream) /\ d \in Seq(1..CStream)
      BY <1>1, <1>3
    <3> HIDE DEF x, y
    <3>2. (x \o y) \o d = x \o (y \o d)
      BY <3>1, ConcatAssociative
    <3> QED
      BY <3>2 DEF x, y
  <2>2. /\ m \in Nat /\ s.parsed \in Nat /\ n \in Nat /\ s.parsed + m = s.sent
        /\ s.parsed + m + n <= CStream /\ m + n = s.sent + n - s.parsed
    BY <1>0, <1>1, <1>2, SessionAssumption
  <2>3. s.to_origin \o s.c2o.q = ClientBytes(s.parsed, m)
    BY <1>0 DEF Up
  <2> HIDE DEF m
  <2>4. ClientBytes(s.parsed, m) \o ClientBytes(s.parsed + m, n) = ClientBytes(s.parsed, m + n)
    BY <2>2, ClientBytesJoin
  <2> QED
    BY <2>1, <2>2, <2>3, <2>4 DEF d
<1> HIDE DEF b, u
<1>8. /\ u \in Shape /\ u.c2o = b /\ u.sent = s.sent + n /\ u.parsed = s.parsed
      /\ u.to_origin = s.to_origin /\ u.to_client = s.to_client /\ u.o2c = s.o2c
      /\ u.client_i = s.client_i
  BY <1>0, <1>4, <1>6 DEF Shape
<1>9. Base(u) = Base(s)
  BY <1>0, <1>4 DEF Shape, Base, Down
<1>10. Room(u)
  <2>1. b.off + Len(b.q) <= Cap
    BY <1>1, <1>2, <1>5, CapAssumption, SMTT(30)
  <2>2. s.o2c.off = 0 /\ Len(s.o2c.q) <= Cap
    BY <1>0 DEF Room
  <2> QED
    BY <1>8, <2>1, <2>2 DEF Room
<1>11. u.parsed <= u.sent
  BY <1>0, <1>1, <1>2, <1>8, SessionAssumption
<1>12. Up(u) = ClientBytes(u.parsed, u.sent - u.parsed)
  <2>1. Up(u) = s.to_origin \o b.q /\ u.parsed = s.parsed /\ u.sent = s.sent + n
    BY <1>8 DEF Up
  <2>2. u.sent - u.parsed = s.sent + n - s.parsed
    BY <1>1, <1>2, <2>1
  <2> QED
    BY <1>7, <2>1, <2>2
<1> QED
  BY <1>8, <1>9, <1>10, <1>11, <1>12, BaseKept DEF u

\* A byte of c2o is fed to a parser.
LEMMA ConsumedSound ==
    ASSUME Sound(s), s.stm \in Parsing, s.c2o.q # << >>
    PROVE  LET u == Consumed
           IN  /\ Sound(u) /\ Base(u) = Base(s) /\ u.o2c = s.o2c
               /\ u.to_client = s.to_client /\ u.node = s.node
               /\ u.client_i = s.client_i /\ u.parsed = s.parsed + 1
<1> DEFINE r == SubSeq(s.c2o.q, 2, Len(s.c2o.q))
           o == IF r = << >> THEN 0 ELSE s.c2o.off + 1
           b == [q |-> r, off |-> o]
           u == Consumed
<1>0. s \in Shape /\ Room(s) /\ Mode(s) /\ s.parsed <= s.sent
      /\ Up(s) = ClientBytes(s.parsed, s.sent - s.parsed)
  BY DEF Sound
<1>1. /\ s.c2o.q \in Seq(1..CStream) /\ s.c2o.off \in Nat
      /\ s.sent \in 0..CStream /\ s.parsed \in 0..CStream
      /\ Len(s.c2o.q) \in Nat
  BY <1>0 DEF Shape, Bytes
<1>2. Len(s.c2o.q) >= 1
  BY <1>1
<1>3. s.to_origin = << >>
  BY <1>0 DEF Mode, Late, Parsing
<1> DEFINE m == s.sent - s.parsed
<1>4. s.c2o.q = ClientBytes(s.parsed, m)
  <2>1. Up(s) = s.c2o.q
    BY <1>1, <1>3, ConcatEmptySeq DEF Up
  <2> QED
    BY <1>0, <2>1
<1>5. /\ m \in Nat /\ s.parsed \in Nat /\ s.parsed + m <= CStream
  BY <1>0, <1>1, SessionAssumption
<1>6. Len(s.c2o.q) = m
  BY <1>4, <1>5, ClientBytesSeq
<1>7. m \in Nat \ {0} /\ m - 1 \in Nat /\ s.parsed + 1 \in 0..CStream
      /\ s.parsed + 1 <= s.sent /\ m - 1 = s.sent - (s.parsed + 1)
      /\ s.parsed + 1 \in Nat /\ (s.parsed + 1) + (m - 1) <= CStream
  <2>1. /\ s.sent \in Nat /\ s.parsed \in Nat /\ s.sent <= CStream /\ CStream \in Nat
        /\ s.sent - s.parsed >= 1
    BY <1>0, <1>1, <1>2, <1>6, SessionAssumption
  <2> QED
    BY <2>1, SMTT(30)
<1>8. r = ClientBytes(s.parsed + 1, m - 1)
  <2> HIDE DEF m
  <2>1. SubSeq(ClientBytes(s.parsed, m), 2, m) = ClientBytes(s.parsed + 1, m - 1)
    BY <1>5, <1>7, ClientBytesTail
  <2> QED
    BY <1>4, <1>6, <2>1
<1>9. r \in Seq(1..CStream) /\ Len(r) = Len(s.c2o.q) - 1
  <2> HIDE DEF m, r
  <2> QED
    BY <1>6, <1>7, <1>8, ClientBytesSeq
<1>10. u = [s EXCEPT !.c2o = b, !.parsed = s.parsed + 1]
  BY <1>0 DEF Consumed, buffer_read_adv, Shape
<1> HIDE DEF r
<1>11. o \in Nat /\ o + Len(r) <= Cap
  <2>1. s.c2o.off + Len(s.c2o.q) <= Cap
    BY <1>0 DEF Room
  <2>2. CASE r = << >>
    BY <2>2, CapAssumption
  <2>3. CASE r # << >>
    BY <1>1, <1>9, <2>1, <2>3, CapAssumption, SMTT(30)
  <2> QED
    BY <2>2, <2>3
<1> HIDE DEF o
<1>12. b \in Bytes(1..CStream) /\ b.q = r /\ b.off = o
  BY <1>9, <1>11 DEF Bytes
<1> HIDE DEF b, u
<1>13. /\ u \in Shape /\ u.c2o = b /\ u.sent = s.sent /\ u.parsed = s.parsed + 1
       /\ u.to_origin = << >> /\ u.to_client = s.to_client /\ u.o2c = s.o2c
       /\ u.node = s.node /\ u.client_i = s.client_i
  BY <1>0, <1>3, <1>7, <1>10, <1>12 DEF Shape
<1>14. Base(u) = Base(s)
  BY <1>0, <1>10 DEF Shape, Base, Down
<1>15. Room(u)
  BY <1>0, <1>11, <1>12, <1>13 DEF Room
<1>16. Up(u) = r
  BY <1>9, <1>12, <1>13, ConcatEmptySeq DEF Up
<1>17. u.parsed <= u.sent /\ Up(u) = ClientBytes(u.parsed, u.sent - u.parsed)
  BY <1>7, <1>8, <1>13, <1>16
<1> QED
  BY <1>13, <1>14, <1>15, <1>17, BaseKept DEF u

-----------------------------------------------------------------------------
(***************************************************************************)
(* Replies                                                                 *)
(***************************************************************************)
\* u is t with reply k behind what is queued, and its other bytes untouched.
Queues(t, u, k) ==
    /\ u.o2c = buffer_write_adv(t.o2c, <<Reply(k)>>)
    /\ u.to_client = t.to_client /\ u.c2o = t.c2o /\ u.to_origin = t.to_origin
    /\ u.open = t.open /\ u.origin_fd = t.origin_fd
    /\ u.sent = t.sent /\ u.parsed = t.parsed /\ u.got = t.got
    /\ u.node.bytes_up = t.node.bytes_up /\ u.node.bytes_down = t.node.bytes_down

\* A reply in o2c leaves it a buffer of units.
LEMMA ReplyBuffer ==
    ASSUME NEW o \in Bytes(Unit), NEW k \in Kinds
    PROVE  buffer_write_adv(o, <<Reply(k)>>) \in Bytes(Unit)
<1> DEFINE r == <<Reply(k)>>
           y == o.q
<1>1. y \in Seq(Unit) /\ o.off \in Nat
  BY DEF Bytes
<1> HIDE DEF y
<1>2. y \o r \in Seq(Unit)
  BY <1>1, AppendReply
<1>3. buffer_write_adv(o, r) = [q |-> y \o r, off |-> o.off]
  BY DEF buffer_write_adv, y
<1> HIDE DEF r
<1>4. [q |-> y \o r, off |-> o.off] \in Bytes(Unit)
  BY <1>1, <1>2 DEF Bytes
<1> QED
  BY <1>3, <1>4 DEF r

\* There is room for a reply whenever one is due.
LEMMA QueuedReply ==
    ASSUME NEW t, Sound(t), t.got = 0, Len(Down(t)) <= 3,
           NEW k \in Kinds \ {"data"}, NEW u \in Shape, Queues(t, u, k)
    PROVE  /\ Room(u) /\ u.o2c.q # << >> /\ Counted(u)
           /\ u.parsed <= u.sent
           /\ Up(u) = ClientBytes(u.parsed, u.sent - u.parsed)
           /\ DataLast(Down(u), u.got)
           /\ Len(Down(u)) - u.got = Len(Down(t)) + 1
           /\ \A j : Has(Down(u), j) <=> Has(Down(t), j) \/ j = k
           /\ Answered(Down(t), 0, "REQUEST") /\ k \notin ConnectReply =>
                 \A m \in SocksState \ {"RELAY"} : Answered(Down(u), 0, m)
           /\ Answered(Down(t), 0, "REQUEST") => Answered(Down(u), 0, "DONE")
           /\ Answered(Down(t), 0, "REQUEST") /\ k = "connect_ok" =>
                 Answered(Down(u), 0, "RELAY")
<1> DEFINE r == <<Reply(k)>>
           x == t.to_client
           y == t.o2c.q
<1>0. /\ t \in Shape /\ Room(t) /\ Counted(t) /\ t.parsed <= t.sent
      /\ Up(t) = ClientBytes(t.parsed, t.sent - t.parsed)
      /\ DataLast(Down(t), 0)
  BY DEF Sound
<1>1. x \in Seq(Unit) /\ y \in Seq(Unit) /\ Len(x) \in Nat /\ Len(y) \in Nat
  <2>1. x \in Seq(Unit) /\ t.o2c \in Bytes(Unit)
    BY <1>0 DEF Shape
  <2>2. y \in Seq(Unit)
    BY <2>1 DEF Bytes
  <2> QED
    BY <2>1, <2>2, LenProperties
<1>2. r \in Seq(Unit) /\ Len(r) = 1 /\ y \o r \in Seq(Unit) /\ Len(y \o r) = Len(y) + 1
  BY <1>1, AppendReply
<1>3. /\ u.o2c = [q |-> y \o r, off |-> t.o2c.off] /\ u.to_client = x
      /\ u.c2o = t.c2o /\ u.to_origin = t.to_origin
      /\ u.sent = t.sent /\ u.parsed = t.parsed /\ u.got = t.got
      /\ u.node.bytes_up = t.node.bytes_up /\ u.node.bytes_down = t.node.bytes_down
  BY DEF Queues, buffer_write_adv
<1>4. Down(t) = x \o y
  BY DEF Down
<1> HIDE DEF r, x, y
<1>5. Len(x \o y) = Len(x) + Len(y) /\ x \o y \in Seq(Unit)
  BY <1>1, ConcatProperties
<1>6. Len(y) <= 3
  BY <1>1, <1>4, <1>5
<1>7. (x \o y) \o r = x \o (y \o r)
  BY <1>1, <1>2, ConcatAssociative
<1>8. u.o2c.q = y \o r /\ u.o2c.off = t.o2c.off
  BY <1>3
<1>9. Down(u) = (x \o y) \o r
  BY <1>3, <1>7, <1>8 DEF Down
<1>10. Room(u)
  <2>1. Len(y \o r) <= Cap
    BY <1>1, <1>2, <1>6, CapAssumption, SessionAssumption DEF ReplyUnits
  <2> QED
    BY <1>0, <1>3, <1>8, <2>1 DEF Room
<1>11. u.o2c.q # << >>
  BY <1>1, <1>2, <1>8
<1>12. Counted(u) /\ Up(u) = Up(t)
  BY <1>0, <1>3 DEF Counted, Up
<1>13. Len(Down(u)) = Len(Down(t)) + 1
  BY <1>1, <1>2, <1>4, <1>5, <1>9, ConcatProperties
<1>14. Len(Down(u)) - u.got = Len(Down(t)) + 1
  BY <1>1, <1>3, <1>4, <1>5, <1>13
<1> DEFINE q == Down(t)
<1>15. q \in Seq(Unit) /\ DataLast(q, 0) /\ Down(u) = q \o <<Reply(k)>>
  BY <1>0, <1>4, <1>5, <1>9 DEF r
<1> HIDE DEF q
<1>16. /\ DataLast(Down(u), 0)
       /\ \A j : Has(Down(u), j) <=> Has(q, j) \/ j = k
       /\ Answered(q, 0, "REQUEST") /\ k \notin ConnectReply =>
             \A m \in SocksState \ {"RELAY"} : Answered(Down(u), 0, m)
       /\ Answered(q, 0, "REQUEST") => Answered(Down(u), 0, "DONE")
       /\ Answered(q, 0, "REQUEST") /\ k = "connect_ok" =>
             Answered(Down(u), 0, "RELAY")
  BY <1>15, ReplyStreams
<1> QED
  BY <1>0, <1>3, <1>10, <1>11, <1>12, <1>14, <1>16 DEF q

\* The counts and the answers of a session before RELAY.
LEMMA BeforeReply ==
    ASSUME NEW t, Sound(t), t.stm # "RELAY", ~Late(t)
    PROVE  /\ t.got = 0 /\ t.to_origin = << >> /\ Len(Down(t)) \in Nat
           /\ t.stm = "AUTH_GREETING" => Len(Down(t)) <= 0
           /\ t.stm = "AUTH_USERPASS" => Len(Down(t)) <= 1
           /\ t.stm \notin {"RELAY", "DONE"} => Len(Down(t)) <= 2
           /\ Len(Down(t)) <= 3
           /\ ~t.ttl_expired /\ t.stm # "DONE" => Answered(Down(t), 0, "REQUEST")
<1>0. t \in Shape /\ Mode(t) /\ Len(Down(t)) - t.got <= MaxReplies(t)
      /\ (~t.ttl_expired => Answered(Down(t), t.got, t.stm))
  BY DEF Sound
<1>1. t.got = 0 /\ t.to_origin = << >>
  BY <1>0 DEF Mode
<1>2. Down(t) \in Seq(Unit)
  BY <1>0 DEF Shape, Bytes, Down
<1>3. Len(Down(t)) \in Nat /\ Len(Down(t)) - t.got = Len(Down(t))
  BY <1>1, <1>2
<1>4. t.stm \in SocksState
  BY <1>0 DEF Shape
<1>5. /\ t.stm = "AUTH_GREETING" => MaxReplies(t) = 0
      /\ t.stm = "AUTH_USERPASS" => MaxReplies(t) = 1
      /\ t.stm \in {"REQUEST", "RESOLVING", "ORIGIN_CONNECTING"} => MaxReplies(t) = 2
      /\ t.stm = "DONE" => MaxReplies(t) = 3
  BY DEF MaxReplies, Late
<1>6. /\ t.stm = "AUTH_GREETING" => Len(Down(t)) <= 0
      /\ t.stm = "AUTH_USERPASS" => Len(Down(t)) <= 1
      /\ t.stm \notin {"RELAY", "DONE"} => Len(Down(t)) <= 2
      /\ Len(Down(t)) <= 3
  BY <1>0, <1>3, <1>4, <1>5 DEF SocksState, Parsing
<1>7. ~t.ttl_expired /\ t.stm # "DONE" => Answered(Down(t), 0, "REQUEST")
  BY <1>0, <1>1 DEF Answered
<1> QED
  BY <1>1, <1>3, <1>6, <1>7

\* A reply before RELAY: the parsers' answers, a refusal, an expiry.
LEMMA ReplySound ==
    ASSUME NEW t, Sound(t), t.open, t.stm # "RELAY", ~Late(t),
           NEW k \in Kinds \ {"data", "connect_ok"},
           NEW u \in Shape, Queues(t, u, k),
           u.node.host = t.node.host, u.node.log = t.node.log,
           u.node.active <=> u.store_id,
           u.store_id \/ (u.stm = "DONE" /\ u.origin_i = {}),
           u.stm \in {"AUTH_USERPASS", "REQUEST", "DONE"},
           u.stm = "AUTH_USERPASS" => t.stm = "AUTH_GREETING",
           u.stm = "REQUEST" =>
              t.stm \in {"AUTH_GREETING", "AUTH_USERPASS"} /\ u.node.username,
           k \in ConnectReply => u.stm = "DONE",
           u.ttl_expired \/ (t.stm # "DONE" /\ ~t.ttl_expired),
           u.ttl_expired => Timeouts,
           u.close_after_flush => u.stm = "DONE",
           u.origin_i = {} \/ Late(u)
    PROVE  Sound(u) /\ u.o2c.q # << >>
<1>1. /\ t.got = 0 /\ t.to_origin = << >> /\ Len(Down(t)) \in Nat
      /\ t.stm = "AUTH_GREETING" => Len(Down(t)) <= 0
      /\ t.stm = "AUTH_USERPASS" => Len(Down(t)) <= 1
      /\ t.stm \notin {"RELAY", "DONE"} => Len(Down(t)) <= 2
      /\ Len(Down(t)) <= 3
      /\ ~t.ttl_expired /\ t.stm # "DONE" => Answered(Down(t), 0, "REQUEST")
  BY BeforeReply
<1>2. /\ Room(u) /\ u.o2c.q # << >> /\ Counted(u)
      /\ u.parsed <= u.sent
      /\ Up(u) = ClientBytes(u.parsed, u.sent - u.parsed)
      /\ DataLast(Down(u), u.got)
      /\ Len(Down(u)) - u.got = Len(Down(t)) + 1
      /\ Has(Down(u), "connect_ok") <=> Has(Down(t), "connect_ok")
      /\ Answered(Down(t), 0, "REQUEST") /\ k \notin ConnectReply =>
            \A m \in SocksState \ {"RELAY"} : Answered(Down(u), 0, m)
      /\ Answered(Down(t), 0, "REQUEST") => Answered(Down(u), 0, "DONE")
  <2>1. k \in Kinds \ {"data"} /\ k # "connect_ok"
    OBVIOUS
  <2> QED
    BY <1>1, <2>1, QueuedReply
<1>3. /\ u.open = t.open /\ u.origin_fd = t.origin_fd /\ u.got = t.got
      /\ u.to_origin = t.to_origin
  BY DEF Queues
<1>4. Slot(t) /\ Logged(t)
  BY DEF Sound
<1>5. Len(Down(u)) - u.got <= MaxReplies(u)
  <2>1. CASE u.stm = "AUTH_USERPASS"
    BY <1>1, <1>2, <2>1 DEF MaxReplies
  <2>2. CASE u.stm = "REQUEST"
    BY <1>1, <1>2, <2>2 DEF MaxReplies
  <2>3. CASE u.stm = "DONE"
    <3>1. MaxReplies(u) = IF u.ttl_expired THEN 4 ELSE 3
      BY <2>3 DEF MaxReplies
    <3> QED
      BY <1>1, <1>2, <3>1
  <2> QED
    BY <2>1, <2>2, <2>3
<1>6. Mode(u)
  BY <1>1, <1>3 DEF Mode
<1>7. Slot(u)
  BY <1>3, <1>4 DEF Slot
<1>8. Logged(u)
  BY <1>2, <1>3, <1>4 DEF Logged
<1>9. ~u.ttl_expired => Answered(Down(u), u.got, u.stm)
  <2>1. u.stm \in SocksState \ {"RELAY"}
    BY DEF SocksState, Parsing
  <2> QED
    BY <1>1, <1>2, <1>3, <2>1
<1> QED
  BY <1>2, <1>5, <1>6, <1>7, <1>8, <1>9 DEF Sound

\* The answer that opens the tunnel, with its entry in the access log.
LEMMA ConnectedSound ==
    ASSUME NEW t, Sound(t), t.open, t.stm = "ORIGIN_CONNECTING",
           NEW u \in Shape, Queues(t, u, "connect_ok"),
           u.stm = "RELAY", u.store_id, u.node.active, u.node.host,
           u.node.log = "CONNECTED", ~u.close_after_flush,
           u.ttl_expired = t.ttl_expired
    PROVE  Sound(u)
<1>1. /\ t.got = 0 /\ t.to_origin = << >> /\ Len(Down(t)) \in Nat
      /\ Len(Down(t)) <= 2
      /\ ~t.ttl_expired => Answered(Down(t), 0, "REQUEST")
  BY BeforeReply DEF Late
<1>2. /\ Room(u) /\ u.o2c.q # << >> /\ Counted(u)
      /\ u.parsed <= u.sent
      /\ Up(u) = ClientBytes(u.parsed, u.sent - u.parsed)
      /\ DataLast(Down(u), u.got)
      /\ Len(Down(u)) - u.got = Len(Down(t)) + 1
      /\ Has(Down(u), "connect_ok")
      /\ Answered(Down(t), 0, "REQUEST") => Answered(Down(u), 0, "RELAY")
  <2>1. "connect_ok" \in Kinds \ {"data"} /\ Len(Down(t)) <= 3
    BY <1>1 DEF Kinds, ConnectReply
  <2> QED
    BY <1>1, <2>1, QueuedReply
<1>3. /\ u.open = t.open /\ u.origin_fd = t.origin_fd /\ u.got = t.got
      /\ u.to_origin = t.to_origin
  BY DEF Queues
<1>4. t.ttl_expired => Timeouts
  BY DEF Sound
<1>5. Len(Down(u)) - u.got <= MaxReplies(u)
  <2>1. MaxReplies(u) = IF u.ttl_expired THEN 4 ELSE 3
    BY DEF MaxReplies
  <2> QED
    BY <1>1, <1>2, <2>1
<1>6. Mode(u) /\ Slot(u) /\ Logged(u)
  BY <1>2, <1>3 DEF Mode, Slot, Logged
<1> QED
  BY <1>1, <1>2, <1>3, <1>4, <1>5, <1>6 DEF Sound

-----------------------------------------------------------------------------
(***************************************************************************)
(* The other changes a handler makes                                       *)
(***************************************************************************)
\* Between the request and the tunnel nothing is queued and nothing is logged:
\* the phase, the resolution, the address tried and the origin change freely.
LEMMA AdvanceSound ==
    ASSUME NEW t, Sound(t), t.open,
           t.stm \in {"REQUEST", "RESOLVING", "ORIGIN_CONNECTING"},
           NEW u \in Shape,
           u.stm \in {"REQUEST", "RESOLVING", "ORIGIN_CONNECTING"},
           u.origin_i = {} \/ (u.stm = "ORIGIN_CONNECTING" /\ u.origin_i \subseteq {"W"}),
           u.open = t.open, u.ttl_expired = t.ttl_expired,
           u.close_after_flush = t.close_after_flush, u.store_id = t.store_id,
           u.node.active = t.node.active, u.node.username = t.node.username,
           u.node.host = t.node.host, u.node.log = t.node.log,
           u.node.bytes_up = t.node.bytes_up, u.node.bytes_down = t.node.bytes_down,
           u.sent = t.sent, u.parsed = t.parsed, u.got = t.got,
           u.to_origin = t.to_origin, u.to_client = t.to_client,
           u.c2o = t.c2o, u.o2c = t.o2c
    PROVE  Sound(u)
<1>0. /\ Room(t) /\ Mode(t) /\ Slot(t) /\ Counted(t) /\ Logged(t)
      /\ ~t.ttl_expired => Answered(Down(t), t.got, t.stm)
      /\ Len(Down(t)) - t.got <= MaxReplies(t)
  BY DEF Sound
<1>1. Up(u) = Up(t) /\ Down(u) = Down(t) /\ Room(u) /\ Counted(u)
  BY <1>0 DEF Up, Down, Room, Counted
<1>2. MaxReplies(u) = MaxReplies(t) /\ ~Late(t) /\ ~Late(u)
  BY DEF MaxReplies, Late
<1>3. Mode(u)
  BY <1>0, <1>2 DEF Mode
<1>4. Slot(u)
  BY <1>0 DEF Slot
<1>5. Logged(u)
  BY <1>0, <1>1 DEF Logged
<1>6. ~u.ttl_expired => Answered(Down(u), u.got, u.stm)
  BY <1>0, <1>1 DEF Answered
<1> QED
  BY <1>0, <1>1, <1>2, <1>3, <1>4, <1>5, <1>6 DEF Sound

\* A session that is watched for reading is in RELAY, or expired before it.
LEMMA OriginWatched ==
    ASSUME NEW t, Sound(t), t.open
    PROVE  /\ "R" \in t.origin_i => t.store_id /\ (t.stm = "RELAY" \/ Late(t))
           /\ "W" \in t.origin_i => t.store_id
           /\ "W" \in t.origin_i /\ t.stm # "ORIGIN_CONNECTING" =>
                 t.stm = "RELAY" \/ Late(t)
           /\ t.stm = "RELAY" => t.store_id
           /\ t.stm = "RELAY" \/ Late(t) => Flushed(t)
BY DEF Sound, Mode, Slot, Flushed, Forgotten, Late, Shape

\* A read() from the origin.
LEMMA OriginReadSound ==
    ASSUME NEW t, Sound(t), t.open, t.store_id, t.stm = "RELAY" \/ Late(t),
           NEW n \in 1..OStream, n <= buffer_space(t.o2c), t.got + n <= OStream
    PROVE  LET u == [t EXCEPT
                       !.o2c = buffer_write_adv(@, OriginBytes(t.got, n)),
                       !.got = @ + n,
                       !.node.bytes_down = IF t.store_id THEN @ + n ELSE @]
           IN  /\ Sound(u) /\ u.open /\ u.store_id /\ u.stm = t.stm
               /\ u.stm = "RELAY" \/ Late(u)
<1> DEFINE d == OriginBytes(t.got, n)
           q == Down(t)
           x == t.to_client
           y == t.o2c.q
           b == [q |-> y \o d, off |-> t.o2c.off]
           e == [t.node EXCEPT !.bytes_down = @ + n]
           u == [t EXCEPT
                    !.o2c = buffer_write_adv(@, OriginBytes(t.got, n)),
                    !.got = @ + n,
                    !.node.bytes_down = IF t.store_id THEN @ + n ELSE @]
<1>0. /\ t \in Shape /\ Room(t) /\ Counted(t) /\ Mode(t) /\ Slot(t) /\ Logged(t)
      /\ DataLast(q, t.got) /\ Len(q) - t.got <= MaxReplies(t)
  BY DEF Sound
<1>1. x \in Seq(Unit) /\ y \in Seq(Unit) /\ t.o2c.off \in Nat
      /\ t.got \in 0..OStream /\ t.node \in Entry /\ q = x \o y
  <2>1. x \in Seq(Unit) /\ t.o2c \in Bytes(Unit) /\ t.got \in 0..OStream /\ t.node \in Entry
    BY <1>0 DEF Shape
  <2> QED
    BY <2>1 DEF Bytes, Down
<1>2. t.got \in Nat /\ n \in Nat /\ t.got + n \in 0..OStream
  BY <1>1, SessionAssumption
<1>3. u = [t EXCEPT !.o2c = b, !.got = t.got + n, !.node = e]
  BY <1>0, <1>1 DEF Shape, Entry, buffer_write_adv
<1> HIDE DEF u
<1>4. n <= Cap - (t.o2c.off + Len(y))
  BY DEF buffer_space
<1> HIDE DEF x, y, q
<1>5. q \in Seq(Unit) /\ Len(q) = Len(x) + Len(y) /\ Len(x) \in Nat /\ Len(y) \in Nat
  BY <1>1, ConcatProperties, LenProperties
<1>6. /\ d \in Seq(Unit) /\ Len(d) = n
      /\ q \o d \in Seq(Unit) /\ Len(q \o d) = Len(q) + n
      /\ DataLast(q \o d, t.got + n)
      /\ Has(q \o d, "connect_ok") <=> Has(q, "connect_ok")
      /\ \A m : Answered(q, t.got, m) => Answered(q \o d, t.got + n, m)
  BY <1>0, <1>2, <1>5, DataStreams
<1> HIDE DEF d
<1>7. x \o (y \o d) = q \o d
  <2>1. x \in Seq(Unit) /\ y \in Seq(Unit) /\ d \in Seq(Unit)
    BY <1>1, <1>6
  <2>2. (x \o y) \o d = x \o (y \o d)
    BY <2>1, ConcatAssociative
  <2> QED
    BY <1>1, <2>2
<1>8. y \o d \in Seq(Unit) /\ Len(y \o d) = Len(y) + n
  BY <1>1, <1>6, ConcatProperties
<1>9. b \in Bytes(Unit) /\ b.q = y \o d /\ b.off = t.o2c.off
  BY <1>1, <1>8 DEF Bytes
<1>10. /\ e \in Entry
       /\ e.active = t.node.active /\ e.log = t.node.log /\ e.host = t.node.host
       /\ e.username = t.node.username
       /\ e.bytes_up = t.node.bytes_up /\ e.bytes_down = t.node.bytes_down + n
  <2>1. t.node.bytes_down + n \in Nat
    BY <1>1, <1>2 DEF Entry
  <2> QED
    BY <1>1, <2>1 DEF Entry
<1> HIDE DEF b, e
<1>11. /\ u \in Shape /\ u.o2c = b /\ u.got = t.got + n /\ u.node = e
       /\ u.open = t.open /\ u.stm = t.stm /\ u.ttl_expired = t.ttl_expired
       /\ u.close_after_flush = t.close_after_flush
       /\ u.store_id = t.store_id /\ u.origin_fd = t.origin_fd
       /\ u.origin_i = t.origin_i
       /\ u.sent = t.sent /\ u.parsed = t.parsed
       /\ u.to_origin = t.to_origin /\ u.to_client = x /\ u.c2o = t.c2o
  BY <1>0, <1>2, <1>3, <1>9, <1>10 DEF Shape, x
<1>12. Down(u) = q \o d /\ Up(u) = Up(t)
  BY <1>7, <1>9, <1>11 DEF Down, Up
<1>13. Room(u)
  <2>1. b.off = 0 /\ Len(b.q) <= Cap
    BY <1>0, <1>4, <1>5, <1>8, <1>9, CapAssumption DEF Room
  <2> QED
    BY <1>0, <1>11, <2>1 DEF Room
<1>14. Late(u) = Late(t) /\ MaxReplies(u) = MaxReplies(t)
  BY <1>11 DEF Late, MaxReplies
<1>15. Len(Down(u)) - u.got <= MaxReplies(u)
  <2>1. Len(Down(u)) - u.got = Len(q) - t.got
    BY <1>2, <1>5, <1>6, <1>11, <1>12
  <2> QED
    BY <1>0, <1>14, <2>1
<1>16. Mode(u) /\ Slot(u)
  BY <1>0, <1>10, <1>11, <1>14 DEF Mode, Slot
<1>17. Counted(u)
  BY <1>0, <1>10, <1>11 DEF Counted
<1>18. Logged(u)
  <2>1. Has(Down(u), "connect_ok") <=> Has(Down(t), "connect_ok")
    BY <1>6, <1>12 DEF q
  <2> QED
    BY <1>0, <1>10, <1>11, <2>1 DEF Logged
<1>19. ~u.ttl_expired => Answered(Down(u), u.got, u.stm)
  <2>1. ~t.ttl_expired => Answered(q, t.got, t.stm)
    BY DEF Sound, q
  <2> QED
    BY <1>6, <1>11, <1>12, <2>1
<1>20. Sound(u)
  BY <1>6, <1>11, <1>12, <1>13, <1>15, <1>16, <1>17, <1>18, <1>19 DEF Sound
<1> QED
  BY <1>11, <1>14, <1>20 DEF u

\* A session starts with nothing sent in either direction.
LEMMA InitSound == Sound(socks_session_init)
<1> DEFINE e == [active |-> TRUE, username |-> FALSE, host |-> FALSE,
                 phase |-> "AUTH", bytes_up |-> 0, bytes_down |-> 0,
                 log |-> "NONE"]
           t == socks_session_init
<1>1. e \in Entry
  BY DEF Entry, LogState
<1>2. << >> \in Seq(Unit) /\ << >> \in Seq(1..CStream)
  OBVIOUS
<1>3. buffer_init \in Bytes(Unit) /\ buffer_init \in Bytes(1..CStream)
      /\ buffer_init.q = << >> /\ buffer_init.off = 0
  BY <1>2 DEF buffer_init, Bytes
<1>4. /\ t.open /\ t.stm = "AUTH_GREETING" /\ ~t.close_after_flush
      /\ ~t.ttl_expired /\ t.origin_i = {} /\ ~t.origin_fd /\ t.store_id
      /\ t.node = e /\ t.sent = 0 /\ t.parsed = 0 /\ t.got = 0
      /\ t.to_client = << >> /\ t.to_origin = << >>
      /\ t.c2o = buffer_init /\ t.o2c = buffer_init
  BY DEF socks_session_init
<1>5. t \in Shape
  <2>1. 0 \in 0..CStream /\ 0 \in 0..OStream /\ 0 \in 0..Addrs
    BY SessionAssumption
  <2>2. {"R"} \in Interests /\ {} \in Interests /\ "AUTH_GREETING" \in SocksState
    BY DEF Interests, SocksState, Parsing
  <2> HIDE DEF e
  <2>3. socks_session_init.node = e
    BY <1>4
  <2> QED
    BY <1>1, <1>2, <1>3, <2>1, <2>2, <2>3 DEF Shape, socks_session_init, e
<1>6. e.active /\ ~e.host /\ e.bytes_up = 0 /\ e.bytes_down = 0 /\ e.log = "NONE"
  OBVIOUS
<1> HIDE DEF e, t
<1>7. Up(t) = << >> /\ Down(t) = << >>
  BY <1>2, <1>3, <1>4, ConcatEmptySeq DEF Up, Down
<1>8. ClientBytes(t.parsed, t.sent - t.parsed) = << >>
  <2>1. t.parsed = 0 /\ t.sent - t.parsed = 0
    BY <1>4
  <2>2. ClientBytes(0, 0) \in Seq(1..CStream) /\ Len(ClientBytes(0, 0)) = 0
    BY ClientBytesSeq, SessionAssumption
  <2> QED
    BY <2>1, <2>2
<1>9. DataLast(<< >>, 0) /\ Answered(<< >>, 0, "AUTH_GREETING")
      /\ ~Has(<< >>, "connect_ok") /\ Len(<< >>) = 0
  BY DEF DataLast, Answered, Has
<1>10. MaxReplies(t) = 0
  BY <1>4 DEF MaxReplies
<1>11. Room(t) /\ Mode(t) /\ Slot(t)
  BY <1>3, <1>4, <1>6, CapAssumption DEF Room, Mode, Slot
<1>12. Counted(t)
  BY <1>4, <1>6, <1>9 DEF Counted
<1>13. Logged(t)
  BY <1>4, <1>6, <1>7, <1>9 DEF Logged
<1>14. t.parsed <= t.sent /\ Len(Down(t)) - t.got <= MaxReplies(t)
  BY <1>4, <1>7, <1>9, <1>10
<1>15. Sound(t)
  BY <1>4, <1>5, <1>7, <1>8, <1>9, <1>11, <1>12, <1>13, <1>14 DEF Sound
<1> QED
  BY <1>15 DEF t

\* A session in RELAY whose time is over is closed with what it has.
LEMMA ExpiredSound ==
    ASSUME Sound(s), s.open, s.stm = "RELAY", Timeouts
    PROVE  Sound(Expired) /\ Expired.open
<1> DEFINE u == Expired
<1>0. /\ s \in Shape /\ Room(s) /\ Mode(s) /\ Slot(s) /\ Counted(s) /\ Logged(s)
      /\ Len(Down(s)) - s.got <= MaxReplies(s) /\ DataLast(Down(s), s.got)
  BY DEF Sound
<1>1. /\ u \in Shape /\ u.ttl_expired
      /\ u.open = s.open /\ u.stm = s.stm
      /\ u.close_after_flush = s.close_after_flush
      /\ u.store_id = s.store_id /\ u.origin_fd = s.origin_fd /\ u.node = s.node
      /\ u.origin_i = s.origin_i
      /\ u.sent = s.sent /\ u.parsed = s.parsed /\ u.got = s.got
      /\ u.to_origin = s.to_origin /\ u.to_client = s.to_client
      /\ u.c2o = s.c2o /\ u.o2c = s.o2c
  BY <1>0 DEF Expired, Shape
<1> HIDE DEF u
<1>2. Up(u) = Up(s) /\ Down(u) = Down(s) /\ Room(u)
  BY <1>0, <1>1 DEF Up, Down, Room
<1>3. Mode(u) /\ Slot(u) /\ Counted(u)
  BY <1>0, <1>1 DEF Mode, Slot, Counted
<1>4. Logged(u)
  BY <1>0, <1>1, <1>2 DEF Logged
<1>5. Len(Down(u)) - u.got <= MaxReplies(u)
  <2>1. MaxReplies(u) = 4 /\ MaxReplies(s) \in {3, 4}
    BY <1>1 DEF MaxReplies
  <2>2. Down(s) \in Seq(Unit) /\ s.got \in 0..OStream
    BY <1>0 DEF Down, Shape, Bytes
  <2>3. Len(Down(s)) \in Nat
    BY <2>2, LenProperties
  <2> QED
    BY <1>0, <1>1, <1>2, <2>1, <2>2, <2>3
<1>6. Sound(u)
  BY <1>0, <1>1, <1>2, <1>3, <1>4, <1>5 DEF Sound
<1> QED
  BY <1>1, <1>6 DEF u

-----------------------------------------------------------------------------
(***************************************************************************)
(* The chains of calls that end a handler                                  *)
(***************************************************************************)
\* What the resolver and the connect have stored stays until the session closes
\* and frees it.
HasDns(t) == {"open", "dns_cursor", "dns_result"} \subseteq DOMAIN t

Keeps(t, u) ==
    /\ HasDns(u)
    /\ u.open => t.open
    /\ \/ u.dns_cursor = t.dns_cursor /\ u.dns_result = t.dns_result
       \/ ~u.open /\ u.dns_cursor = 0 /\ u.dns_result = 0

\* Closing does.
LEMMA CloseKeeps ==
    ASSUME NEW t, HasDns(t)
    PROVE  /\ Keeps(t, socks_client_close(t))
           /\ Keeps(t, socks_close_if_flushed(t))
<1> DEFINE logged == IF ~t.store_id THEN t
                     ELSE IF t.ttl_expired THEN store_session_mark_ttl_expired(t)
                     ELSE store_session_end(t)
<1>1. DOMAIN logged = DOMAIN t
  BY DEF store_session_mark_ttl_expired, store_session_end, store_session_remove
<1> HIDE DEF logged
<1>2. socks_client_close(t) =
         [socks_session_destroy_origin(logged) EXCEPT
            !.open = FALSE, !.client_i = {}, !.dns_result = 0, !.dns_cursor = 0]
  BY DEF socks_client_close, logged
<1>3. Keeps(t, socks_client_close(t))
  BY <1>1, <1>2 DEF Keeps, HasDns, socks_session_destroy_origin
<1> QED
  BY <1>3 DEF socks_close_if_flushed, Keeps

\* So do the interests.
LEMMA InterestKeeps ==
    ASSUME NEW t, HasDns(t)
    PROVE  Keeps(t, set_client_interest(t)) /\ Keeps(t, set_origin_interest(t))
BY DEF Keeps, HasDns, set_client_interest, set_origin_interest

\* A write() to the client.
LEMMA FlushClientKeeps ==
    ASSUME NEW t, HasDns(t), NEW u \in socks_flush_client(t)
    PROVE  Keeps(t, u)
<1>1. CASE u = t
  BY <1>1 DEF Keeps
<1>2. CASE u = socks_client_close(t)
  BY <1>2, CloseKeeps
<1>3. CASE \E k \in 0..Len(t.o2c.q) :
              u = [t EXCEPT !.to_client = @ \o buffer_peek(t.o2c, k),
                            !.o2c = buffer_compact(buffer_read_adv(@, k))]
  BY <1>3 DEF Keeps, HasDns
<1> QED
  BY <1>1, <1>2, <1>3 DEF socks_flush_client

\* A write() to the origin.
LEMMA FlushOriginKeeps ==
    ASSUME NEW t, HasDns(t), NEW u \in socks_flush_origin(t)
    PROVE  Keeps(t, u)
<1>1. CASE u = t
  BY <1>1 DEF Keeps
<1>2. CASE u = socks_client_close(t)
  BY <1>2, CloseKeeps
<1>3. CASE \E k \in 0..Len(t.c2o.q) :
              u = [t EXCEPT !.to_origin = @ \o buffer_peek(t.c2o, k),
                            !.c2o = buffer_compact(buffer_read_adv(@, k)),
                            !.node.bytes_up = IF t.store_id THEN @ + k ELSE @]
  BY <1>3 DEF Keeps, HasDns
<1> QED
  BY <1>1, <1>2, <1>3 DEF socks_flush_origin

\* flush_client, close_if_flushed and the interest of the client, as in the
\* last statements of client_read, client_write and client_block.
LEMMA FlushAndClose ==
    ASSUME NEW t, Sound(t), t.open, NEW u \in socks_flush_client(t)
    PROVE  LET w == set_client_interest(socks_close_if_flushed(u))
           IN  /\ Sound(w) /\ w.stm = t.stm /\ w.parsed = t.parsed
               /\ w.open => /\ Synced(w) /\ Flushed(w)
                            /\ w.c2o = t.c2o /\ w.origin_i = t.origin_i
                            /\ buffer_can_write(t.o2c) => buffer_can_write(w.o2c)
<1> DEFINE v == socks_close_if_flushed(u)
           w == set_client_interest(v)
<1>1. /\ Sound(u) /\ u.stm = t.stm /\ u.parsed = t.parsed
      /\ u.open => /\ Core(u) = Core(t) /\ u.c2o = t.c2o
                   /\ buffer_can_write(t.o2c) => buffer_can_write(u.o2c)
  BY FlushClient
<1>2. /\ Sound(v) /\ v.stm = u.stm /\ v.parsed = u.parsed
      /\ v.open => v = u
      /\ v.open /\ v.close_after_flush => buffer_can_read(v.o2c)
  BY <1>1, CloseIfFlushed
<1> HIDE DEF v
<1>3. /\ Sound(w) /\ Core(w) = Core(v) /\ w.c2o = v.c2o /\ w.o2c = v.o2c
      /\ w.open => Synced(w)
  BY <1>2, InterestKept DEF Synced
<1> HIDE DEF w
<1>4. /\ w.open = v.open /\ w.stm = v.stm /\ w.parsed = v.parsed
      /\ w.origin_i = v.origin_i
      /\ w.close_after_flush = v.close_after_flush
  BY <1>3, SameCore
<1>5. u.open => u.origin_i = t.origin_i
  BY <1>1, SameCore
<1> QED
  BY <1>1, <1>2, <1>3, <1>4, <1>5 DEF Flushed, v, w

\* fail_request: the slot is freed, and the session closes once the reply,
\* which finds room, has gone out.
LEMMA FailSound ==
    ASSUME NEW t, Sound(t), t.open,
           t.stm \in {"REQUEST", "RESOLVING", "ORIGIN_CONNECTING"},
           t.origin_i = {}, NEW w \in socks_fail_request(t)
    PROVE  /\ Sound(w) /\ w.stm = "DONE" /\ w.parsed = t.parsed
           /\ w.open => Synced(w) /\ w.ttl_expired = t.ttl_expired
           /\ Keeps(t, w)
<1> DEFINE e == [t.node EXCEPT !.active = FALSE]
           b == buffer_write_adv(t.o2c, <<Reply("connect_fail")>>)
           v == [socks_o2c_append(IF t.store_id THEN store_session_mark_failed(t) ELSE t,
                                  "connect_fail") EXCEPT
                   !.close_after_flush = TRUE, !.stm = "DONE"]
<1>0. t \in Shape /\ Slot(t) /\ Logged(t) /\ (t.ttl_expired => Timeouts)
  BY DEF Sound
<1>1. t.store_id /\ t.node.log = "NONE" /\ ~t.node.host /\ t.node \in Entry
  BY <1>0 DEF Shape, Entry, Slot, Logged
<1>2. v = [t EXCEPT !.store_id = FALSE, !.node = e, !.o2c = b,
                    !.close_after_flush = TRUE, !.stm = "DONE"]
  <2>1. [t.node EXCEPT !.active = FALSE, !.log = t.node.log] = e
    BY <1>1 DEF Entry
  <2>2. store_session_mark_failed(t) = [t EXCEPT !.store_id = FALSE, !.node = e]
    BY <1>0, <1>1, <2>1
       DEF Shape, Entry, store_session_mark_failed, store_session_remove
  <2> HIDE DEF e, b
  <2>3. v = [socks_o2c_append([t EXCEPT !.store_id = FALSE, !.node = e], "connect_fail")
                EXCEPT !.close_after_flush = TRUE, !.stm = "DONE"]
    BY <1>1, <2>2
  <2> QED
    BY <1>0, <2>3 DEF Shape, socks_o2c_append, b
<1>3. e \in Entry /\ e.active = FALSE /\ e.host = t.node.host /\ e.log = t.node.log
      /\ e.bytes_up = t.node.bytes_up /\ e.bytes_down = t.node.bytes_down
  BY <1>1 DEF Entry
<1>4. b \in Bytes(Unit)
  <2>1. t.o2c \in Bytes(Unit)
    BY <1>0 DEF Shape
  <2>2. "connect_fail" \in Kinds
    BY DEF Kinds, ConnectReply
  <2> QED
    BY <2>1, <2>2, ReplyBuffer
<1>5. w \in {set_client_interest(x) : x \in socks_flush_client(v)}
  BY DEF socks_fail_request
<1> HIDE DEF e, b, v
<1>6. /\ v \in Shape /\ v.store_id = FALSE /\ v.node = e /\ v.o2c = b
      /\ v.close_after_flush = TRUE /\ v.stm = "DONE"
      /\ v.open = t.open /\ v.ttl_expired = t.ttl_expired
      /\ v.dns_cursor = t.dns_cursor /\ v.dns_result = t.dns_result
      /\ v.origin_i = t.origin_i /\ v.origin_fd = t.origin_fd
      /\ v.to_client = t.to_client /\ v.c2o = t.c2o /\ v.to_origin = t.to_origin
      /\ v.sent = t.sent /\ v.parsed = t.parsed /\ v.got = t.got
  <2>1. "DONE" \in SocksState
    BY DEF SocksState
  <2> QED
    BY <1>0, <1>2, <1>3, <1>4, <2>1 DEF Shape
<1>7. Queues(t, v, "connect_fail")
  BY <1>3, <1>6 DEF Queues, b
<1>8. Sound(v)
  <2>1. "connect_fail" \in Kinds \ {"data", "connect_ok"}
    BY DEF Kinds, ConnectReply
  <2>2. ~Late(t)
    BY DEF Late
  <2>3. v.ttl_expired \/ (t.stm # "DONE" /\ ~t.ttl_expired)
    BY <1>6
  <2>4. v.node.active <=> v.store_id
    BY <1>3, <1>6
  <2> QED
    BY <1>0, <1>3, <1>6, <1>7, <2>1, <2>2, <2>3, <2>4, ReplySound
<1>9. PICK x \in socks_flush_client(v) : w = set_client_interest(x)
  BY <1>5
<1>10. /\ Sound(x) /\ x.stm = "DONE" /\ x.parsed = t.parsed
       /\ x.open => Core(x) = Core(v)
  BY <1>6, <1>8, FlushClient
<1>11. /\ Sound(w) /\ Core(w) = Core(x)
       /\ w.open => Synced(w)
  BY <1>9, <1>10, InterestKept DEF Synced
<1>12. w.open => w.ttl_expired = t.ttl_expired
  BY <1>6, <1>10, <1>11, SameCore
<1>13. Keeps(v, x)
  BY <1>6, <1>9, FlushClientKeeps DEF Shape, HasDns
<1>14. Keeps(x, w)
  BY <1>9, <1>13, InterestKeeps DEF Keeps
<1>15. Keeps(v, w)
  BY <1>13, <1>14 DEF Keeps
<1>16. Keeps(t, w)
  BY <1>6, <1>15 DEF Keeps
<1> QED
  BY <1>10, <1>11, <1>12, <1>16, SameCore

\* expire_session_pre_relay: also for a session that waits to close.
LEMMA ExpiryReply ==
    ASSUME Sound(s), s.open, s.stm # "RELAY", ~s.ttl_expired, Timeouts
    PROVE  LET u == [socks_o2c_append(Expired, "connect_ttl") EXCEPT
                        !.close_after_flush = TRUE, !.stm = "DONE"]
           IN  Sound(u) /\ u.open /\ u.stm = "DONE"
<1> DEFINE b == buffer_write_adv(s.o2c, <<Reply("connect_ttl")>>)
           u == [socks_o2c_append(Expired, "connect_ttl") EXCEPT
                    !.close_after_flush = TRUE, !.stm = "DONE"]
<1>0. s \in Shape /\ Slot(s)
  BY DEF Sound
<1>1. u = [s EXCEPT !.ttl_expired = TRUE, !.o2c = b,
                    !.close_after_flush = TRUE, !.stm = "DONE"]
  BY <1>0 DEF Shape, Expired, socks_o2c_append
<1>2. b \in Bytes(Unit)
  <2>1. s.o2c \in Bytes(Unit)
    BY <1>0 DEF Shape
  <2>2. "connect_ttl" \in Kinds
    BY DEF Kinds, ConnectReply
  <2> QED
    BY <2>1, <2>2, ReplyBuffer
<1> HIDE DEF b, u
<1>3. /\ u \in Shape /\ u.ttl_expired = TRUE /\ u.o2c = b
      /\ u.close_after_flush = TRUE /\ u.stm = "DONE"
      /\ u.open = s.open /\ u.store_id = s.store_id /\ u.node = s.node
      /\ u.origin_i = s.origin_i /\ u.origin_fd = s.origin_fd
      /\ u.to_client = s.to_client /\ u.c2o = s.c2o /\ u.to_origin = s.to_origin
      /\ u.sent = s.sent /\ u.parsed = s.parsed /\ u.got = s.got
  <2>1. "DONE" \in SocksState
    BY DEF SocksState
  <2> QED
    BY <1>0, <1>1, <1>2, <2>1 DEF Shape
<1>4. Queues(s, u, "connect_ttl")
  BY <1>3 DEF Queues, b
<1>5. /\ "connect_ttl" \in Kinds \ {"data", "connect_ok"} /\ ~Late(s) /\ Late(u)
  BY <1>3 DEF Kinds, ConnectReply, Late
<1>6. (u.node.active <=> u.store_id) /\ (u.store_id \/ (u.stm = "DONE" /\ u.origin_i = {}))
  BY <1>0, <1>3 DEF Slot
<1>7. Sound(u)
  BY <1>3, <1>4, <1>5, <1>6, ReplySound
<1> QED
  BY <1>3, <1>7 DEF u

\* A final verdict of the greeting or of the credentials: state m is next.
Verdict(t, k, m, c, name) ==
    [t EXCEPT !.o2c = buffer_write_adv(t.o2c, <<Reply(k)>>), !.stm = m,
              !.close_after_flush = c,
              !.node = [t.node EXCEPT !.username = name]]

\* The session stays sound, with the reply behind the earlier ones.
LEMMA VerdictSound ==
    ASSUME NEW t, Sound(t), t.open, t.stm \in {"AUTH_GREETING", "AUTH_USERPASS"},
           NEW k \in Kinds \ ({"data"} \cup ConnectReply),
           NEW m \in {"AUTH_USERPASS", "REQUEST", "DONE"},
           m = "AUTH_USERPASS" => t.stm = "AUTH_GREETING",
           NEW c \in BOOLEAN, c => m = "DONE",
           NEW name \in BOOLEAN, m = "REQUEST" => name
    PROVE  /\ Sound(Verdict(t, k, m, c, name))
           /\ Verdict(t, k, m, c, name).open
           /\ Verdict(t, k, m, c, name).stm = m
           /\ Verdict(t, k, m, c, name).parsed = t.parsed
<1> DEFINE b == buffer_write_adv(t.o2c, <<Reply(k)>>)
           e == [t.node EXCEPT !.username = name]
           u == Verdict(t, k, m, c, name)
<1>0. /\ t \in Shape /\ Slot(t) /\ Mode(t)
      /\ t.ttl_expired => Timeouts
  BY DEF Sound
<1>1. t.node \in Entry /\ t.o2c \in Bytes(Unit)
  BY <1>0 DEF Shape
<1>2. /\ e \in Entry /\ e.username = name /\ e.active = t.node.active
      /\ e.host = t.node.host /\ e.log = t.node.log
      /\ e.bytes_up = t.node.bytes_up /\ e.bytes_down = t.node.bytes_down
  BY <1>1 DEF Entry
<1>3. b \in Bytes(Unit)
  <2>1. t.o2c \in Bytes(Unit)
    BY <1>0 DEF Shape
  <2>2. k \in Kinds
    OBVIOUS
  <2> QED
    BY <2>1, <2>2, ReplyBuffer
<1>4. u = [t EXCEPT !.o2c = b, !.stm = m, !.close_after_flush = c, !.node = e]
  BY DEF Verdict
<1> HIDE DEF b, e, u
<1>5. /\ u \in Shape /\ u.stm = m /\ u.close_after_flush = c /\ u.node = e /\ u.o2c = b
      /\ u.open = t.open /\ u.ttl_expired = t.ttl_expired /\ u.store_id = t.store_id
      /\ u.origin_i = t.origin_i /\ u.origin_fd = t.origin_fd
      /\ u.to_client = t.to_client /\ u.c2o = t.c2o /\ u.to_origin = t.to_origin
      /\ u.sent = t.sent /\ u.parsed = t.parsed /\ u.got = t.got
  <2>1. m \in SocksState
    BY DEF SocksState, Parsing
  <2> QED
    BY <1>0, <1>2, <1>3, <1>4, <2>1 DEF Shape
<1>6. Queues(t, u, k)
  BY <1>2, <1>5 DEF Queues, b
<1>7. k \in Kinds \ {"data", "connect_ok"} /\ k \notin ConnectReply /\ ~Late(t)
  BY DEF ConnectReply, Late
<1>8. u.store_id /\ u.node.active /\ u.origin_i = {}
  BY <1>0, <1>2, <1>5, <1>7 DEF Slot, Mode
<1>9. u.ttl_expired \/ (t.stm # "DONE" /\ ~t.ttl_expired)
  BY <1>5
<1>10. Sound(u)
  BY <1>0, <1>2, <1>5, <1>6, <1>7, <1>8, <1>9, ReplySound
<1> QED
  BY <1>5, <1>10 DEF u

\* SO_ERROR 0: the answer is queued and the entry logged.
Tunnel(t) ==
    [IF t.store_id THEN store_session_set_dest(socks_o2c_append(t, "connect_ok"))
     ELSE socks_o2c_append(t, "connect_ok") EXCEPT !.stm = "RELAY"]

\* The tunnel starts with the answer as the last reply.
LEMMA TunnelSound ==
    ASSUME NEW t, Sound(t), t.open, t.stm = "ORIGIN_CONNECTING"
    PROVE  /\ Sound(Tunnel(t)) /\ Tunnel(t).open /\ Tunnel(t).store_id
           /\ Tunnel(t).stm = "RELAY" /\ Tunnel(t).parsed = t.parsed
           /\ Tunnel(t).to_origin = t.to_origin /\ Tunnel(t).got = t.got
<1> DEFINE u == Tunnel(t)
           b == buffer_write_adv(t.o2c, <<Reply("connect_ok")>>)
           e == [t.node EXCEPT !.host = TRUE, !.phase = "RELAY", !.log = "CONNECTED"]
<1>0. t \in Shape /\ Slot(t) /\ Mode(t)
  BY DEF Sound
<1>1. /\ t.node \in Entry /\ t.o2c \in Bytes(Unit) /\ t.store_id /\ t.node.active
      /\ t.node.username /\ ~t.close_after_flush
  BY <1>0 DEF Shape, Slot, Mode
<1>2. /\ e \in Entry /\ e.active /\ e.host /\ e.log = "CONNECTED"
      /\ e.bytes_up = t.node.bytes_up /\ e.bytes_down = t.node.bytes_down
  BY <1>1 DEF Entry, LogState
<1>3. b \in Bytes(Unit)
  <2>1. t.o2c \in Bytes(Unit)
    BY <1>0 DEF Shape
  <2>2. "connect_ok" \in Kinds
    BY DEF Kinds, ConnectReply
  <2> QED
    BY <2>1, <2>2, ReplyBuffer
<1>4. u = [t EXCEPT !.o2c = b, !.node = e, !.stm = "RELAY"]
  <2> DEFINE a == [t EXCEPT !.o2c = b]
  <2>1. socks_o2c_append(t, "connect_ok") = a
    BY <1>0 DEF Shape, socks_o2c_append
  <2> HIDE DEF b
  <2>2. a.node = t.node
    BY <1>0 DEF Shape
  <2>3. store_session_set_dest(a) = [t EXCEPT !.o2c = b, !.node = e]
    BY <1>0, <1>1, <2>2 DEF Shape, Entry, store_session_set_dest
  <2> HIDE DEF a, e
  <2> QED
    BY <1>0, <1>1, <2>1, <2>3 DEF Shape, Tunnel
<1> HIDE DEF b, e, u
<1>5. /\ u \in Shape /\ u.stm = "RELAY" /\ u.node = e /\ u.o2c = b
      /\ u.close_after_flush = t.close_after_flush
      /\ u.open = t.open /\ u.ttl_expired = t.ttl_expired /\ u.store_id = t.store_id
      /\ u.origin_i = t.origin_i /\ u.origin_fd = t.origin_fd
      /\ u.to_client = t.to_client /\ u.c2o = t.c2o /\ u.to_origin = t.to_origin
      /\ u.sent = t.sent /\ u.parsed = t.parsed /\ u.got = t.got
  <2>1. "RELAY" \in SocksState
    BY DEF SocksState
  <2> QED
    BY <1>0, <1>2, <1>3, <1>4, <2>1 DEF Shape
<1>6. Queues(t, u, "connect_ok")
  BY <1>2, <1>5 DEF Queues, b
<1>7. Sound(u)
  BY <1>1, <1>2, <1>5, <1>6, ConnectedSound
<1> QED
  BY <1>1, <1>5, <1>7 DEF u

-----------------------------------------------------------------------------
(***************************************************************************)
(* Where a handler leaves the selector thread                              *)
(***************************************************************************)
\* A handler that returns to select has brought the interests up to date.
LEMMA SelectAt ==
    ASSUME NEW t, t.open => Synced(t) /\ (t.stm = "RELAY" => Armed(t)) /\ Flushed(t)
    PROVE  At(t, "select")
BY DEF At, InHandler

\* The end of client_read and of client_block is not reached in RELAY, and
\* the parsers go on only where there is a byte for them.
LEMMA TailAt ==
    ASSUME NEW t, t.open, t.stm # "RELAY"
    PROVE  At(t, "tail") /\ At(t, ReadLoop(t))
BY DEF At, InHandler, ReadLoop, buffer_can_read

\* Nothing is said of a process that is gone.
LEMMA CrashAt ==
    ASSUME NEW t, NEW p \in Crashed
    PROVE  At(t, p)
BY DEF At, InHandler, Crashed

-----------------------------------------------------------------------------
(***************************************************************************)
(* The steps                                                               *)
(***************************************************************************)
\* A step of the handshake from t to u feeds a byte to a parser or none, and
\* none with the answer that opens the tunnel, which starts empty.
Listens(t, u) ==
    \/ /\ u.parsed = t.parsed
       /\ u.stm = "RELAY" => u.to_origin = << >> /\ u.got = 0
    \/ /\ u.parsed = t.parsed + 1
       /\ t.stm # "DONE" /\ u.stm # "RELAY"
       /\ u.open \/ u.stm = "DONE"

\* accept() gives the slot a new session.
LEMMA AcceptStep ==
    ASSUME Inv, socks_passive_read
    PROVE  Sound(s') /\ At(s', pc')
<1>1. s' = socks_session_init /\ pc' = "select"
  BY DEF socks_passive_read
<1>2. /\ Sound(socks_session_init)
      /\ socks_session_init.stm = "AUTH_GREETING"
      /\ ~socks_session_init.close_after_flush
      /\ Synced(socks_session_init)
  <2>1. /\ socks_session_init.c2o = buffer_init /\ socks_session_init.o2c = buffer_init
        /\ socks_session_init.client_i = {"R"}
        /\ socks_session_init.stm = "AUTH_GREETING"
        /\ ~socks_session_init.close_after_flush
    BY DEF socks_session_init
  <2>2. buffer_can_write(buffer_init) /\ ~buffer_can_read(buffer_init)
    <3>1. Len(<< >>) = 0
      OBVIOUS
    <3> QED
      BY <3>1, CapAssumption
         DEF buffer_can_write, buffer_can_read, buffer_space, buffer_init
  <2>3. socks_client_interest(socks_session_init) = {"R"}
    BY <2>1, <2>2 DEF socks_client_interest
  <2> QED
    BY <2>1, <2>3, InitSound DEF Synced
<1>3. At(socks_session_init, "select")
  BY <1>2, SelectAt DEF Flushed
<1> QED
  BY <1>1, <1>2, <1>3

\* A read() in RELAY: the bytes go on to the origin, and what it does not
\* take waits in c2o with OP_WRITE asked for.
LEMMA ClientReadRelayStep ==
    ASSUME Inv, ClientReadRelay
    PROVE  Sound(s') /\ At(s', pc')
<1>1. /\ s.open /\ s.stm = "RELAY" /\ pc' = "select" /\ Sound(s)
  BY DEF ClientReadRelay, ClientEvent, Inv
<1>20. PICK n \in ClientReadSizes : \E u \in socks_flush_origin(Received(n)) :
          s' = set_client_interest(socks_close_if_flushed(set_origin_interest(u)))
  BY DEF ClientReadRelay
<1>2. PICK u \in socks_flush_origin(Received(n)) :
         s' = set_client_interest(socks_close_if_flushed(set_origin_interest(u)))
  BY <1>20
<1> DEFINE t == Received(n)
           v == set_origin_interest(u)
           w == socks_close_if_flushed(v)
           x == set_client_interest(w)
<1>3. Sound(t) /\ Base(t) = Base(s)
  BY <1>1, ReceivedSound
<1>4. u \in socks_flush_origin(t)
  BY <1>2
<1> HIDE DEF t
<1>5. t.open /\ t.stm = "RELAY" /\ t.store_id
  BY <1>1, <1>3, SameBase, OriginWatched
<1>6. /\ Sound(u) /\ u.stm = "RELAY"
      /\ u.open => u.store_id
  BY <1>3, <1>4, <1>5, FlushOrigin
<1>7. /\ Sound(v) /\ v.stm = "RELAY"
      /\ v.open => v.origin_i = socks_origin_interest(v)
  BY <1>6, OriginInterest
<1> HIDE DEF v
<1>8. /\ Sound(w) /\ w.stm = "RELAY"
      /\ w.open => w = v
  BY <1>7, CloseIfFlushed
<1> HIDE DEF w
<1>9. /\ Sound(x) /\ Core(x) = Core(w) /\ x.c2o = w.c2o /\ x.o2c = w.o2c
      /\ x.open => Synced(x)
  BY <1>8, InterestKept DEF Synced
<1> HIDE DEF x
<1>10. x.open = w.open /\ x.stm = "RELAY" /\ x.origin_i = w.origin_i
  BY <1>8, <1>9, SameCore
<1>11. x.open => Armed(x)
  <2>1. x.open => x.origin_i = socks_origin_interest(x)
    BY <1>7, <1>8, <1>9, <1>10 DEF socks_origin_interest
  <2> QED
    BY <2>1 DEF Armed, socks_origin_interest
<1>12. x.open => Flushed(x)
  BY <1>9, <1>10, OriginWatched
<1>13. At(x, "select")
  BY <1>9, <1>11, <1>12, SelectAt
<1>14. s' = x
  BY <1>2 DEF x, w, v
<1> QED
  BY <1>1, <1>9, <1>13, <1>14

\* The other outcomes of client_read.
LEMMA ClientReadStep ==
    ASSUME Inv, socks_client_read
    PROVE  Sound(s') /\ At(s', pc')
<1>0. Sound(s) /\ At(s, pc)
  BY DEF Inv
<1>1. CASE ClientReadRelay
  BY <1>1, ClientReadRelayStep
<1>2. CASE ClientReadHandshake
  <2>1. s.open /\ s.stm # "RELAY"
    BY <1>2 DEF ClientReadHandshake, ClientEvent
  <2>2. PICK n \in ClientReadSizes : s' = Received(n) /\ pc' = ReadLoop(s')
    BY <1>2 DEF ClientReadHandshake
  <2> DEFINE t == Received(n)
  <2>3. Sound(t) /\ Base(t) = Base(s)
    BY <1>0, ReceivedSound
  <2>4. s' = t /\ pc' = ReadLoop(t)
    BY <2>2
  <2> HIDE DEF t
  <2>5. t.open /\ t.stm # "RELAY"
    BY <2>1, <2>3, SameBase
  <2>6. At(t, ReadLoop(t))
    BY <2>5, TailAt
  <2> QED
    BY <2>3, <2>4, <2>6
<1>3. CASE ClientReadAgain
  <2> DEFINE x == set_client_interest(s)
  <2>1. s' = x /\ pc = "select" /\ pc' = "select" /\ s.open
    BY <1>3 DEF ClientReadAgain, ClientEvent
  <2>2. /\ Sound(x) /\ Core(x) = Core(s) /\ x.c2o = s.c2o /\ x.o2c = s.o2c
        /\ x.open => Synced(x)
    BY <1>0, InterestKept DEF Synced
  <2> HIDE DEF x
  <2>3. /\ x.stm = s.stm /\ x.origin_i = s.origin_i /\ x.open = s.open
        /\ x.close_after_flush = s.close_after_flush
        /\ x.ttl_expired = s.ttl_expired
    BY <2>2, SameCore
  <2>30. x.dns_cursor = s.dns_cursor /\ x.dns_result = s.dns_result
    BY <1>0, <2>1, <2>3, InterestKeeps DEF Sound, Shape, HasDns, Keeps, x
  <2>4. (s.stm = "RELAY" => Armed(s)) /\ Flushed(s)
    BY <1>0, <2>1 DEF At
  <2>5. (x.stm = "RELAY" => Armed(x)) /\ Flushed(x)
    BY <2>2, <2>3, <2>30, <2>4 DEF Armed, Flushed, Forgotten
  <2>6. At(x, "select")
    BY <2>2, <2>5, SelectAt
  <2> QED
    BY <2>1, <2>2, <2>6
<1>4. CASE ClientReadClose
  <2>1. s' = socks_client_close(s) /\ pc' = "select" /\ s.open
    BY <1>4 DEF ClientReadClose, ClientEvent
  <2>2. Sound(s') /\ ~s'.open
    BY <1>0, <2>1, CloseSound
  <2> QED
    BY <2>1, <2>2, SelectAt
<1> QED
  BY <1>1, <1>2, <1>3, <1>4 DEF socks_client_read

\* client_write, and the last statements of client_read and client_block.
LEMMA ClientWriteStep ==
    ASSUME Inv, socks_client_write \/ ClientTail
    PROVE  Sound(s') /\ At(s', pc')
<1>0. Sound(s) /\ At(s, pc)
  BY DEF Inv
<1>1. /\ s.open /\ pc' = "select"
      /\ s.stm = "RELAY" => Armed(s)
  BY <1>0 DEF socks_client_write, ClientTail, ClientEvent, At, InHandler
<1>2. PICK u \in socks_flush_client(s) :
         s' = set_client_interest(socks_close_if_flushed(u))
  BY DEF socks_client_write, ClientTail
<1> DEFINE w == set_client_interest(socks_close_if_flushed(u))
<1>3. /\ Sound(w) /\ w.stm = s.stm
      /\ w.open => /\ Synced(w) /\ Flushed(w)
                   /\ w.c2o = s.c2o /\ w.origin_i = s.origin_i
                   /\ buffer_can_write(s.o2c) => buffer_can_write(w.o2c)
  BY <1>0, <1>1, FlushAndClose
<1> HIDE DEF w
<1>4. w.open /\ w.stm = "RELAY" => Armed(w)
  BY <1>1, <1>3 DEF Armed
<1>5. At(w, "select")
  BY <1>3, <1>4, SelectAt
<1> QED
  BY <1>1, <1>2, <1>3, <1>5 DEF w

\* The three outcomes of a parser are verdicts.
LEMMA VerdictForms ==
    ASSUME NEW t \in Shape, t.close_after_flush = FALSE, NEW k, NEW m
    PROVE  /\ [socks_o2c_append(t, k) EXCEPT !.stm = m]
                = Verdict(t, k, m, FALSE, t.node.username)
           /\ [socks_o2c_append(t, k) EXCEPT !.stm = m, !.node.username = TRUE]
                = Verdict(t, k, m, FALSE, TRUE)
           /\ [socks_o2c_append(t, k) EXCEPT !.stm = m, !.close_after_flush = TRUE]
                = Verdict(t, k, m, TRUE, t.node.username)
<1> DEFINE b == buffer_write_adv(t.o2c, <<Reply(k)>>)
<1>1. socks_o2c_append(t, k) = [t EXCEPT !.o2c = b]
  BY DEF Shape, socks_o2c_append
<1>2. [t.node EXCEPT !.username = t.node.username] = t.node
  BY DEF Shape, Entry
<1>3. \A c, name : Verdict(t, k, m, c, name)
                      = [t EXCEPT !.o2c = b, !.stm = m, !.close_after_flush = c,
                                  !.node = [t.node EXCEPT !.username = name]]
  BY DEF Verdict
<1> HIDE DEF b
<1>4. Verdict(t, k, m, FALSE, t.node.username) = [socks_o2c_append(t, k) EXCEPT !.stm = m]
  <2>1. [[t EXCEPT !.o2c = b] EXCEPT !.stm = m]
          = [t EXCEPT !.o2c = b, !.stm = m, !.close_after_flush = FALSE, !.node = t.node]
    BY DEF Shape
  <2>2. [t EXCEPT !.o2c = b, !.stm = m, !.close_after_flush = FALSE, !.node = t.node]
          = Verdict(t, k, m, FALSE, t.node.username)
    <3> DEFINE e == [t.node EXCEPT !.username = t.node.username]
    <3>1. Verdict(t, k, m, FALSE, t.node.username)
            = [t EXCEPT !.o2c = b, !.stm = m, !.close_after_flush = FALSE, !.node = e]
      BY <1>3
    <3>2. e = t.node
      BY <1>2
    <3> HIDE DEF e
    <3> QED
      BY <3>1, <3>2
  <2> QED
    BY <1>1, <2>1, <2>2
<1>5. Verdict(t, k, m, FALSE, TRUE)
        = [socks_o2c_append(t, k) EXCEPT !.stm = m, !.node.username = TRUE]
  <2>1. [[t EXCEPT !.o2c = b] EXCEPT !.stm = m, !.node.username = TRUE]
          = [t EXCEPT !.o2c = b, !.stm = m, !.close_after_flush = FALSE,
                      !.node = [t.node EXCEPT !.username = TRUE]]
    BY DEF Shape
  <2> QED
    BY <1>1, <1>3, <2>1
<1>6. Verdict(t, k, m, TRUE, t.node.username)
        = [socks_o2c_append(t, k) EXCEPT !.stm = m, !.close_after_flush = TRUE]
  <2>1. [[t EXCEPT !.o2c = b] EXCEPT !.stm = m, !.close_after_flush = TRUE]
          = [t EXCEPT !.o2c = b, !.stm = m, !.close_after_flush = TRUE, !.node = t.node]
    BY DEF Shape
  <2>2. [t EXCEPT !.o2c = b, !.stm = m, !.close_after_flush = TRUE, !.node = t.node]
          = Verdict(t, k, m, TRUE, t.node.username)
    <3> DEFINE e == [t.node EXCEPT !.username = t.node.username]
    <3>1. Verdict(t, k, m, TRUE, t.node.username)
            = [t EXCEPT !.o2c = b, !.stm = m, !.close_after_flush = TRUE, !.node = e]
      BY <1>3
    <3>2. e = t.node
      BY <1>2
    <3> HIDE DEF e
    <3> QED
      BY <3>1, <3>2
  <2> QED
    BY <1>1, <2>1, <2>2
<1> QED
  BY <1>4, <1>5, <1>6, Zenon

\* A byte that ends the greeting or the credentials.
LEMMA VerdictStep ==
    ASSUME Inv, socks_on_read_greeting \/ socks_on_read_auth
    PROVE  Sound(s') /\ At(s', pc') /\ Listens(s, s')
<1> DEFINE t == Consumed
<1>0. /\ Sound(s) /\ s.open /\ s.c2o.q # << >>
      /\ s.stm \in {"AUTH_GREETING", "AUTH_USERPASS"}
  BY DEF Inv, At, InHandler, socks_on_read_greeting, socks_on_read_auth, Feeding
<1>1. Sound(t) /\ Base(t) = Base(s) /\ t.parsed = s.parsed + 1
  BY <1>0, ConsumedSound DEF Parsing
<1>2. \/ /\ s.stm = "AUTH_GREETING"
         /\ \/ Parsed([socks_o2c_append(t, "method") EXCEPT !.stm = "AUTH_USERPASS"])
            \/ Parsed([socks_o2c_append(t, "method") EXCEPT
                          !.stm = "REQUEST", !.node.username = TRUE])
            \/ Parsed([socks_o2c_append(t, "no_method") EXCEPT
                          !.stm = "DONE", !.close_after_flush = TRUE])
      \/ /\ s.stm = "AUTH_USERPASS"
         /\ \/ Parsed([socks_o2c_append(t, "auth_ok") EXCEPT
                          !.stm = "REQUEST", !.node.username = TRUE])
            \/ Parsed([socks_o2c_append(t, "auth_fail") EXCEPT
                          !.stm = "DONE", !.close_after_flush = TRUE])
  BY DEF socks_on_read_greeting, socks_on_read_auth, Feeding
<1> HIDE DEF t
<1>3. /\ t.open /\ t.stm = s.stm /\ t.close_after_flush = FALSE /\ t \in Shape
      /\ t.node.username \in BOOLEAN
  <2>1. t.open = s.open /\ t.stm = s.stm
    BY <1>1, SameBase
  <2>2. t \in Shape /\ Mode(t)
    BY <1>1 DEF Sound
  <2>3. t.close_after_flush \in BOOLEAN /\ t.node.username \in BOOLEAN
    BY <2>2 DEF Shape, Entry
  <2>4. ~t.close_after_flush
    BY <1>0, <2>1, <2>2 DEF Mode
  <2> QED
    BY <1>0, <2>1, <2>2, <2>3, <2>4
<1> DEFINE Out(u) == Sound(u) /\ u.open /\ u.stm # "RELAY" /\ u.parsed = t.parsed
           K == Kinds \ ({"data"} \cup ConnectReply)
<1>4. ASSUME NEW k \in K, NEW m \in {"AUTH_USERPASS", "REQUEST", "DONE"},
             NEW c \in BOOLEAN, NEW name \in BOOLEAN,
             m = "AUTH_USERPASS" => t.stm = "AUTH_GREETING",
             c => m = "DONE", m = "REQUEST" => name
      PROVE  Out(Verdict(t, k, m, c, name))
  BY <1>0, <1>1, <1>3, <1>4, VerdictSound
<1>5. /\ "method" \in K /\ "no_method" \in K
      /\ "auth_ok" \in K /\ "auth_fail" \in K
  BY DEF Kinds, ConnectReply
<1> HIDE DEF Out, K
<1>6. ASSUME t.stm = "AUTH_GREETING"
      PROVE  Out([socks_o2c_append(t, "method") EXCEPT !.stm = "AUTH_USERPASS"])
  <2>1. Out(Verdict(t, "method", "AUTH_USERPASS", FALSE, t.node.username))
    BY <1>3, <1>4, <1>5, <1>6
  <2> QED
    BY <1>3, <2>1, VerdictForms, Zenon
<1>7. ASSUME NEW k \in {"method", "auth_ok"}
      PROVE  Out([socks_o2c_append(t, k) EXCEPT !.stm = "REQUEST", !.node.username = TRUE])
  <2>1. Out(Verdict(t, k, "REQUEST", FALSE, TRUE))
    BY <1>4, <1>5
  <2> QED
    BY <1>3, <2>1, VerdictForms, Zenon
<1>8. ASSUME NEW k \in {"no_method", "auth_fail"}
      PROVE  Out([socks_o2c_append(t, k) EXCEPT !.stm = "DONE", !.close_after_flush = TRUE])
  <2>1. Out(Verdict(t, k, "DONE", TRUE, t.node.username))
    BY <1>3, <1>4, <1>5
  <2> QED
    BY <1>3, <2>1, VerdictForms, Zenon
<1>9. \E u : Out(u) /\ Parsed(u)
  BY <1>2, <1>3, <1>6, <1>7, <1>8
<1>10. PICK u : Out(u) /\ Parsed(u)
  BY <1>9
<1>11. s' = u /\ pc' = ReadLoop(u)
  BY <1>10 DEF Parsed
<1>12. Sound(u) /\ At(u, ReadLoop(u))
  BY <1>10, TailAt DEF Out
<1>13. Listens(s, u)
  BY <1>0, <1>1, <1>10 DEF Out, Listens
<1> QED
  BY <1>11, <1>12, <1>13

\* A byte that does not end a message.
LEMMA NeedMoreStep ==
    ASSUME Inv, NeedMore
    PROVE  Sound(s') /\ At(s', pc') /\ Listens(s, s')
<1> DEFINE t == Consumed
<1>0. Sound(s) /\ s.open /\ s.stm \in Parsing /\ s.c2o.q # << >>
  BY DEF Inv, At, InHandler, NeedMore
<1>1. Sound(t) /\ Base(t) = Base(s) /\ t.parsed = s.parsed + 1
  BY <1>0, ConsumedSound
<1>2. s' = t /\ pc' = ReadLoop(t)
  BY DEF NeedMore, Parsed
<1> HIDE DEF t
<1>3. t.open /\ t.stm # "RELAY"
  BY <1>0, <1>1, SameBase DEF Parsing
<1>4. Listens(s, t)
  BY <1>0, <1>1, <1>3 DEF Listens, Parsing
<1> QED
  BY <1>1, <1>2, <1>3, <1>4, TailAt

\* The phase that the monitor shows, and the start of a resolution.
LEMMA RequestSound ==
    ASSUME NEW t, Sound(t), t.open, t.stm = "REQUEST",
           NEW p \in {"AUTH", "CONNECTING"}
    PROVE  LET u == [t EXCEPT !.node.phase = p]
               v == [t EXCEPT !.node.phase = p, !.stm = "RESOLVING",
                              !.dns_resolving = TRUE, !.dns_result = 0,
                              !.dns_cursor = 0]
           IN  /\ Sound(u) /\ u.open /\ u.stm = "REQUEST" /\ u.origin_i = {}
               /\ Sound(v) /\ v.open /\ v.stm = "RESOLVING"
<1> DEFINE e == [t.node EXCEPT !.phase = p]
           u == [t EXCEPT !.node.phase = p]
           v == [t EXCEPT !.node.phase = p, !.stm = "RESOLVING",
                          !.dns_resolving = TRUE, !.dns_result = 0, !.dns_cursor = 0]
<1>0. t \in Shape /\ Mode(t) /\ t.node \in Entry
  BY DEF Sound, Shape
<1>1. t.origin_i = {}
  BY <1>0 DEF Mode, Late
<1>2. /\ e \in Entry /\ e.active = t.node.active /\ e.username = t.node.username
      /\ e.host = t.node.host /\ e.log = t.node.log
      /\ e.bytes_up = t.node.bytes_up /\ e.bytes_down = t.node.bytes_down
  BY <1>0 DEF Entry
<1>3. u = [t EXCEPT !.node = e]
  BY <1>0 DEF Shape
<1>4. v = [t EXCEPT !.node = e, !.stm = "RESOLVING",
                    !.dns_resolving = TRUE, !.dns_result = 0, !.dns_cursor = 0]
  BY <1>0 DEF Shape
<1> HIDE DEF e, u, v
<1> DEFINE Same(x) ==
             /\ x \in Shape /\ x.node = e
             /\ x.open = t.open /\ x.ttl_expired = t.ttl_expired
             /\ x.close_after_flush = t.close_after_flush /\ x.store_id = t.store_id
             /\ x.origin_i = t.origin_i
             /\ x.sent = t.sent /\ x.parsed = t.parsed /\ x.got = t.got
             /\ x.to_origin = t.to_origin /\ x.to_client = t.to_client
             /\ x.c2o = t.c2o /\ x.o2c = t.o2c
<1>5. Same(u) /\ u.stm = "REQUEST"
  BY <1>0, <1>2, <1>3 DEF Shape
<1>6. Same(v) /\ v.stm = "RESOLVING"
  <2>1. "RESOLVING" \in SocksState /\ 0 \in 0..Addrs
    BY SessionAssumption DEF SocksState
  <2> QED
    BY <1>0, <1>2, <1>4, <2>1 DEF Shape
<1>7. ASSUME NEW x, Same(x), x.stm \in {"REQUEST", "RESOLVING"}
      PROVE  Sound(x)
  BY <1>1, <1>2, <1>7, AdvanceSound
<1>8. Sound(u) /\ Sound(v)
  BY <1>5, <1>6, <1>7
<1> QED
  BY <1>1, <1>5, <1>6, <1>8 DEF u, v

\* fail_request in a handler that goes on at p.
LEMMA FailStep ==
    ASSUME NEW t, Sound(t), t.open,
           t.stm \in {"REQUEST", "RESOLVING", "ORIGIN_CONNECTING"},
           t.origin_i = {}, NEW p, FailRequest(t, p),
           p = "tail" \/ (p = "select" /\ Forgotten(t))
    PROVE  /\ Sound(s') /\ At(s', pc')
           /\ s'.stm = "DONE" /\ s'.parsed = t.parsed /\ Keeps(t, s')
<1>1. PICK u \in socks_fail_request(t) :
         s' = u /\ pc' = IF u.open THEN p ELSE "handler_use_after_free"
  BY DEF FailRequest
<1>2. /\ Sound(u) /\ u.stm = "DONE" /\ u.parsed = t.parsed
      /\ u.open => Synced(u) /\ u.ttl_expired = t.ttl_expired
      /\ Keeps(t, u)
  BY FailSound
<1>3. CASE u.open
  <2>1. pc' = p
    BY <1>1, <1>3
  <2>2. At(u, "tail")
    BY <1>2, <1>3, TailAt
  <2>3. Forgotten(t) => At(u, "select")
    BY <1>2, <1>3, SelectAt DEF Flushed, Forgotten, Keeps
  <2> QED
    BY <1>1, <1>2, <2>1, <2>2, <2>3
<1>4. CASE ~u.open
  <2>1. At(u, "handler_use_after_free")
    BY CrashAt DEF Crashed
  <2> QED
    BY <1>1, <1>2, <1>4, <2>1
<1> QED
  BY <1>3, <1>4

\* A byte that ends the request.
LEMMA RequestStep ==
    ASSUME Inv, socks_on_read_request
    PROVE  Sound(s') /\ At(s', pc') /\ Listens(s, s')
<1> DEFINE t == Consumed
<1>0. Sound(s) /\ s.open /\ s.stm = "REQUEST" /\ s.c2o.q # << >>
  BY DEF Inv, At, InHandler, socks_on_read_request, RequestRefused,
         socks_start_dns_resolve, RequestAddr, Feeding
<1>1. Sound(t) /\ Base(t) = Base(s) /\ t.parsed = s.parsed + 1
  BY <1>0, ConsumedSound DEF Parsing
<1>2. \/ \E phase \in {"AUTH", "CONNECTING"} :
            FailRequest([t EXCEPT !.node.phase = phase], "tail")
      \/ /\ s' = [t EXCEPT !.node.phase = "CONNECTING", !.stm = "RESOLVING",
                           !.dns_resolving = TRUE, !.dns_result = 0, !.dns_cursor = 0]
         /\ pc' = "tail"
      \/ s' = [t EXCEPT !.node.phase = "CONNECTING"] /\ pc' = "connect"
  BY DEF socks_on_read_request, RequestRefused, socks_start_dns_resolve, RequestAddr
<1> HIDE DEF t
<1>3. t.open /\ t.stm = "REQUEST" /\ t \in Shape
  BY <1>0, <1>1, SameBase DEF Sound
<1>4. CASE \E phase \in {"AUTH", "CONNECTING"} :
              FailRequest([t EXCEPT !.node.phase = phase], "tail")
  <2>1. PICK phase \in {"AUTH", "CONNECTING"} :
           FailRequest([t EXCEPT !.node.phase = phase], "tail")
    BY <1>4
  <2> DEFINE u == [t EXCEPT !.node.phase = phase]
  <2>2. Sound(u) /\ u.open /\ u.stm = "REQUEST" /\ u.origin_i = {}
    BY <1>1, <1>3, RequestSound
  <2>3. FailRequest(u, "tail") /\ u.parsed = t.parsed
    BY <1>3, <2>1 DEF Shape
  <2> HIDE DEF u
  <2>4. Sound(s') /\ At(s', pc') /\ s'.stm = "DONE" /\ s'.parsed = t.parsed
    BY <2>2, <2>3, FailStep
  <2> QED
    BY <1>0, <1>1, <2>4 DEF Listens
<1>5. CASE /\ s' = [t EXCEPT !.node.phase = "CONNECTING", !.stm = "RESOLVING",
                             !.dns_resolving = TRUE, !.dns_result = 0, !.dns_cursor = 0]
           /\ pc' = "tail"
  <2> DEFINE v == [t EXCEPT !.node.phase = "CONNECTING", !.stm = "RESOLVING",
                            !.dns_resolving = TRUE, !.dns_result = 0, !.dns_cursor = 0]
  <2>1. Sound(v) /\ v.open /\ v.stm = "RESOLVING"
    BY <1>1, <1>3, RequestSound
  <2>2. s' = v /\ pc' = "tail" /\ v.parsed = t.parsed
    BY <1>3, <1>5 DEF Shape
  <2> HIDE DEF v
  <2>3. Listens(s, v)
    BY <1>0, <1>1, <2>1, <2>2 DEF Listens
  <2> QED
    BY <2>1, <2>2, <2>3, TailAt
<1>6. CASE s' = [t EXCEPT !.node.phase = "CONNECTING"] /\ pc' = "connect"
  <2> DEFINE u == [t EXCEPT !.node.phase = "CONNECTING"]
  <2>1. Sound(u) /\ u.open /\ u.stm = "REQUEST"
    BY <1>1, <1>3, RequestSound
  <2>2. s' = u /\ pc' = "connect" /\ u.parsed = t.parsed
    BY <1>3, <1>6 DEF Shape
  <2> HIDE DEF u
  <2>3. At(u, "connect")
    BY <2>1 DEF At, InHandler
  <2>4. Listens(s, u)
    BY <1>0, <1>1, <2>1, <2>2 DEF Listens
  <2> QED
    BY <2>1, <2>2, <2>3, <2>4
<1> QED
  BY <1>2, <1>4, <1>5, <1>6

\* The result of a resolution and the address tried next change neither what
\* is sound nor where a handler is.
LEMMA DnsKept ==
    ASSUME NEW t, Sound(t), NEW u \in Shape,
           u.open = t.open, u.stm = t.stm, u.close_after_flush = t.close_after_flush,
           u.ttl_expired = t.ttl_expired, u.client_i = t.client_i,
           u.origin_i = t.origin_i, u.origin_fd = t.origin_fd,
           u.store_id = t.store_id, u.node = t.node,
           u.sent = t.sent, u.parsed = t.parsed, u.got = t.got,
           u.to_client = t.to_client, u.to_origin = t.to_origin,
           u.c2o = t.c2o, u.o2c = t.o2c
    PROVE  /\ Sound(u)
           /\ u.dns_cursor = t.dns_cursor /\ u.dns_result = t.dns_result =>
                 \A p : At(t, p) => At(u, p)
<1>1. Room(t)
  BY DEF Sound
<1>2. Core(u) = Core(t) /\ Room(u)
  BY <1>1 DEF Core, Up, Down, Room
<1>3. Sound(u)
  BY <1>2, CoreKept
<1>4. ASSUME u.dns_cursor = t.dns_cursor, u.dns_result = t.dns_result,
             NEW p, At(t, p)
      PROVE  At(u, p)
  BY <1>4 DEF At, Synced, socks_client_interest, Armed, Flushed, Forgotten
<1> QED
  BY <1>3, <1>4

\* connect() to the next address is under way.
LEMMA ConnectStartedStep ==
    ASSUME Inv, ConnectStarted
    PROVE  Sound(s') /\ At(s', pc') /\ Listens(s, s')
<1> DEFINE u == [s EXCEPT !.origin_fd = TRUE, !.origin_i = {"W"},
                          !.stm = "ORIGIN_CONNECTING"]
<1>0. /\ Sound(s) /\ s \in Shape /\ s.open
      /\ s.stm \in {"REQUEST", "RESOLVING", "ORIGIN_CONNECTING"}
      /\ pc = "connect" \/ (pc = "reconnect" /\ Synced(s))
  BY DEF Inv, Sound, At, InHandler, ConnectStarted, Connecting
<1>1. s' = u /\ pc' = AfterConnect
  BY DEF ConnectStarted
<1>2. /\ u \in Shape /\ u.stm = "ORIGIN_CONNECTING" /\ u.origin_i = {"W"}
      /\ u.open = s.open /\ u.ttl_expired = s.ttl_expired
      /\ u.close_after_flush = s.close_after_flush /\ u.store_id = s.store_id
      /\ u.node = s.node /\ u.client_i = s.client_i
      /\ u.sent = s.sent /\ u.parsed = s.parsed /\ u.got = s.got
      /\ u.to_origin = s.to_origin /\ u.to_client = s.to_client
      /\ u.c2o = s.c2o /\ u.o2c = s.o2c
  <2>1. "ORIGIN_CONNECTING" \in SocksState /\ {"W"} \in Interests
    BY DEF SocksState, Interests
  <2> QED
    BY <1>0, <2>1 DEF Shape
<1> HIDE DEF u
<1>3. Sound(u)
  BY <1>0, <1>2, AdvanceSound
<1>4. At(u, "tail")
  BY <1>0, <1>2, TailAt
<1>5. pc = "reconnect" => At(u, "select")
  <2>1. Synced(s) => Synced(u)
    BY <1>2 DEF Synced, socks_client_interest
  <2>2. Flushed(u)
    BY <1>0, <1>2, <1>3 DEF Sound, Mode, Flushed
  <2> QED
    BY <1>0, <1>2, <2>1, <2>2, SelectAt
<1>6. Listens(s, u)
  BY <1>2 DEF Listens
<1> QED
  BY <1>0, <1>1, <1>3, <1>4, <1>5, <1>6 DEF AfterConnect

\* begin_origin_connect.
LEMMA ConnectStep ==
    ASSUME Inv, socks_begin_origin_connect
    PROVE  Sound(s') /\ At(s', pc') /\ Listens(s, s')
<1>0. /\ Sound(s) /\ s \in Shape /\ At(s, pc) /\ s.open
      /\ s.stm \in {"REQUEST", "RESOLVING", "ORIGIN_CONNECTING"}
      /\ s.origin_i = {}
      /\ pc = "connect" \/ (pc = "reconnect" /\ Forgotten(s))
      /\ s.dns_cursor <= s.dns_result
  <2>1. pc \in {"connect", "reconnect"}
    BY DEF socks_begin_origin_connect, ConnectStarted, ConnectNext, ConnectRefused, Connecting
  <2> QED
    BY <2>1 DEF Inv, Sound, Mode, Late, At, InHandler, Forgotten, Resolved
<1>1. CASE ConnectStarted
  BY <1>1, ConnectStartedStep
<1>2. CASE ConnectNext
  <2> DEFINE u == [s EXCEPT !.dns_cursor = s.dns_cursor - 1]
  <2>1. s' = u /\ pc' = pc
    BY <1>0, <1>2 DEF ConnectNext, Shape
  <2>2. s.dns_cursor - 1 \in 0..Addrs
    BY <1>0, <1>2, SessionAssumption DEF ConnectNext, Shape
  <2>3. /\ u \in Shape
        /\ u.open = s.open /\ u.stm = s.stm /\ u.close_after_flush = s.close_after_flush
        /\ u.ttl_expired = s.ttl_expired /\ u.client_i = s.client_i
        /\ u.origin_i = s.origin_i /\ u.origin_fd = s.origin_fd
        /\ u.store_id = s.store_id /\ u.node = s.node
        /\ u.sent = s.sent /\ u.parsed = s.parsed /\ u.got = s.got
        /\ u.to_client = s.to_client /\ u.to_origin = s.to_origin
        /\ u.c2o = s.c2o /\ u.o2c = s.o2c
    BY <1>0, <2>2 DEF Shape
  <2> HIDE DEF u
  <2>4. Sound(u)
    BY <1>0, <2>3, DnsKept
  <2>40. At(u, pc)
    <3>1. u.dns_cursor = s.dns_cursor - 1 /\ u.dns_result = s.dns_result
      BY <1>0 DEF Shape, u
    <3>2. s.dns_cursor > 1 /\ s.dns_cursor \in Int /\ s.dns_result \in Int
      BY <1>0, <1>2, SessionAssumption DEF ConnectNext, Shape
    <3>3. u.dns_cursor \in 1..(u.dns_result - 1)
      BY <1>0, <3>1, <3>2
    <3>4. CASE pc = "connect"
      BY <1>0, <2>3, <3>4 DEF At, InHandler, Crashed
    <3>5. CASE pc = "reconnect"
      BY <1>0, <2>3, <3>3, <3>5
         DEF At, InHandler, Crashed, Synced, socks_client_interest
    <3> QED
      BY <1>0, <3>4, <3>5
  <2>5. Listens(s, u)
    BY <1>0, <2>3 DEF Listens
  <2> QED
    BY <2>1, <2>4, <2>40, <2>5
<1>3. CASE ConnectRefused
  <2>1. FailRequest(s, AfterConnect)
    BY <1>3 DEF ConnectRefused
  <2>2. AfterConnect = "tail" \/ (AfterConnect = "select" /\ Forgotten(s))
    BY <1>0 DEF AfterConnect
  <2>3. Sound(s') /\ At(s', pc') /\ s'.stm = "DONE" /\ s'.parsed = s.parsed
    BY <1>0, <2>1, <2>2, FailStep
  <2> QED
    BY <2>3 DEF Listens
<1> QED
  BY <1>1, <1>2, <1>3 DEF socks_begin_origin_connect

\* The origin is given up.
LEMMA DestroySound ==
    ASSUME Sound(s), s.open, s.stm = "ORIGIN_CONNECTING", NEW c \in 0..Addrs
    PROVE  LET u == socks_session_destroy_origin(s)
               v == [u EXCEPT !.dns_cursor = c]
           IN  /\ Sound(u) /\ u.open /\ u.stm = s.stm /\ u.origin_i = {}
               /\ u.dns_cursor = s.dns_cursor
               /\ Sound(v) /\ v.open /\ v.stm = s.stm /\ v.origin_i = {}
               /\ u.parsed = s.parsed /\ v.parsed = s.parsed
               /\ v.dns_cursor = c /\ v.dns_result = s.dns_result
               /\ Synced(s) => Synced(v)
<1> DEFINE u == socks_session_destroy_origin(s)
           v == [u EXCEPT !.dns_cursor = c]
<1>0. s \in Shape /\ {} \in Interests
  BY DEF Sound, Interests
<1> DEFINE Same(x) ==
             /\ x \in Shape /\ x.origin_i = {} /\ x.stm = s.stm
             /\ x.open = s.open /\ x.ttl_expired = s.ttl_expired
             /\ x.close_after_flush = s.close_after_flush /\ x.store_id = s.store_id
             /\ x.node = s.node /\ x.client_i = s.client_i
             /\ x.sent = s.sent /\ x.parsed = s.parsed /\ x.got = s.got
             /\ x.to_origin = s.to_origin /\ x.to_client = s.to_client
             /\ x.c2o = s.c2o /\ x.o2c = s.o2c
<1>1. Same(u) /\ u.dns_cursor = s.dns_cursor /\ u.dns_result = s.dns_result
  BY <1>0 DEF Shape, socks_session_destroy_origin
<1>2. Same(v) /\ v.dns_cursor = c /\ v.dns_result = s.dns_result
  <2> HIDE DEF u
  <2> QED
    BY <1>1 DEF Shape
<1> HIDE DEF u, v
<1>3. ASSUME NEW x, Same(x)
      PROVE  Sound(x)
  BY <1>3, AdvanceSound
<1>4. Sound(u) /\ Sound(v)
  BY <1>1, <1>2, <1>3
<1>5. Synced(s) => Synced(v)
  BY <1>2 DEF Synced, socks_client_interest
<1> QED
  BY <1>1, <1>2, <1>4, <1>5 DEF u, v

\* origin_connect_complete.
LEMMA OriginConnectStep ==
    ASSUME Inv, socks_origin_connect_complete
    PROVE  Sound(s') /\ At(s', pc') /\ Listens(s, s')
<1>0. /\ Sound(s) /\ s \in Shape /\ s.open /\ s.stm = "ORIGIN_CONNECTING" /\ Synced(s)
      /\ s.to_origin = << >> /\ s.got = 0
  BY DEF Inv, Sound, Mode, Late, At, socks_origin_connect_complete, OriginConnected, OriginRetry,
         OriginUnreachable, OriginEvent
<1>1. CASE OriginConnected
  <2> DEFINE u == Tunnel(s)
  <2>1. socks_o2c_append(s, "connect_ok").store_id = s.store_id
    BY <1>0 DEF socks_o2c_append, Shape
  <2>2. PICK v \in socks_flush_client(u) :
           s' = set_client_interest(set_origin_interest(v))
    BY <1>1, <2>1 DEF OriginConnected, Tunnel
  <2>3. Sound(u) /\ u.open /\ u.store_id /\ u.stm = "RELAY"
        /\ u.parsed = s.parsed /\ u.to_origin = s.to_origin /\ u.got = s.got
    BY <1>0, TunnelSound
  <2> HIDE DEF u
  <2>4. /\ Sound(v) /\ v.stm = "RELAY"
        /\ v.parsed = s.parsed /\ v.to_origin = s.to_origin /\ v.got = s.got
        /\ v.open => v.store_id
    BY <2>3, FlushClient, OriginWatched
  <2> DEFINE w == set_origin_interest(v)
             x == set_client_interest(w)
  <2>5. /\ Sound(w) /\ w.stm = "RELAY"
        /\ w.parsed = s.parsed /\ w.to_origin = s.to_origin /\ w.got = s.got
        /\ w.open => w.origin_i = socks_origin_interest(w)
    BY <2>4, OriginInterest
  <2> HIDE DEF w
  <2>6. /\ Sound(x) /\ Core(x) = Core(w) /\ x.c2o = w.c2o /\ x.o2c = w.o2c
        /\ x.open => Synced(x)
    BY <2>5, InterestKept DEF Synced
  <2> HIDE DEF x
  <2>7. /\ x.open = w.open /\ x.stm = "RELAY" /\ x.origin_i = w.origin_i
        /\ x.parsed = s.parsed /\ x.to_origin = s.to_origin /\ x.got = s.got
    BY <2>5, <2>6, SameCore
  <2>8. x.open => Armed(x) /\ Flushed(x)
    <3>1. x.open => x.origin_i = socks_origin_interest(x)
      BY <2>5, <2>6, <2>7 DEF socks_origin_interest
    <3> QED
      BY <2>6, <2>7, <3>1, OriginWatched DEF Armed, socks_origin_interest
  <2>9. s' = x /\ pc' = "select"
    BY <1>1, <2>2 DEF x, w, OriginConnected, OriginEvent
  <2>10. Listens(s, x)
    BY <1>0, <2>7 DEF Listens
  <2> QED
    BY <2>6, <2>8, <2>9, <2>10, SelectAt
<1>2. CASE OriginRetry
  <2> DEFINE c == s.dns_cursor - 1
             u == socks_session_destroy_origin(s)
             v == [u EXCEPT !.dns_cursor = c]
  <2>1. s.dns_cursor \in 0..Addrs /\ s.dns_cursor > 1
    BY <1>0, <1>2 DEF Shape, OriginRetry
  <2>2. c \in 0..Addrs /\ c \in 1..(s.dns_result - 1)
    BY <1>0, <2>1, SessionAssumption DEF Inv, Resolved, Shape
  <2>3. /\ u.dns_cursor = s.dns_cursor
        /\ Sound(v) /\ v.open /\ v.stm = s.stm /\ v.origin_i = {} /\ Synced(v)
        /\ v.parsed = s.parsed /\ v.dns_cursor = c /\ v.dns_result = s.dns_result
    <3> HIDE DEF c
    <3> QED
      BY <1>0, <2>2, DestroySound
  <2>4. s' = v /\ pc' = "reconnect"
    BY <1>2, <2>3 DEF OriginRetry
  <2> HIDE DEF v
  <2>5. At(v, "reconnect")
    BY <1>0, <2>2, <2>3 DEF At, InHandler
  <2>6. Listens(s, v)
    BY <1>0, <2>3 DEF Listens
  <2> QED
    BY <2>3, <2>4, <2>5, <2>6
<1>3. CASE OriginUnreachable
  <2> DEFINE t == socks_session_destroy_origin(s)
  <2>1. PICK u \in socks_fail_request(t) :
           /\ s' = socks_close_if_flushed(u)
           /\ pc' = IF u.open THEN "select" ELSE "handler_use_after_free"
    BY <1>3 DEF OriginUnreachable
  <2>2. Sound(t) /\ t.open /\ t.stm = "ORIGIN_CONNECTING" /\ t.origin_i = {}
        /\ t.parsed = s.parsed
    <3>1. 0 \in 0..Addrs
      BY SessionAssumption
    <3> QED
      BY <1>0, <3>1, DestroySound
  <2> HIDE DEF t
  <2>3. /\ Sound(u) /\ u.stm = "DONE" /\ u.parsed = s.parsed
        /\ u.open => Synced(u)
    BY <2>2, FailSound
  <2> DEFINE w == socks_close_if_flushed(u)
  <2>4. /\ Sound(w) /\ w.stm = "DONE" /\ w.parsed = s.parsed
        /\ w.open => w = u
        /\ w.open /\ w.close_after_flush => buffer_can_read(w.o2c)
    BY <2>3, CloseIfFlushed
  <2> HIDE DEF w
  <2>5. At(w, "select")
    BY <2>3, <2>4, SelectAt DEF Flushed
  <2>6. At(w, "handler_use_after_free")
    BY CrashAt DEF Crashed
  <2>7. Listens(s, w)
    BY <2>4 DEF Listens
  <2> QED
    BY <2>1, <2>4, <2>5, <2>6, <2>7 DEF w
<1> QED
  BY <1>1, <1>2, <1>3 DEF socks_origin_connect_complete

\* The origin takes bytes of c2o, or sends bytes: both interests follow.
LEMMA OriginRelayStep ==
    ASSUME Inv, OriginDrain \/ OriginReadData
    PROVE  Sound(s') /\ At(s', pc')
<1>0. /\ Sound(s) /\ s.open /\ s.store_id /\ pc' = "select"
      /\ s.stm = "RELAY" \/ Late(s)
  BY OriginWatched DEF Inv, OriginDrain, OriginReadData, OriginEvent
<1>1. \E w : /\ Sound(w) /\ s' = w
             /\ w.open => /\ Synced(w) /\ w.origin_i = socks_origin_interest(w)
                          /\ w.stm = "RELAY" \/ Late(w)
  <2>1. CASE OriginDrain
    <3>1. PICK u \in socks_flush_origin(s) :
             s' = set_client_interest(set_origin_interest(u))
      BY <2>1 DEF OriginDrain
    <3>2. /\ Sound(u)
          /\ u.open => u.store_id /\ (u.stm = "RELAY" \/ Late(u))
      BY <1>0, FlushOrigin DEF Late
    <3> DEFINE v == set_origin_interest(u)
               w == set_client_interest(v)
    <3>3. /\ Sound(v) /\ v.open = u.open /\ v.stm = u.stm
          /\ v.ttl_expired = u.ttl_expired
          /\ v.open => v.origin_i = socks_origin_interest(v)
      BY <3>2, OriginInterest
    <3> HIDE DEF v
    <3>4. /\ Sound(w) /\ Core(w) = Core(v) /\ w.c2o = v.c2o /\ w.o2c = v.o2c
          /\ w.open => Synced(w)
      BY <3>3, InterestKept DEF Synced
    <3> HIDE DEF w
    <3>5. /\ w.open = v.open /\ w.stm = v.stm /\ w.ttl_expired = v.ttl_expired
          /\ w.origin_i = v.origin_i
      BY <3>4, SameCore
    <3>6. w.open => w.origin_i = socks_origin_interest(w)
      BY <3>3, <3>4, <3>5 DEF socks_origin_interest
    <3>7. w.open => w.stm = "RELAY" \/ Late(w)
      BY <3>2, <3>3, <3>5 DEF Late
    <3>8. s' = w
      BY <3>1 DEF v, w
    <3> QED
      BY <3>4, <3>6, <3>7, <3>8
  <2>2. CASE OriginReadData
    <3> DEFINE T(n) == [s EXCEPT
                          !.o2c = buffer_write_adv(@, OriginBytes(s.got, n)),
                          !.got = @ + n,
                          !.node.bytes_down = IF s.store_id THEN @ + n ELSE @]
    <3>1. PICK n \in 1..OStream :
             /\ n <= buffer_space(s.o2c)
             /\ s.got + n <= OStream
             /\ \E u \in socks_flush_client(T(n)) :
                   s' = set_origin_interest(set_client_interest(u))
      BY <2>2 DEF OriginReadData
    <3>2. PICK u \in socks_flush_client(T(n)) :
             s' = set_origin_interest(set_client_interest(u))
      BY <3>1
    <3> DEFINE t == T(n)
    <3>3. /\ Sound(t) /\ t.open /\ t.store_id
          /\ t.stm = "RELAY" \/ Late(t)
      BY <1>0, <3>1, OriginReadSound
    <3>4. u \in socks_flush_client(t)
      BY <3>2
    <3> HIDE DEF t, T
    <3>5. /\ Sound(u) /\ u.stm = t.stm
          /\ u.open => Core(u) = Core(t)
      BY <3>3, <3>4, FlushClient
    <3>6. u.open => u.store_id /\ (u.stm = "RELAY" \/ Late(u))
      BY <3>3, <3>5, SameCore DEF Late
    <3> DEFINE v == set_client_interest(u)
               w == set_origin_interest(v)
    <3>7. /\ Sound(v) /\ Core(v) = Core(u)
          /\ v.open => Synced(v)
      BY <3>5, InterestKept DEF Synced
    <3> HIDE DEF v
    <3>8. v.open => v.store_id /\ (v.stm = "RELAY" \/ Late(v))
      BY <3>6, <3>7, SameCore DEF Late
    <3>9. /\ Sound(w) /\ w.open = v.open /\ w.stm = v.stm
          /\ w.ttl_expired = v.ttl_expired
          /\ w.c2o = v.c2o /\ w.o2c = v.o2c /\ w.client_i = v.client_i
          /\ w.open => w.origin_i = socks_origin_interest(w)
      BY <3>7, <3>8, OriginInterest
    <3> HIDE DEF w
    <3>10. w.open => Synced(w)
      BY <3>7, <3>9 DEF Synced, socks_client_interest
    <3>11. w.open => w.stm = "RELAY" \/ Late(w)
      BY <3>8, <3>9 DEF Late
    <3>12. s' = w
      BY <3>2 DEF v, w
    <3> QED
      BY <3>9, <3>10, <3>11, <3>12
  <2> QED
    BY <2>1, <2>2
<1>2. PICK w : /\ Sound(w) /\ s' = w
               /\ w.open => /\ Synced(w) /\ w.origin_i = socks_origin_interest(w)
                            /\ w.stm = "RELAY" \/ Late(w)
  BY <1>1
<1>3. w.open => Armed(w) /\ Flushed(w)
  BY <1>2, OriginWatched DEF Armed, socks_origin_interest
<1> QED
  BY <1>0, <1>2, <1>3, SelectAt

\* The other outcomes of origin_read.
LEMMA OriginReadStep ==
    ASSUME Inv, OriginReadAgain \/ OriginReadClose
    PROVE  Sound(s') /\ At(s', pc')
<1>0. /\ Sound(s) /\ s.open /\ s.store_id /\ Synced(s) /\ pc' = "select"
      /\ s.stm = "RELAY" \/ Late(s)
  BY OriginWatched DEF Inv, At, OriginReadAgain, OriginReadClose, OriginEvent
<1>1. CASE OriginReadAgain
  <2> DEFINE w == set_origin_interest(s)
  <2>1. /\ Sound(w) /\ w.open = s.open /\ w.stm = s.stm
        /\ w.ttl_expired = s.ttl_expired
        /\ w.c2o = s.c2o /\ w.o2c = s.o2c /\ w.client_i = s.client_i
        /\ w.open => w.origin_i = socks_origin_interest(w)
    BY <1>0, OriginInterest
  <2>2. s' = w
    BY <1>1 DEF OriginReadAgain
  <2> HIDE DEF w
  <2>3. Synced(w) /\ (w.stm = "RELAY" \/ Late(w))
    BY <1>0, <2>1 DEF Synced, socks_client_interest, Late
  <2>4. w.open => Armed(w) /\ Flushed(w)
    BY <2>1, <2>3, OriginWatched DEF Armed, socks_origin_interest
  <2> QED
    BY <1>0, <2>1, <2>2, <2>3, <2>4, SelectAt
<1>2. CASE OriginReadClose
  <2>1. s' = socks_client_close(s)
    BY <1>2 DEF OriginReadClose
  <2>2. Sound(s') /\ ~s'.open
    BY <1>0, <2>1, CloseSound
  <2> QED
    BY <1>0, <2>2, SelectAt
<1> QED
  BY <1>1, <1>2

\* What a step of a DNS thread writes: nothing, or the flag and the list of the
\* session it was started for, the list only where there was none.
LEMMA DnsEffect ==
    ASSUME Inv, socks_dns_thread
    PROVE  \/ s' = s /\ pc' \in {pc, "dns_use_after_free"}
           \/ /\ pc' = pc
              /\ \E f \in BOOLEAN, r \in 0..Addrs :
                    /\ s' = [s EXCEPT !.dns_resolving = f, !.dns_result = r]
                    /\ r = s.dns_result \/ s.dns_result = 0
<1>0. s \in Shape /\ s.dns_resolving \in BOOLEAN /\ s.dns_result \in 0..Addrs
      /\ Resolved(s, thread[conn])
  BY DEF Inv, Sound, Shape
<1>1. PICK c \in 1..MaxConns : DnsDone(c) \/ DnsPublish(c) \/ DnsNotify(c)
  BY DEF socks_dns_thread
<1>2. CASE DnsNotify(c)
  BY <1>2 DEF DnsNotify
<1>3. CASE DnsDone(c)
  <2>1. [s EXCEPT !.dns_resolving = FALSE] =
           [s EXCEPT !.dns_resolving = FALSE, !.dns_result = s.dns_result]
    BY <1>0 DEF Shape
  <2> QED
    BY <1>0, <1>3, <2>1 DEF DnsDone, DnsWrites
<1>4. CASE DnsPublish(c)
  <2>1. PICK r \in 0..Addrs : DnsWrites(c, [s EXCEPT !.dns_result = r])
    BY <1>4 DEF DnsPublish
  <2>2. [s EXCEPT !.dns_result = r] =
           [s EXCEPT !.dns_resolving = s.dns_resolving, !.dns_result = r]
    BY <1>0 DEF Shape
  <2>3. s.open /\ c = conn => s.dns_result = 0
    BY <1>0, <1>4 DEF DnsPublish, Resolved
  <2> QED
    BY <1>0, <2>1, <2>2, <2>3 DEF DnsWrites
<1> QED
  BY <1>1, <1>2, <1>3, <1>4

\* The DNS thread stores its result, in whatever state the session is.
LEMMA DnsStep ==
    ASSUME Inv, socks_dns_thread
    PROVE  Sound(s') /\ At(s', pc')
<1>0. Sound(s) /\ s \in Shape /\ At(s, pc)
  BY DEF Inv, Sound
<1>1. CASE s' = s /\ pc' \in {pc, "dns_use_after_free"}
  <2>1. At(s, "dns_use_after_free")
    BY CrashAt DEF Crashed
  <2> QED
    BY <1>0, <1>1, <2>1
<1>2. CASE /\ pc' = pc
           /\ \E f \in BOOLEAN, r \in 0..Addrs :
                 /\ s' = [s EXCEPT !.dns_resolving = f, !.dns_result = r]
                 /\ r = s.dns_result \/ s.dns_result = 0
  <2>1. PICK f \in BOOLEAN, r \in 0..Addrs :
           /\ s' = [s EXCEPT !.dns_resolving = f, !.dns_result = r] /\ pc' = pc
           /\ r = s.dns_result \/ s.dns_result = 0
    BY <1>2
  <2> DEFINE u == [s EXCEPT !.dns_resolving = f, !.dns_result = r]
  <2>2. /\ u \in Shape
        /\ u.open = s.open /\ u.stm = s.stm /\ u.close_after_flush = s.close_after_flush
        /\ u.ttl_expired = s.ttl_expired /\ u.client_i = s.client_i
        /\ u.origin_i = s.origin_i /\ u.origin_fd = s.origin_fd
        /\ u.store_id = s.store_id /\ u.node = s.node
        /\ u.sent = s.sent /\ u.parsed = s.parsed /\ u.got = s.got
        /\ u.to_client = s.to_client /\ u.to_origin = s.to_origin
        /\ u.c2o = s.c2o /\ u.o2c = s.o2c
        /\ u.dns_cursor = s.dns_cursor /\ u.dns_result = r
    BY <1>0 DEF Shape
  <2>3. s' = u
    BY <2>1
  <2> HIDE DEF u
  <2>4. Sound(u)
    BY <1>0, <2>2, DnsKept
  <2>5. CASE r = s.dns_result
    BY <1>0, <2>1, <2>2, <2>3, <2>4, <2>5, DnsKept
  <2>6. CASE s.dns_result = 0
    <3>1. s.dns_cursor = 0 /\ s.dns_cursor \in 0..Addrs
      BY <1>0, <2>6, SessionAssumption DEF Inv, Resolved, Shape
    <3>2. pc # "reconnect" /\ (Forgotten(u) <=> Forgotten(s))
      BY <1>0, <2>2, <3>1 DEF At, Forgotten
    <3>3. At(u, pc)
      BY <1>0, <2>2, <3>2
         DEF At, Synced, socks_client_interest, Armed, Flushed
    <3> QED
      BY <2>1, <2>3, <2>4, <3>3
  <2> QED
    BY <2>1, <2>5, <2>6
<1> QED
  BY <1>1, <1>2, DnsEffect

\* A block job finds no session, one that resolves, or another one.
LEMMA BlockStep ==
    ASSUME Inv, BlockUnused \/ socks_client_block
    PROVE  Sound(s') /\ At(s', pc')
<1>0. Sound(s) /\ s \in Shape /\ At(s, pc)
  BY DEF Inv, Sound
<1>1. CASE BlockUnused
  BY <1>0, <1>1 DEF BlockUnused
<1>2. CASE BlockUnexpected
  <2>1. s' = s /\ pc' = "stm_abort"
    BY <1>2 DEF BlockUnexpected
  <2> QED
    BY <1>0, <2>1, CrashAt DEF Crashed
<1>3. CASE BlockEarly
  <2>1. s' = s /\ pc' = "tail" /\ s.open /\ s.stm # "RELAY"
    BY <1>3 DEF BlockEarly, BlockResolving
  <2> QED
    BY <1>0, <2>1, TailAt
<1>4. CASE BlockFailed
  <2>1. FailRequest(s, "tail") /\ s.open /\ s.stm = "RESOLVING"
    BY <1>4 DEF BlockFailed, BlockResolving
  <2>2. s.origin_i = {}
    BY <1>0, <2>1 DEF Sound, Mode, Late
  <2> QED
    BY <1>0, <2>1, <2>2, FailStep
<1>5. CASE BlockResolved
  <2> DEFINE c == s.dns_result
             u == [s EXCEPT !.dns_cursor = c]
  <2>1. s' = u /\ pc' = "connect" /\ s.open /\ s.stm = "RESOLVING"
    BY <1>5 DEF BlockResolved, BlockResolving
  <2>2. c \in 0..Addrs
    BY <1>0 DEF Shape
  <2> HIDE DEF c
  <2>3. /\ u \in Shape
        /\ u.open = s.open /\ u.stm = s.stm /\ u.close_after_flush = s.close_after_flush
        /\ u.ttl_expired = s.ttl_expired /\ u.client_i = s.client_i
        /\ u.origin_i = s.origin_i /\ u.origin_fd = s.origin_fd
        /\ u.store_id = s.store_id /\ u.node = s.node
        /\ u.sent = s.sent /\ u.parsed = s.parsed /\ u.got = s.got
        /\ u.to_client = s.to_client /\ u.to_origin = s.to_origin
        /\ u.c2o = s.c2o /\ u.o2c = s.o2c
    BY <1>0, <2>2 DEF Shape
  <2> HIDE DEF u
  <2>4. Sound(u)
    BY <1>0, <2>3, DnsKept
  <2>5. At(u, "connect")
    BY <2>1, <2>3 DEF At, InHandler
  <2> QED
    BY <2>1, <2>4, <2>5
<1> QED
  BY <1>1, <1>2, <1>3, <1>4, <1>5 DEF socks_client_block, socks_on_block_resolving

\* expire_idle.
LEMMA ExpireStep ==
    ASSUME Inv, socks_server_expire_idle
    PROVE  Sound(s') /\ At(s', pc')
<1>0. /\ Sound(s) /\ s.open /\ ~s.ttl_expired /\ Timeouts /\ pc' = "select"
  BY DEF Inv, socks_server_expire_idle, ExpireRelay, socks_expire_session_pre_relay,
         Expirable
<1>1. CASE ExpireRelay
  <2>1. s.stm = "RELAY" /\ s' = socks_client_close(Expired)
    BY <1>1 DEF ExpireRelay
  <2>2. Sound(Expired) /\ Expired.open
    BY <1>0, <2>1, ExpiredSound
  <2> DEFINE t == Expired
  <2> HIDE DEF t
  <2>3. Sound(socks_client_close(t)) /\ ~socks_client_close(t).open
    BY <2>2, CloseSound DEF t
  <2> DEFINE w == socks_client_close(t)
  <2>4. s' = w
    BY <2>1 DEF t
  <2> HIDE DEF w
  <2>5. Sound(w) /\ At(w, "select")
    BY <2>3, SelectAt DEF w
  <2> QED
    BY <1>0, <2>4, <2>5
<1>2. CASE socks_expire_session_pre_relay
  <2> DEFINE t == [socks_o2c_append(Expired, "connect_ttl") EXCEPT
                      !.close_after_flush = TRUE, !.stm = "DONE"]
  <2>1. /\ s.stm # "RELAY"
        /\ \E u \in socks_flush_client(t) :
              s' = set_client_interest(socks_close_if_flushed(u))
    BY <1>2 DEF socks_expire_session_pre_relay
  <2>2. Sound(t) /\ t.open /\ t.stm = "DONE"
    BY <1>0, <2>1, ExpiryReply
  <2> HIDE DEF t
  <2>3. PICK u \in socks_flush_client(t) :
           s' = set_client_interest(socks_close_if_flushed(u))
    BY <2>1
  <2> DEFINE w == set_client_interest(socks_close_if_flushed(u))
  <2>4. /\ Sound(w) /\ w.stm = "DONE"
        /\ w.open => Synced(w) /\ Flushed(w)
    BY <2>2, FlushAndClose
  <2> HIDE DEF w
  <2> QED
    BY <1>0, <2>3, <2>4, SelectAt DEF w
<1> QED
  BY <1>1, <1>2 DEF socks_server_expire_idle

-----------------------------------------------------------------------------
(***************************************************************************)
(* What the session knows of a name                                        *)
(***************************************************************************)
\* Every handler but those that resolve and those that try the next address
\* keeps it.
LEMMA ClientKeeps ==
    ASSUME Inv, socks_client_read \/ socks_client_write \/ ClientTail
    PROVE  Keeps(s, s')
<1>0. HasDns(s)
  BY DEF Inv, Sound, Shape, HasDns
<1>1. CASE ClientReadRelay
  <2>1. PICK n \in ClientReadSizes : \E u \in socks_flush_origin(Received(n)) :
           s' = set_client_interest(socks_close_if_flushed(set_origin_interest(u)))
    BY <1>1 DEF ClientReadRelay
  <2>2. PICK u \in socks_flush_origin(Received(n)) :
           s' = set_client_interest(socks_close_if_flushed(set_origin_interest(u)))
    BY <2>1
  <2>3. HasDns(Received(n)) /\ Keeps(s, Received(n))
    BY <1>0 DEF Received, HasDns, Keeps
  <2>4. Keeps(Received(n), u)
    BY <2>2, <2>3, FlushOriginKeeps
  <2>5. Keeps(u, set_origin_interest(u))
    BY <2>4, InterestKeeps DEF Keeps
  <2> DEFINE v == set_origin_interest(u)
             w == socks_close_if_flushed(v)
  <2> HIDE DEF v, w
  <2>6. Keeps(v, w)
    BY <2>5, CloseKeeps DEF Keeps, v, w
  <2>7. Keeps(w, s')
    BY <2>2, <2>6, InterestKeeps DEF Keeps, v, w
  <2>8. Keeps(s, u)
    BY <2>3, <2>4 DEF Keeps
  <2>9. Keeps(u, v)
    BY <2>5 DEF v
  <2> QED
    BY <2>6, <2>7, <2>8, <2>9 DEF Keeps
<1>2. CASE ClientReadHandshake
  BY <1>0, <1>2 DEF ClientReadHandshake, Received, HasDns, Keeps
<1>3. CASE ClientReadAgain
  BY <1>0, <1>3, InterestKeeps DEF ClientReadAgain
<1>4. CASE ClientReadClose
  BY <1>0, <1>4, CloseKeeps DEF ClientReadClose
<1>5. CASE socks_client_write \/ ClientTail
  <2>1. PICK u \in socks_flush_client(s) :
           s' = set_client_interest(socks_close_if_flushed(u))
    BY <1>5 DEF socks_client_write, ClientTail
  <2> DEFINE w == socks_close_if_flushed(u)
  <2> HIDE DEF w
  <2>2. Keeps(s, u)
    BY <1>0, <2>1, FlushClientKeeps
  <2>3. Keeps(u, w)
    BY <2>2, CloseKeeps DEF Keeps, w
  <2>4. Keeps(w, s')
    BY <2>1, <2>3, InterestKeeps DEF Keeps, w
  <2> QED
    BY <2>2, <2>3, <2>4 DEF Keeps
<1> QED
  BY <1>1, <1>2, <1>3, <1>4, <1>5 DEF socks_client_read

\* The parsers.
LEMMA ParserKeeps ==
    ASSUME Inv, NeedMore \/ socks_on_read_greeting \/ socks_on_read_auth
                  \/ RequestRefused \/ RequestAddr
    PROVE  Keeps(s, s')
<1> DEFINE t == Consumed
<1>0. HasDns(s) /\ Sound(s) /\ At(s, pc)
  BY DEF Inv, Sound, Shape, HasDns
<1>1. HasDns(t) /\ Keeps(s, t)
  BY <1>0 DEF HasDns, Keeps, Consumed
<1> HIDE DEF t
<1>2. CASE NeedMore
  BY <1>1, <1>2 DEF NeedMore, Parsed, t
<1>3. CASE socks_on_read_greeting \/ socks_on_read_auth
  <2>1. \E k, m : \/ s' = [socks_o2c_append(t, k) EXCEPT !.stm = m]
                  \/ s' = [socks_o2c_append(t, k) EXCEPT
                              !.stm = m, !.node.username = TRUE]
                  \/ s' = [socks_o2c_append(t, k) EXCEPT
                              !.stm = m, !.close_after_flush = TRUE]
    BY <1>3 DEF socks_on_read_greeting, socks_on_read_auth, Parsed, t
  <2>2. Keeps(t, s')
    BY <1>1, <2>1 DEF HasDns, Keeps, socks_o2c_append
  <2> QED
    BY <1>1, <2>2 DEF Keeps
<1>4. CASE RequestRefused
  <2>1. PICK phase \in {"AUTH", "CONNECTING"} :
           FailRequest([t EXCEPT !.node.phase = phase], "tail")
    BY <1>4 DEF RequestRefused, t
  <2>2. s.open /\ s.stm = "REQUEST" /\ s.c2o.q # << >>
    BY <1>0, <1>4 DEF RequestRefused, Feeding, At, InHandler
  <2>3. Sound(t) /\ Base(t) = Base(s)
    BY <1>0, <2>2, ConsumedSound DEF t, Parsing
  <2>4. t.open /\ t.stm = "REQUEST"
    BY <2>2, <2>3, SameBase
  <2> DEFINE u == [t EXCEPT !.node.phase = phase]
  <2>5. Sound(u) /\ u.open /\ u.stm = "REQUEST" /\ u.origin_i = {}
    BY <2>3, <2>4, RequestSound
  <2>6. Keeps(t, u)
    BY <1>1 DEF HasDns, Keeps
  <2> HIDE DEF u
  <2>7. Keeps(u, s')
    BY <2>1, <2>5, FailStep DEF u
  <2> QED
    BY <1>1, <2>6, <2>7 DEF Keeps
<1>5. CASE RequestAddr
  <2>1. Keeps(t, s')
    BY <1>1, <1>5 DEF RequestAddr, t, HasDns, Keeps
  <2> QED
    BY <1>1, <2>1 DEF Keeps
<1> QED
  BY <1>2, <1>3, <1>4, <1>5

\* A connect that starts or fails.
LEMMA ConnectKeeps ==
    ASSUME Inv, \/ ConnectStarted \/ ConnectRefused
                \/ OriginConnected \/ OriginUnreachable
    PROVE  Keeps(s, s')
<1>0. HasDns(s) /\ Sound(s) /\ At(s, pc)
  BY DEF Inv, Sound, Shape, HasDns
<1>1. CASE ConnectStarted
  BY <1>0, <1>1 DEF ConnectStarted, HasDns, Keeps
<1>2. CASE ConnectRefused
  <2>1. /\ s.open /\ s.stm \in {"REQUEST", "RESOLVING", "ORIGIN_CONNECTING"}
        /\ s.origin_i = {}
        /\ pc = "connect" \/ (pc = "reconnect" /\ Forgotten(s))
    BY <1>0, <1>2 DEF ConnectRefused, Connecting, At, InHandler, Forgotten, Sound, Mode, Late
  <2>2. FailRequest(s, AfterConnect)
        /\ (AfterConnect = "tail" \/ (AfterConnect = "select" /\ Forgotten(s)))
    BY <1>2, <2>1 DEF ConnectRefused, AfterConnect
  <2> QED
    BY <1>0, <2>1, <2>2, FailStep
<1>3. CASE OriginConnected
  <2> DEFINE t == socks_o2c_append(s, "connect_ok")
             u == [IF t.store_id THEN store_session_set_dest(t) ELSE t EXCEPT
                      !.stm = "RELAY"]
  <2>1. PICK v \in socks_flush_client(u) :
           s' = set_client_interest(set_origin_interest(v))
    BY <1>3 DEF OriginConnected
  <2>2. Keeps(s, t)
    BY <1>0 DEF HasDns, Keeps, socks_o2c_append
  <2> HIDE DEF t
  <2>3. Keeps(t, u)
    BY <2>2 DEF HasDns, Keeps, store_session_set_dest
  <2> HIDE DEF u
  <2>4. Keeps(u, v)
    BY <2>1, <2>3, FlushClientKeeps DEF Keeps
  <2> DEFINE w == set_origin_interest(v)
  <2> HIDE DEF w
  <2>5. Keeps(v, w)
    BY <2>4, InterestKeeps DEF Keeps, w
  <2>6. Keeps(w, s')
    BY <2>1, <2>5, InterestKeeps DEF Keeps, w
  <2>7. Keeps(s, v)
    BY <2>2, <2>3, <2>4 DEF Keeps
  <2> QED
    BY <2>5, <2>6, <2>7 DEF Keeps
<1>4. CASE OriginUnreachable
  <2> DEFINE t == socks_session_destroy_origin(s)
  <2>1. s.open /\ s.stm = "ORIGIN_CONNECTING"
    BY <1>4 DEF OriginUnreachable, OriginEvent
  <2>2. Sound(t) /\ t.open /\ t.stm = "ORIGIN_CONNECTING" /\ t.origin_i = {}
    <3>1. s.dns_cursor \in 0..Addrs
      BY <1>0 DEF Sound, Shape
    <3> QED
      BY <1>0, <2>1, <3>1, DestroySound
  <2>3. PICK u \in socks_fail_request(t) : s' = socks_close_if_flushed(u)
    BY <1>4 DEF OriginUnreachable
  <2>4. Keeps(s, t)
    BY <1>0 DEF HasDns, Keeps, socks_session_destroy_origin
  <2> HIDE DEF t
  <2>5. Keeps(t, u)
    BY <2>2, <2>3, FailSound
  <2>6. Keeps(u, s')
    BY <2>3, <2>5, CloseKeeps DEF Keeps
  <2> QED
    BY <2>4, <2>5, <2>6 DEF Keeps
<1> QED
  BY <1>1, <1>2, <1>3, <1>4

\* The relay, and the idle timeout.
LEMMA RelayKeeps ==
    ASSUME Inv, OriginDrain \/ socks_origin_read \/ socks_server_expire_idle
    PROVE  Keeps(s, s')
<1>0. HasDns(s)
  BY DEF Inv, Sound, Shape, HasDns
<1>1. CASE OriginDrain
  <2>1. PICK u \in socks_flush_origin(s) :
           s' = set_client_interest(set_origin_interest(u))
    BY <1>1 DEF OriginDrain
  <2> DEFINE w == set_origin_interest(u)
  <2> HIDE DEF w
  <2>2. Keeps(s, u)
    BY <1>0, <2>1, FlushOriginKeeps
  <2>3. Keeps(u, w)
    BY <2>2, InterestKeeps DEF Keeps, w
  <2>4. Keeps(w, s')
    BY <2>1, <2>3, InterestKeeps DEF Keeps, w
  <2> QED
    BY <2>2, <2>3, <2>4 DEF Keeps
<1>2. CASE OriginReadData
  <2> DEFINE T(n) == [s EXCEPT
                        !.o2c = buffer_write_adv(@, OriginBytes(s.got, n)),
                        !.got = @ + n,
                        !.node.bytes_down = IF s.store_id THEN @ + n ELSE @]
  <2>1. PICK n \in 1..OStream : \E u \in socks_flush_client(T(n)) :
           s' = set_origin_interest(set_client_interest(u))
    BY <1>2 DEF OriginReadData
  <2>2. Keeps(s, T(n))
    BY <1>0 DEF HasDns, Keeps
  <2> HIDE DEF T
  <2>3. PICK u \in socks_flush_client(T(n)) :
           s' = set_origin_interest(set_client_interest(u))
    BY <2>1
  <2> DEFINE w == set_client_interest(u)
  <2> HIDE DEF w
  <2>4. Keeps(T(n), u)
    BY <2>2, <2>3, FlushClientKeeps DEF Keeps
  <2>5. Keeps(u, w)
    BY <2>4, InterestKeeps DEF Keeps, w
  <2>6. Keeps(w, s')
    BY <2>3, <2>5, InterestKeeps DEF Keeps, w
  <2>7. Keeps(s, u)
    BY <2>2, <2>4 DEF Keeps
  <2> QED
    BY <2>5, <2>6, <2>7 DEF Keeps
<1>3. CASE OriginReadAgain
  BY <1>0, <1>3, InterestKeeps DEF OriginReadAgain
<1>4. CASE OriginReadClose
  BY <1>0, <1>4, CloseKeeps DEF OriginReadClose
<1>5. Keeps(s, Expired)
  BY <1>0 DEF HasDns, Keeps, Expired
<1>6. CASE ExpireRelay
  <2>1. Keeps(Expired, s')
    BY <1>5, <1>6, CloseKeeps DEF ExpireRelay, Keeps
  <2> QED
    BY <1>5, <2>1 DEF Keeps
<1>7. CASE socks_expire_session_pre_relay
  <2> DEFINE t == [socks_o2c_append(Expired, "connect_ttl") EXCEPT
                      !.close_after_flush = TRUE, !.stm = "DONE"]
  <2>1. PICK u \in socks_flush_client(t) :
           s' = set_client_interest(socks_close_if_flushed(u))
    BY <1>7 DEF socks_expire_session_pre_relay
  <2>2. Keeps(Expired, t)
    BY <1>5 DEF HasDns, Keeps, socks_o2c_append
  <2> DEFINE w == socks_close_if_flushed(u)
  <2> HIDE DEF t, w
  <2>3. Keeps(t, u)
    BY <2>1, <2>2, FlushClientKeeps DEF Keeps
  <2>4. Keeps(u, w)
    BY <2>3, CloseKeeps DEF Keeps, w
  <2>5. Keeps(w, s')
    BY <2>1, <2>4, InterestKeeps DEF Keeps, w
  <2>6. Keeps(s, u)
    BY <1>5, <2>2, <2>3 DEF Keeps
  <2> QED
    BY <2>4, <2>5, <2>6 DEF Keeps
<1> QED
  BY <1>1, <1>2, <1>3, <1>4, <1>6, <1>7 DEF socks_origin_read, socks_server_expire_idle

\* A thread writes the list into the session it was started for, and no other
\* step gives one to a session whose thread has not.
LEMMA ResolvedStep ==
    ASSUME Inv, [Next]_vars
    PROVE  Resolved(s', thread'[conn'])
<1>0. /\ s \in Shape /\ Resolved(s, thread[conn]) /\ conn \in 1..MaxConns
      /\ s.dns_cursor \in 0..Addrs /\ s.dns_result \in 0..Addrs
      /\ thread \in [1..MaxConns -> {"none", "running", "done", "published"}]
  BY DEF Inv, Sound, Shape
<1>00. s.dns_cursor \in Int /\ s.dns_result \in Int
  BY <1>0, SessionAssumption
<1>1. CASE socks_passive_read
  BY <1>1 DEF socks_passive_read, socks_session_init, Resolved
<1>2. CASE socks_start_dns_resolve
  <2>1. s'.dns_cursor = 0 /\ s'.dns_result = 0
    BY <1>0, <1>2 DEF socks_start_dns_resolve, Consumed, Shape
  <2> QED
    BY <2>1 DEF Resolved
<1>3. CASE socks_dns_thread
  <2>1. PICK c \in 1..MaxConns : DnsDone(c) \/ DnsPublish(c) \/ DnsNotify(c)
    BY <1>3 DEF socks_dns_thread
  <2>2. CASE DnsNotify(c)
    BY <1>0, <2>2 DEF DnsNotify, Resolved
  <2>3. CASE DnsDone(c)
    <3>1. /\ s'.dns_cursor = s.dns_cursor /\ s'.dns_result = s.dns_result
          /\ s'.open = s.open
      BY <1>0, <2>3 DEF DnsDone, DnsWrites, Shape
    <3>2. thread'[conn'] \in {"running", "done"} => thread[conn] \in {"running", "done"}
      BY <1>0, <2>3 DEF DnsDone
    <3> QED
      BY <1>0, <3>1, <3>2 DEF Resolved
  <2>4. CASE DnsPublish(c) /\ ~(s.open /\ c = conn)
    <3>1. s' = s /\ conn' = conn
      BY <2>4 DEF DnsPublish, DnsWrites
    <3>2. thread'[conn'] \in {"running", "done"} => thread[conn] \in {"running", "done"}
      BY <1>0, <2>4 DEF DnsPublish
    <3> QED
      BY <1>0, <3>1, <3>2 DEF Resolved
  <2>5. CASE DnsPublish(c) /\ s.open /\ c = conn
    <3>1. PICK r \in 0..Addrs : s' = [s EXCEPT !.dns_result = r]
      BY <2>5 DEF DnsPublish, DnsWrites
    <3>2. s'.dns_cursor = s.dns_cursor /\ s'.dns_result = r
      BY <1>0, <3>1 DEF Shape
    <3>3. s.dns_cursor <= r
      BY <1>0, <1>00, <2>5, SessionAssumption DEF DnsPublish, Resolved
    <3>4. thread'[conn'] = "published"
      BY <1>0, <2>5 DEF DnsPublish
    <3> QED
      BY <3>2, <3>3, <3>4 DEF Resolved
  <2> QED
    BY <2>1, <2>2, <2>3, <2>4, <2>5
<1>4. CASE BlockResolved
  <2>1. /\ s.dns_result > 0 /\ s.open /\ thread' = thread /\ conn' = conn
        /\ s'.dns_cursor = s.dns_result /\ s'.dns_result = s.dns_result
    BY <1>0, <1>4 DEF BlockResolved, BlockResolving, BlockJob, Shape
  <2> QED
    BY <1>0, <1>00, <2>1 DEF Resolved
<1>5. CASE ConnectNext \/ OriginRetry
  <2>1. /\ thread' = thread /\ conn' = conn /\ s'.open = s.open
        /\ s'.dns_cursor = s.dns_cursor - 1 /\ s'.dns_result = s.dns_result
    BY <1>0, <1>5 DEF ConnectNext, OriginRetry, socks_session_destroy_origin, Shape
  <2> QED
    BY <1>0, <1>00, <2>1 DEF Resolved
<1>6. ASSUME Keeps(s, s'), thread' = thread, conn' = conn
      PROVE  Resolved(s', thread'[conn'])
  BY <1>0, <1>6 DEF Keeps, Resolved
<1>7. CASE socks_client_read \/ socks_client_write \/ ClientTail
  BY <1>6, <1>7, ClientKeeps
     DEF socks_client_read, ClientReadRelay, ClientReadHandshake, ClientReadAgain,
         ClientReadClose, socks_client_write, ClientTail
<1>8. CASE NeedMore \/ socks_on_read_greeting \/ socks_on_read_auth
              \/ RequestRefused \/ RequestAddr
  BY <1>6, <1>8, ParserKeeps
     DEF NeedMore, Parsed, socks_on_read_greeting, socks_on_read_auth, RequestRefused,
         RequestAddr
<1>9. CASE \/ ConnectStarted \/ ConnectRefused \/ OriginConnected \/ OriginUnreachable
  BY <1>6, <1>9, ConnectKeeps
     DEF ConnectStarted, ConnectRefused, OriginConnected, OriginUnreachable
<1>10. CASE OriginDrain \/ socks_origin_read \/ socks_server_expire_idle
  BY <1>6, <1>10, RelayKeeps
     DEF OriginDrain, socks_origin_read, OriginReadData, OriginReadAgain,
         OriginReadClose, socks_server_expire_idle, ExpireRelay,
         socks_expire_session_pre_relay
<1>11. CASE BlockUnused \/ BlockUnexpected \/ BlockEarly
  BY <1>0, <1>11 DEF BlockUnused, BlockUnexpected, BlockEarly, BlockResolving, BlockJob
<1>12. CASE BlockFailed
  <2>1. FailRequest(s, "tail") /\ s.open /\ s.stm = "RESOLVING"
        /\ thread' = thread /\ conn' = conn
    BY <1>12 DEF BlockFailed, BlockResolving, BlockJob
  <2>2. s.origin_i = {} /\ Sound(s)
    BY <2>1 DEF Inv, Sound, Mode, Late
  <2>3. Keeps(s, s')
    BY <2>1, <2>2, FailStep
  <2> QED
    BY <1>6, <2>1, <2>3
<1>13. CASE Halted \/ UNCHANGED vars
  BY <1>0, <1>13 DEF Halted, vars
<1> QED
  BY <1>1, <1>2, <1>3, <1>4, <1>5, <1>7, <1>8, <1>9, <1>10, <1>11, <1>12, <1>13
     DEF Next, socks_on_read_request, socks_begin_origin_connect, socks_origin_write,
         socks_origin_connect_complete, socks_client_block, socks_on_block_resolving

-----------------------------------------------------------------------------
(***************************************************************************)
(* The invariant                                                           *)
(***************************************************************************)
\* The invariant holds of the first connection.
LEMMA InitInv == Init => Inv
<1> SUFFICES ASSUME Init
             PROVE  Inv
  OBVIOUS
<1>1. s = socks_session_init /\ pc = "select" /\ jobs \in Nat
      /\ thread \in [1..MaxConns -> {"none", "running", "done", "published"}]
  BY DEF Init
<1>2. conn \in 1..MaxConns
  BY SessionAssumption DEF Init
<1>3. /\ socks_session_init.c2o = buffer_init /\ socks_session_init.o2c = buffer_init
      /\ socks_session_init.client_i = {"R"}
      /\ socks_session_init.stm = "AUTH_GREETING"
      /\ ~socks_session_init.close_after_flush
  BY DEF socks_session_init
<1>4. Synced(socks_session_init)
  <2>1. Len(<< >>) = 0
    OBVIOUS
  <2>2. buffer_can_write(buffer_init) /\ ~buffer_can_read(buffer_init)
    BY <2>1, CapAssumption
       DEF buffer_can_write, buffer_can_read, buffer_space, buffer_init
  <2> QED
    BY <1>3, <2>2 DEF Synced, socks_client_interest
<1>5. At(socks_session_init, "select")
  BY <1>3, <1>4, SelectAt DEF Flushed
<1>6. Resolved(s, thread[conn])
  BY <1>1 DEF socks_session_init, Resolved
<1> QED
  BY <1>1, <1>2, <1>5, <1>6, InitSound DEF Inv

\* Every handler, every answer of the kernel and every step of a DNS thread
\* keeps it.
LEMMA NextInv == Inv /\ [Next]_vars => Inv'
<1> SUFFICES ASSUME Inv, [Next]_vars
             PROVE  Inv'
  OBVIOUS
<1>1. Sound(s') /\ At(s', pc')
  <2>1. CASE socks_passive_read
    BY <2>1, AcceptStep
  <2>2. CASE socks_client_read
    BY <2>2, ClientReadStep
  <2>3. CASE socks_client_write \/ ClientTail
    BY <2>3, ClientWriteStep
  <2>4. CASE NeedMore
    BY <2>4, NeedMoreStep
  <2>5. CASE socks_on_read_greeting \/ socks_on_read_auth
    BY <2>5, VerdictStep
  <2>6. CASE socks_on_read_request
    BY <2>6, RequestStep
  <2>7. CASE socks_begin_origin_connect
    BY <2>7, ConnectStep
  <2>8. CASE socks_origin_write
    BY <2>8, OriginConnectStep, OriginRelayStep DEF socks_origin_write
  <2>9. CASE socks_origin_read
    BY <2>9, OriginRelayStep, OriginReadStep DEF socks_origin_read
  <2>10. CASE socks_dns_thread
    BY <2>10, DnsStep
  <2>11. CASE BlockUnused \/ socks_client_block
    BY <2>11, BlockStep
  <2>12. CASE socks_server_expire_idle
    BY <2>12, ExpireStep
  <2>13. CASE Halted \/ UNCHANGED vars
    BY <2>13 DEF Halted, vars, Inv
  <2> QED
    BY <2>1, <2>2, <2>3, <2>4, <2>5, <2>6, <2>7, <2>8, <2>9, <2>10, <2>11, <2>12,
       <2>13 DEF Next
<1>2. /\ conn' = conn \/ (conn < MaxConns /\ conn' = conn + 1)
      /\ \/ thread' = thread
         \/ \E c \in 1..MaxConns, v \in {"none", "running", "done", "published"} :
               thread' = [thread EXCEPT ![c] = v]
      /\ jobs' = jobs \/ jobs' = jobs + 1 \/ (jobs > 0 /\ jobs' = jobs - 1)
  BY DEF Inv, Next, vars, socks_passive_read, socks_client_read, ClientReadRelay,
         ClientReadHandshake, ClientReadAgain, ClientReadClose, socks_client_write,
         ClientTail, NeedMore, Parsed, socks_on_read_greeting, socks_on_read_auth,
         socks_on_read_request, RequestRefused, socks_start_dns_resolve, RequestAddr,
         socks_begin_origin_connect, ConnectStarted, ConnectNext, ConnectRefused,
         socks_origin_write, socks_origin_connect_complete, OriginConnected,
         OriginRetry, OriginUnreachable, OriginDrain, socks_origin_read,
         OriginReadData, OriginReadAgain, OriginReadClose, socks_dns_thread,
         DnsDone, DnsPublish, DnsNotify, BlockUnused, BlockJob, socks_client_block,
         BlockUnexpected, socks_on_block_resolving, BlockEarly, BlockResolving,
         BlockFailed, BlockResolved, socks_server_expire_idle, ExpireRelay,
         socks_expire_session_pre_relay, Halted
<1>3. /\ conn' \in 1..MaxConns
      /\ thread' \in [1..MaxConns -> {"none", "running", "done", "published"}]
      /\ jobs' \in Nat
  BY <1>2, SessionAssumption DEF Inv
<1> QED
  BY <1>1, <1>3, ResolvedStep DEF Inv

\* Inv is an invariant.
THEOREM Invariance == Spec => []Inv
BY InitInv, NextInv, PTL DEF Spec

-----------------------------------------------------------------------------
(***************************************************************************)
(* What it implies                                                         *)
(***************************************************************************)
\* Type correctness: both buffers keep within their memory, every reply finds
\* room in o2c (the asserts of buffer.c), and the counters of the node never
\* exceed what the peers sent.
THEOREM TypeCorrect == Spec => []TypeOK
<1>1. Inv => TypeOK
  <2> SUFFICES ASSUME Inv
               PROVE  TypeOK
    OBVIOUS
  <2>1. /\ s \in Shape /\ Room(s) /\ Counted(s) /\ s.parsed <= s.sent
        /\ Up(s) = ClientBytes(s.parsed, s.sent - s.parsed)
    BY DEF Inv, Sound
  <2>2. /\ s.c2o \in Bytes(1..CStream) /\ s.o2c \in Bytes(Unit) /\ s.node \in Entry
        /\ s.to_origin \in Seq(1..CStream) /\ s.got \in 0..OStream
        /\ s.sent \in 0..CStream /\ s.parsed \in 0..CStream
    BY <2>1 DEF Shape
  <2>3. /\ s.c2o.q \in Seq(1..CStream) /\ s.c2o.off \in Nat
        /\ s.o2c.q \in Seq(Unit) /\ s.o2c.off \in Nat
    BY <2>2 DEF Bytes
  <2>4. /\ Len(s.c2o.q) \in Nat /\ Len(s.o2c.q) \in Nat /\ Len(s.to_origin) \in Nat
    BY <2>2, <2>3, LenProperties
  <2>5. s.c2o \in Buffers(1..CStream)
    <3>1. s.c2o.off \in 0..Cap /\ s.c2o.off + Len(s.c2o.q) <= Cap
      BY <2>1, <2>3, <2>4, CapAssumption DEF Room
    <3>2. s.c2o \in [q : Seq(1..CStream), off : 0..Cap]
      BY <2>2, <3>1 DEF Bytes
    <3> QED
      BY <3>1, <3>2 DEF Buffers
  <2>6. s.o2c \in Buffers(Unit)
    <3>1. s.o2c.off \in 0..Cap /\ s.o2c.off + Len(s.o2c.q) <= Cap
      BY <2>1, <2>3, <2>4, CapAssumption DEF Room
    <3>2. s.o2c \in [q : Seq(Unit), off : 0..Cap]
      BY <2>2, <3>1 DEF Bytes
    <3> QED
      BY <3>1, <3>2 DEF Buffers
  <2>7. Len(s.to_origin) \in 0..CStream
    <3> DEFINE m == s.sent - s.parsed
    <3>1. m \in Nat /\ s.parsed \in Nat /\ s.parsed + m <= CStream /\ m <= CStream
      BY <2>1, <2>2, SessionAssumption
    <3> HIDE DEF m
    <3>2. Len(ClientBytes(s.parsed, m)) = m
      BY <3>1, ClientBytesSeq
    <3>3. Len(Up(s)) = m
      BY <2>1, <3>2 DEF m
    <3>4. Len(Up(s)) = Len(s.to_origin) + Len(s.c2o.q)
      BY <2>2, <2>3, ConcatProperties DEF Up
    <3> DEFINE x == Len(s.to_origin)
               y == Len(s.c2o.q)
    <3>5. x \in Nat /\ y \in Nat /\ m = x + y
      BY <2>4, <3>3, <3>4
    <3> HIDE DEF x, y
    <3>6. x \in 0..CStream
      BY <3>1, <3>5, SessionAssumption
    <3> QED
      BY <3>6 DEF x
  <2>8. s.node \in Node
    <3>1. s.node.bytes_up \in 0..CStream /\ s.node.bytes_down \in 0..OStream
      BY <2>1, <2>2, <2>7 DEF Counted
    <3> QED
      BY <2>2, <3>1 DEF Entry, Node
  <2>9. s \in Session
    BY <2>1, <2>5, <2>6, <2>8 DEF Shape, Session, Interests
  <2> QED
    BY <2>9 DEF TypeOK, Inv, At, InHandler, Crashed
<1> QED
  BY <1>1, Invariance, PTL

\* UpstreamExact: no byte of the client is lost, repeated or parsed twice on
\* its way through c2o.
THEOREM UpstreamIsExact == Spec => []UpstreamExact
<1>1. Inv => UpstreamExact
  BY DEF Inv, Sound, Up, UpstreamExact
<1> QED
  BY <1>1, Invariance, PTL

\* DownstreamExact: the client reads replies first and then the origin's bytes,
\* all of them and in order.
THEOREM DownstreamIsExact == Spec => []DownstreamExact
<1>1. Inv => DownstreamExact
  BY DEF Inv, Sound, Down, DataLast, DownstreamExact, ClientStream
<1> QED
  BY <1>1, Invariance, PTL

\* BytesAccounted: the counters of the store are the bytes that crossed the
\* origin socket.
THEOREM BytesAreAccounted == Spec => []BytesAccounted
<1>1. Inv => BytesAccounted
  BY DEF Inv, Sound, Counted, BytesAccounted
<1> QED
  BY <1>1, Invariance, PTL

\* ResourcesReleased: slot and descriptor go with the session.
THEOREM ResourcesAreReleased == Spec => []ResourcesReleased
<1>1. Inv => ResourcesReleased
  BY DEF Inv, Sound, Slot, ResourcesReleased
<1> QED
  BY <1>1, Invariance, PTL

\* LogMatchesOutcome: a session that was connected reads so while it lasts and
\* then shows what closed it, and no other session reads as connected.
THEOREM LogIsRight == Spec => []LogMatchesOutcome
<1>1. Inv => LogMatchesOutcome
  BY DEF Inv, Sound, Logged, Has, Down, LogMatchesOutcome, Replied, ClientStream
<1> QED
  BY <1>1, Invariance, PTL

\* ClientInterestInSync: no handler returns with a stale interest.
THEOREM ClientInterest == Spec => []ClientInterestInSync
<1>1. Inv => ClientInterestInSync
  BY DEF Inv, At, Synced, ClientInterestInSync
<1> QED
  BY <1>1, Invariance, PTL

\* OriginWriteArmed: bytes in c2o are never left without OP_WRITE.
THEOREM OriginInterestArmed == Spec => []OriginWriteArmed
<1>1. Inv => OriginWriteArmed
  BY DEF Inv, At, Armed, OriginWriteArmed
<1> QED
  BY <1>1, Invariance, PTL

\* OthersClose: whatever the number of addresses, with and without timeouts, no
\* handler returns from the last write of a reply and leaves the session open,
\* but for the two kinds of session that MayBeForgotten names.
THEOREM FlushedCloses == Spec => []OthersClose
<1>1. Inv => OthersClose
  BY DEF Inv, At, Flushed, Forgotten, OthersClose, MayBeForgotten, FlushedSessionCloses
<1> QED
  BY <1>1, Invariance, PTL

\* ReplyProtocol: one answer per CONNECT, before the first byte of the origin.
\* With timeouts a session can expire behind a refusal it still has to flush,
\* and then sends a second answer.
THEOREM RepliesInOrder ==
    ASSUME ~Timeouts
    PROVE  Spec => []ReplyProtocol
<1>1. Inv => ReplyProtocol
  <2> SUFFICES ASSUME Inv
               PROVE  ReplyProtocol
    OBVIOUS
  <2> DEFINE q == ClientStream
             answers == {i \in DOMAIN q : q[i].kind \in ConnectReply}
             k == Len(q) - s.got
  <2>1. /\ s \in Shape /\ Mode(s) /\ DataLast(Down(s), s.got)
        /\ ~s.ttl_expired /\ Answered(Down(s), s.got, s.stm)
    BY DEF Inv, Sound
  <2>2. Down(s) = q
    BY DEF Down, ClientStream
  <2>3. s.to_client \in Seq(Unit) /\ s.o2c \in Bytes(Unit) /\ s.got \in Nat
    BY <2>1 DEF Shape
  <2>4. s.o2c.q \in Seq(Unit)
    BY <2>3 DEF Bytes
  <2>5. q \in Seq(Unit) /\ DOMAIN q = 1..Len(q) /\ Len(q) \in Nat
    <3>1. q \in Seq(Unit)
      BY <2>3, <2>4, ConcatProperties DEF ClientStream
    <3> QED
      BY <3>1, LenProperties
  <2> HIDE DEF q
  <2>6. /\ k >= 0
        /\ \A i \in 1..k : q[i].kind # "data"
        /\ \A i \in 1..s.got : q[k + i] = [kind |-> "data", n |-> i]
    BY <2>1, <2>2 DEF DataLast
  <2>7. /\ \A i \in 1..(k - 1) : q[i].kind \notin ConnectReply
        /\ s.stm = "RELAY" => k >= 1 /\ q[k].kind = "connect_ok"
    BY <2>1, <2>2 DEF Answered
  <2>71. s.got > 0 \/ s.to_origin # << >> => s.stm = "RELAY"
    BY <2>1, <2>3 DEF Mode, Late
  <2>8. k \in Nat /\ Len(q) = k + s.got
    BY <2>3, <2>5, <2>6
  <2> HIDE DEF k
  <2>9. ASSUME NEW i \in 1..Len(q), i > k
        PROVE  q[i].kind = "data" /\ s.got > 0
    <3> DEFINE j == i - k
    <3>1. j \in 1..s.got /\ k + j = i /\ s.got > 0
      BY <2>3, <2>5, <2>8, <2>9
    <3> HIDE DEF j
    <3>2. q[k + j] = [kind |-> "data", n |-> j]
      BY <2>6, <3>1
    <3> QED
      BY <3>1, <3>2
  <2>10. ASSUME NEW i \in 1..Len(q), q[i].kind \in ConnectReply
         PROVE  i = k
    <3>1. ~(i > k)
      BY <2>9, <2>10 DEF ConnectReply
    <3>2. ~(i \in 1..(k - 1))
      BY <2>7, <2>10
    <3> QED
      BY <2>5, <2>8, <3>1, <3>2
  <2>11. ASSUME NEW i \in 1..Len(q), q[i].kind = "data"
         PROVE  i > k /\ s.got > 0
    <3>1. ~(i \in 1..k)
      BY <2>6, <2>11
    <3>2. i > k
      BY <2>5, <2>8, <3>1
    <3> QED
      BY <2>9, <3>2
  <2>12. Cardinality(answers) <= 1
    <3>1. answers \subseteq {k}
      BY <2>5, <2>10
    <3>2. IsFiniteSet({k}) /\ Cardinality({k}) = 1
      BY FS_Singleton
    <3>3. Cardinality(answers) <= Cardinality({k})
      BY <3>1, <3>2, FS_Subset
    <3> QED
      BY <3>2, <3>3
  <2>13. s.stm = "RELAY" => k \in answers /\ q[k].kind = "connect_ok"
    BY <2>3, <2>5, <2>7, <2>8 DEF ConnectReply
  <2>14. ASSUME NEW i \in DOMAIN q, q[i].kind = "data"
         PROVE  \E j \in answers : j < i /\ q[j].kind = "connect_ok"
    <3>1. i > k /\ s.stm = "RELAY"
      BY <2>5, <2>11, <2>14, <2>71
    <3> QED
      BY <2>5, <2>8, <2>13, <3>1
  <2>15. s.to_origin # << >> => Replied("connect_ok")
    BY <2>13, <2>71 DEF Replied, q
  <2> QED
    BY <2>12, <2>14, <2>15 DEF ReplyProtocol, q
<1> QED
  BY <1>1, Invariance, PTL

\* A session that is DONE stays so until its descriptor is accepted anew.
LEMMA DoneStep ==
    ASSUME Inv, Next, s.stm = "DONE", conn' = conn
    PROVE  s'.stm = "DONE"
<1>0. Sound(s) /\ s \in Shape /\ At(s, pc) /\ conn \in 1..MaxConns
  BY DEF Inv, Sound
<1>1. CASE socks_passive_read
  BY <1>0, <1>1, SessionAssumption DEF socks_passive_read
<1>2. CASE socks_client_read
  <2>1. CASE ClientReadRelay
    BY <2>1 DEF ClientReadRelay
  <2>2. CASE ClientReadHandshake
    <3>1. PICK n \in ClientReadSizes : s' = Received(n)
      BY <2>2 DEF ClientReadHandshake
    <3>2. Base(Received(n)) = Base(s)
      BY <1>0, ReceivedSound
    <3>3. Received(n).stm = s.stm
      BY <3>2, SameBase
    <3> QED
      BY <3>1, <3>3
  <2>3. CASE ClientReadAgain
    <3>1. s' = set_client_interest(s)
      BY <2>3 DEF ClientReadAgain
    <3> QED
      BY <1>0, <3>1, InterestKept, SameCore
  <2>4. CASE ClientReadClose
    BY <1>0, <2>4, CloseSound DEF ClientReadClose, ClientEvent
  <2> QED
    BY <1>2, <2>1, <2>2, <2>3, <2>4 DEF socks_client_read
<1>3. CASE socks_client_write \/ ClientTail
  <2>1. s.open
    BY <1>0, <1>3 DEF socks_client_write, ClientTail, ClientEvent, At, InHandler
  <2>2. PICK u \in socks_flush_client(s) :
           s' = set_client_interest(socks_close_if_flushed(u))
    BY <1>3 DEF socks_client_write, ClientTail
  <2> QED
    BY <1>0, <2>1, <2>2, FlushAndClose
<1>4. CASE NeedMore \/ socks_on_read_greeting \/ socks_on_read_auth \/ socks_on_read_request
  <2>1. pc = "drain"
    BY <1>4 DEF NeedMore, socks_on_read_greeting, socks_on_read_auth,
                socks_on_read_request, RequestRefused, socks_start_dns_resolve,
                RequestAddr, Feeding
  <2> QED
    BY <1>0, <2>1 DEF At, Parsing
<1>5. CASE socks_begin_origin_connect
  <2>1. pc \in {"connect", "reconnect"}
    BY <1>5 DEF socks_begin_origin_connect, ConnectStarted, ConnectNext, ConnectRefused,
                Connecting
  <2> QED
    BY <1>0, <2>1 DEF At
<1>6. CASE socks_origin_write
  <2>1. OriginDrain
    BY <1>6 DEF socks_origin_write, socks_origin_connect_complete, OriginConnected,
                OriginRetry, OriginUnreachable
  <2>2. s.open /\ s.store_id /\ (s.stm = "RELAY" \/ Late(s))
    BY <1>0, <2>1, OriginWatched DEF OriginDrain, OriginEvent
  <2>3. PICK u \in socks_flush_origin(s) :
           s' = set_client_interest(set_origin_interest(u))
    BY <2>1 DEF OriginDrain
  <2>4. /\ Sound(u) /\ u.stm = "DONE"
        /\ u.open => u.store_id /\ (u.stm = "RELAY" \/ Late(u))
    BY <1>0, <2>2, FlushOrigin DEF Late
  <2> DEFINE v == set_origin_interest(u)
  <2>5. Sound(v) /\ v.stm = "DONE"
    BY <2>4, OriginInterest
  <2> HIDE DEF v
  <2>6. set_client_interest(v).stm = "DONE"
    BY <2>5, InterestKept, SameCore
  <2> QED
    BY <2>3, <2>6 DEF v
<1>7. CASE socks_origin_read
  <2>0. s.open /\ s.store_id /\ (s.stm = "RELAY" \/ Late(s))
    BY <1>0, <1>7, OriginWatched
       DEF socks_origin_read, OriginReadData, OriginReadAgain, OriginReadClose, OriginEvent
  <2>1. CASE OriginReadData
    <3> DEFINE T(n) == [s EXCEPT
                          !.o2c = buffer_write_adv(@, OriginBytes(s.got, n)),
                          !.got = @ + n,
                          !.node.bytes_down = IF s.store_id THEN @ + n ELSE @]
    <3>1. PICK n \in 1..OStream :
             /\ n <= buffer_space(s.o2c)
             /\ s.got + n <= OStream
             /\ \E u \in socks_flush_client(T(n)) :
                   s' = set_origin_interest(set_client_interest(u))
      BY <2>1 DEF OriginReadData
    <3> DEFINE t == T(n)
    <3>2. Sound(t) /\ t.open /\ t.store_id /\ t.stm = "DONE" /\ Late(t)
      BY <1>0, <2>0, <3>1, OriginReadSound
    <3>3. \E u \in socks_flush_client(t) :
             s' = set_origin_interest(set_client_interest(u))
      BY <3>1
    <3> HIDE DEF t, T
    <3>4. PICK u \in socks_flush_client(t) :
             s' = set_origin_interest(set_client_interest(u))
      BY <3>3
    <3>5. /\ Sound(u) /\ u.stm = "DONE"
          /\ u.open => u.store_id /\ Late(u)
      BY <3>2, <3>4, FlushClient, SameCore DEF Late
    <3> DEFINE v == set_client_interest(u)
    <3>6. /\ Sound(v) /\ v.stm = "DONE"
          /\ v.open => v.store_id /\ Late(v)
      BY <3>5, InterestKept, SameCore DEF Late
    <3> HIDE DEF v
    <3>7. set_origin_interest(v).stm = "DONE"
      BY <3>6, OriginInterest
    <3> QED
      BY <3>4, <3>7 DEF v
  <2>2. CASE OriginReadAgain
    BY <1>0, <2>0, <2>2, OriginInterest DEF OriginReadAgain
  <2>3. CASE OriginReadClose
    BY <1>0, <2>0, <2>3, CloseSound DEF OriginReadClose
  <2> QED
    BY <1>7, <2>1, <2>2, <2>3 DEF socks_origin_read
<1>8. CASE socks_dns_thread
  BY <1>0, <1>8, DnsEffect DEF Shape
<1>9. CASE BlockUnused \/ socks_client_block
  BY <1>9 DEF BlockUnused, socks_client_block, BlockUnexpected, socks_on_block_resolving,
              BlockEarly, BlockFailed, BlockResolved, BlockResolving
<1>10. CASE socks_server_expire_idle
  <2>1. s.open /\ ~s.ttl_expired /\ Timeouts /\ socks_expire_session_pre_relay
    BY <1>10 DEF socks_server_expire_idle, ExpireRelay, socks_expire_session_pre_relay,
                 Expirable
  <2> DEFINE t == [socks_o2c_append(Expired, "connect_ttl") EXCEPT
                      !.close_after_flush = TRUE, !.stm = "DONE"]
  <2>2. \E u \in socks_flush_client(t) :
           s' = set_client_interest(socks_close_if_flushed(u))
    BY <2>1 DEF socks_expire_session_pre_relay
  <2>3. Sound(t) /\ t.open /\ t.stm = "DONE"
    BY <1>0, <2>1, ExpiryReply
  <2> HIDE DEF t
  <2>4. PICK u \in socks_flush_client(t) :
           s' = set_client_interest(socks_close_if_flushed(u))
    BY <2>2
  <2> QED
    BY <2>3, <2>4, FlushAndClose
<1>11. CASE Halted
  BY <1>11 DEF Halted, vars
<1> QED
  BY <1>1, <1>2, <1>3, <1>4, <1>5, <1>6, <1>7, <1>8, <1>9, <1>10, <1>11 DEF Next

\* DoneIsFinal: no late event revives a session that was refused or expired.
THEOREM DoneStaysDone == Spec => DoneIsFinal
<1>1. Inv /\ [Next]_vars => [s.stm = "DONE" /\ conn' = conn => s'.stm = "DONE"]_vars
  BY DoneStep
<1> QED
  BY <1>1, Invariance, PTL DEF Spec, DoneIsFinal
-----------------------------------------------------------------------------
(***************************************************************************)
(* The tunnel                                                              *)
(***************************************************************************)
\* Replies queued so far: they precede the bytes of the origin.
Replies(t) == Len(Down(t)) - t.got

\* What the two ends see of a session.
Face(t) == <<t.open, t.stm, t.parsed, t.to_origin, t.to_client, Replies(t)>>

\* Equal faces are equal part by part.
LEMMA SameFace ==
    ASSUME NEW t, NEW u, Face(u) = Face(t)
    PROVE  /\ u.open = t.open /\ u.stm = t.stm /\ u.parsed = t.parsed
           /\ u.to_origin = t.to_origin /\ u.to_client = t.to_client
           /\ Replies(u) = Replies(t)
BY DEF Face

\* Asking the selector for events is not seen.
LEMMA InterestUnseen ==
    ASSUME NEW t \in Shape
    PROVE  /\ Face(set_client_interest(t)) = Face(t)
           /\ Face(set_origin_interest(t)) = Face(t)
<1> DEFINE i == socks_client_interest(t)
           j == socks_origin_interest(t)
<1> HIDE DEF i, j
<1>1. Face([t EXCEPT !.client_i = i]) = Face(t)
  BY DEF Shape, Face, Replies, Down
<1>2. Face([t EXCEPT !.origin_i = j]) = Face(t)
  BY DEF Shape, Face, Replies, Down
<1> QED
  BY <1>1, <1>2 DEF set_client_interest, set_origin_interest, i, j

\* From t to u, whose handshake and answer are the same: the streams go on
\* while the session is open, and closing it moves neither.
Goes(t, u) ==
    /\ u.stm = t.stm /\ u.parsed = t.parsed /\ Replies(u) = Replies(t)
    /\ Len(u.to_origin) >= Len(t.to_origin)
    /\ Len(u.to_client) >= Len(t.to_client)
    /\ ~u.open => u.to_origin = t.to_origin /\ u.to_client = t.to_client

\* Steps that are not seen do not matter before it or behind it.
LEMMA GoesUnseen ==
    ASSUME NEW t, NEW u, NEW v, NEW w,
           Face(u) = Face(t), Goes(u, v), Face(w) = Face(v)
    PROVE  Goes(t, w)
BY SameFace DEF Goes

\* Staying where it is.
LEMMA GoesSame ==
    ASSUME NEW t \in Shape
    PROVE  Goes(t, t)
<1>1. t.to_origin \in Seq(1..CStream) /\ t.to_client \in Seq(Unit)
  BY DEF Shape
<1>2. Len(t.to_origin) \in Nat /\ Len(t.to_client) \in Nat
  BY <1>1, LenProperties
<1> QED
  BY <1>2 DEF Goes

\* client_close leaves both streams as they are.
LEMMA CloseGoes ==
    ASSUME NEW t \in Shape
    PROVE  /\ Goes(t, socks_client_close(t))
           /\ ~socks_client_close(t).open
           /\ socks_client_close(t).got = t.got
<1> DEFINE logged == IF ~t.store_id THEN t
                     ELSE IF t.ttl_expired THEN store_session_mark_ttl_expired(t)
                     ELSE store_session_end(t)
           Same(u) == /\ DOMAIN u = DOMAIN t
                      /\ u.stm = t.stm /\ u.parsed = t.parsed /\ u.got = t.got
                      /\ u.to_origin = t.to_origin /\ u.to_client = t.to_client
                      /\ u.o2c = t.o2c
           u == socks_client_close(t)
<1>1. ASSUME NEW l
      PROVE  Same(store_session_remove(t, l))
  BY DEF Shape, store_session_remove
<1>2. Same(logged)
  <2>1. Same(t)
    OBVIOUS
  <2> HIDE DEF Same
  <2> QED
    BY <1>1, <2>1 DEF store_session_mark_ttl_expired, store_session_end
<1>3. u = [[logged EXCEPT !.origin_fd = FALSE, !.origin_i = {}] EXCEPT
              !.open = FALSE, !.client_i = {}, !.dns_result = 0, !.dns_cursor = 0]
  BY DEF socks_client_close, socks_session_destroy_origin
<1> HIDE DEF logged, u
<1>4. Same(u) /\ u.open = FALSE
  BY <1>2, <1>3 DEF Shape
<1>5. Replies(u) = Replies(t)
  BY <1>4 DEF Replies, Down
<1>6. Goes(t, t)
  BY GoesSame
<1> QED
  BY <1>4, <1>5, <1>6 DEF Goes, u

\* A write() to the client of any size, or one that fails.
LEMMA ClientGoes ==
    ASSUME NEW t, Sound(t), t.open, NEW u \in socks_flush_client(t)
    PROVE  Goes(t, u)
<1>0. t \in Shape
  BY DEF Sound
<1>1. /\ t.o2c.q \in Seq(Unit) /\ t.to_client \in Seq(Unit) /\ Len(t.o2c.q) \in Nat
      /\ Len(t.to_client) \in Nat /\ t.to_origin \in Seq(1..CStream)
      /\ Len(t.to_origin) \in Nat
  BY <1>0 DEF Shape, Bytes
<1>2. CASE u = t
  BY <1>0, <1>2, GoesSame
<1>3. ASSUME NEW k \in 1..Len(t.o2c.q),
             u = [t EXCEPT !.to_client = @ \o buffer_peek(t.o2c, k),
                           !.o2c = buffer_compact(buffer_read_adv(@, k))]
      PROVE  Goes(t, u)
  <2> DEFINE x == t.to_client \o SubSeq(t.o2c.q, 1, k)
             b == buffer_compact(buffer_read_adv(t.o2c, k))
  <2>1. u = [t EXCEPT !.to_client = x, !.o2c = b]
    BY <1>0, <1>3 DEF Shape, buffer_peek
  <2>2. Len(x) = Len(t.to_client) + k
    <3>1. k \in 0..Len(t.o2c.q)
      BY <1>1
    <3>2. Moves(Unit, t.to_client, t.o2c.q, k)
      BY <1>1, <3>1, MoveFront, Zenon
    <3> QED
      BY <3>2 DEF Moves
  <2> HIDE DEF x, b
  <2>3. u.open /\ u.to_client = x
    BY <1>0, <2>1 DEF Shape
  <2>4. Core(u) = Core(t)
    BY <2>3, FlushClient
  <2>5. /\ u.stm = t.stm /\ u.parsed = t.parsed /\ u.to_origin = t.to_origin
        /\ Replies(u) = Replies(t)
    BY <2>4, SameCore DEF Replies
  <2> QED
    BY <1>1, <2>2, <2>3, <2>5 DEF Goes
<1>4. CASE u = socks_client_close(t)
  BY <1>0, <1>4, CloseGoes
<1>5. \/ u = t \/ u = socks_client_close(t)
      \/ \E k \in 1..Len(t.o2c.q) :
            u = [t EXCEPT !.to_client = @ \o buffer_peek(t.o2c, k),
                          !.o2c = buffer_compact(buffer_read_adv(@, k))]
  <2>1. CASE u = socks_client_close(t)
    BY <2>1
  <2>2. CASE u # socks_client_close(t)
    <3>1. PICK k \in 0..Len(t.o2c.q) :
             u = IF k = 0 THEN t
                 ELSE [t EXCEPT !.to_client = @ \o buffer_peek(t.o2c, k),
                                !.o2c = buffer_compact(buffer_read_adv(@, k))]
      BY <2>2 DEF socks_flush_client
    <3>2. k # 0 => k \in 1..Len(t.o2c.q)
      BY <1>1
    <3> QED
      BY <3>1, <3>2
  <2> QED
    BY <2>1, <2>2
<1> QED
  BY <1>2, <1>3, <1>4, <1>5

\* A write() to the origin of any size, or one that fails.
LEMMA OriginGoes ==
    ASSUME NEW t, Sound(t), t.open, NEW u \in socks_flush_origin(t)
    PROVE  Goes(t, u)
<1>0. t \in Shape
  BY DEF Sound
<1>1. /\ t.c2o.q \in Seq(1..CStream) /\ t.to_origin \in Seq(1..CStream)
      /\ Len(t.c2o.q) \in Nat /\ Len(t.to_origin) \in Nat
      /\ t.to_client \in Seq(Unit) /\ Len(t.to_client) \in Nat
  BY <1>0 DEF Shape, Bytes
<1>2. CASE u = t
  BY <1>0, <1>2, GoesSame
<1>3. ASSUME NEW k \in 1..Len(t.c2o.q),
             u = [t EXCEPT !.to_origin = @ \o buffer_peek(t.c2o, k),
                           !.c2o = buffer_compact(buffer_read_adv(@, k)),
                           !.node.bytes_up = IF t.store_id THEN @ + k ELSE @]
      PROVE  Goes(t, u)
  <2> DEFINE x == t.to_origin \o SubSeq(t.c2o.q, 1, k)
             b == buffer_compact(buffer_read_adv(t.c2o, k))
             n == [t.node EXCEPT !.bytes_up = IF t.store_id THEN @ + k ELSE @]
  <2>1. u = [t EXCEPT !.to_origin = x, !.c2o = b, !.node = n]
    BY <1>0, <1>3 DEF Shape, Entry, buffer_peek
  <2>2. Len(x) = Len(t.to_origin) + k
    <3>1. k \in 0..Len(t.c2o.q)
      BY <1>1
    <3>2. Moves(1..CStream, t.to_origin, t.c2o.q, k)
      BY <1>1, <3>1, MoveFront, Zenon
    <3> QED
      BY <3>2 DEF Moves
  <2> HIDE DEF x, b, n
  <2>3. /\ u.open = t.open /\ u.stm = t.stm /\ u.parsed = t.parsed /\ u.got = t.got
        /\ u.to_origin = x /\ u.to_client = t.to_client /\ u.o2c = t.o2c
    BY <1>0, <2>1 DEF Shape
  <2>4. Replies(u) = Replies(t)
    BY <2>3 DEF Replies, Down
  <2> QED
    BY <1>1, <2>2, <2>3, <2>4 DEF Goes
<1>4. CASE u = socks_client_close(t)
  BY <1>0, <1>4, CloseGoes
<1>5. \/ u = t \/ u = socks_client_close(t)
      \/ \E k \in 1..Len(t.c2o.q) :
            u = [t EXCEPT !.to_origin = @ \o buffer_peek(t.c2o, k),
                          !.c2o = buffer_compact(buffer_read_adv(@, k)),
                          !.node.bytes_up = IF t.store_id THEN @ + k ELSE @]
  <2>1. CASE u = socks_client_close(t)
    BY <2>1
  <2>2. CASE u # socks_client_close(t)
    <3>1. PICK k \in 0..Len(t.c2o.q) :
             u = IF k = 0 THEN t
                 ELSE [t EXCEPT !.to_origin = @ \o buffer_peek(t.c2o, k),
                                !.c2o = buffer_compact(buffer_read_adv(@, k)),
                                !.node.bytes_up = IF t.store_id THEN @ + k ELSE @]
      BY <2>2 DEF socks_flush_origin
    <3>2. k # 0 => k \in 1..Len(t.c2o.q)
      BY <1>1
    <3> QED
      BY <3>1, <3>2
  <2> QED
    BY <2>1, <2>2
<1> QED
  BY <1>2, <1>3, <1>4, <1>5

\* read() from the origin put n more bytes into o2c.
FromOrigin(t, n) ==
    [t EXCEPT !.o2c = buffer_write_adv(@, OriginBytes(t.got, n)),
              !.got = @ + n,
              !.node.bytes_down = IF t.store_id THEN @ + n ELSE @]

\* It is not seen before a write() to the client.
LEMMA OriginReadUnseen ==
    ASSUME NEW t, Sound(t), t.open, t.store_id, t.stm = "RELAY",
           NEW n \in 1..OStream, n <= buffer_space(t.o2c), t.got + n <= OStream
    PROVE  /\ Sound(FromOrigin(t, n)) /\ FromOrigin(t, n).open
           /\ Face(FromOrigin(t, n)) = Face(t)
<1> DEFINE u == FromOrigin(t, n)
           d == OriginBytes(t.got, n)
           b == [q |-> t.o2c.q \o d, off |-> t.o2c.off]
           e == [t.node EXCEPT !.bytes_down = IF t.store_id THEN @ + n ELSE @]
<1>0. t \in Shape
  BY DEF Sound
<1>1. Sound(u) /\ u.open
  BY OriginReadSound DEF FromOrigin
<1>2. /\ t.to_client \in Seq(Unit) /\ t.o2c.q \in Seq(Unit)
      /\ t.got \in 0..OStream
  BY <1>0 DEF Shape, Bytes
<1>3. t.got \in Nat /\ n \in Nat
  BY <1>2, SessionAssumption
<1>4. d \in Seq(Unit) /\ Len(d) = n
  <2>1. \A i \in 1..n : [kind |-> "data", n |-> t.got + i] \in Unit
    BY <1>3, SessionAssumption DEF Unit, Kinds
  <2> QED
    BY <1>3, <2>1 DEF OriginBytes
<1>5. u = [t EXCEPT !.o2c = b, !.got = t.got + n, !.node = e]
  BY <1>0 DEF Shape, FromOrigin, buffer_write_adv
<1> HIDE DEF d, e, u
<1>6. b.q \in Seq(Unit) /\ Len(b.q) = Len(t.o2c.q) + n /\ Len(t.o2c.q) \in Nat
  BY <1>2, <1>4, ConcatProperties, LenProperties
<1> HIDE DEF b
<1>8. /\ u.open = t.open /\ u.stm = t.stm /\ u.parsed = t.parsed
      /\ u.to_origin = t.to_origin /\ u.to_client = t.to_client
      /\ u.o2c = b /\ u.got = t.got + n
  BY <1>0, <1>5 DEF Shape
<1>9. Len(t.to_client \o b.q) = Len(t.to_client) + Len(b.q)
  <2> DEFINE x == t.to_client
             y == b.q
  <2>1. x \in Seq(Unit) /\ y \in Seq(Unit)
    BY <1>2, <1>6
  <2> HIDE DEF x, y
  <2>2. Len(x \o y) = Len(x) + Len(y)
    BY <2>1, ConcatProperties
  <2> QED
    BY <2>2 DEF x, y
<1>10. Len(t.to_client \o t.o2c.q) = Len(t.to_client) + Len(t.o2c.q)
  BY <1>2, ConcatProperties
<1>11. Len(t.to_client) \in Nat
  BY <1>2, LenProperties
<1>12. Len(Down(u)) = Len(t.to_client) + (Len(t.o2c.q) + n)
  BY <1>6, <1>8, <1>9 DEF Down
<1>13. Len(Down(t)) = Len(t.to_client) + Len(t.o2c.q)
  BY <1>10 DEF Down
<1>14. Replies(u) = Replies(t)
  <2> DEFINE x == Len(t.to_client)
             y == Len(t.o2c.q)
             g == t.got
  <2>1. x \in Nat /\ y \in Nat /\ g \in Nat /\ n \in Nat
    BY <1>3, <1>6, <1>11
  <2>2. Replies(u) = (x + (y + n)) - (g + n) /\ Replies(t) = (x + y) - g
    BY <1>8, <1>12, <1>13 DEF Replies
  <2> HIDE DEF x, y, g
  <2>3. (x + (y + n)) - (g + n) = (x + y) - g
    BY <2>1
  <2> QED
    BY <2>2, <2>3
<1> QED
  BY <1>1, <1>8, <1>14 DEF Face, u

\* A session in RELAY is not waiting to close.
LEMMA RelayStays ==
    ASSUME NEW t, Sound(t), t.stm = "RELAY"
    PROVE  socks_close_if_flushed(t) = t
BY DEF Sound, Mode, socks_close_if_flushed

\* In RELAY every handler and every answer of the kernel moves the streams on,
\* or ends the session where they are.
LEMMA RelayGoes ==
    ASSUME Inv, Next, ~Timeouts, conn' = conn, s.open, s.stm = "RELAY"
    PROVE  Goes(s, s')
<1>0. /\ Sound(s) /\ s \in Shape /\ At(s, pc) /\ conn \in 1..MaxConns
      /\ ~s.ttl_expired /\ s.store_id
  BY OriginWatched DEF Inv, Sound
<1>1. CASE socks_passive_read
  BY <1>1 DEF socks_passive_read
<1>2. CASE socks_client_read
  <2>1. CASE ClientReadRelay
    <3>1. PICK n \in ClientReadSizes : \E u \in socks_flush_origin(Received(n)) :
             s' = set_client_interest(socks_close_if_flushed(set_origin_interest(u)))
      BY <2>1 DEF ClientReadRelay
    <3> DEFINE t == Received(n)
    <3>2. \E u \in socks_flush_origin(t) :
             s' = set_client_interest(socks_close_if_flushed(set_origin_interest(u)))
      BY <3>1
    <3>3. Sound(t) /\ Base(t) = Base(s) /\ t.parsed = s.parsed /\ t.to_client = s.to_client
      BY <1>0, ReceivedSound
    <3> HIDE DEF t
    <3>4. t.open /\ t.store_id /\ t.stm = "RELAY" /\ Face(t) = Face(s)
      BY <1>0, <3>3, SameBase DEF Face, Replies
    <3>5. PICK u \in socks_flush_origin(t) :
             s' = set_client_interest(socks_close_if_flushed(set_origin_interest(u)))
      BY <3>2
    <3>6. Goes(t, u)
      BY <3>3, <3>4, <3>5, OriginGoes
    <3>7. Sound(u) /\ u.stm = "RELAY"
      BY <3>3, <3>4, <3>5, FlushOrigin
    <3>8. u.open => u.store_id
      BY <3>7, OriginWatched
    <3> DEFINE v == set_origin_interest(u)
    <3>9. Sound(v) /\ v.stm = "RELAY"
      BY <3>7, <3>8, OriginInterest
    <3>10. Face(v) = Face(u)
      BY <3>7, InterestUnseen DEF Sound
    <3>11. s' = set_client_interest(socks_close_if_flushed(v))
      BY <3>5
    <3> HIDE DEF v
    <3>12. s' = set_client_interest(v)
      BY <3>9, <3>11, RelayStays
    <3>13. Face(set_client_interest(v)) = Face(v)
      BY <3>9, InterestUnseen DEF Sound
    <3>14. Face(s') = Face(u)
      BY <3>10, <3>12, <3>13
    <3> QED
      BY <3>4, <3>6, <3>14, GoesUnseen
  <2>2. CASE ClientReadHandshake
    BY <2>2 DEF ClientReadHandshake
  <2>3. CASE ClientReadAgain
    <3>1. s' = set_client_interest(s)
      BY <2>3 DEF ClientReadAgain
    <3>2. Face(s') = Face(s)
      BY <1>0, <3>1, InterestUnseen
    <3> QED
      BY <1>0, <3>2, GoesSame, GoesUnseen
  <2>4. CASE ClientReadClose
    BY <1>0, <2>4, CloseGoes DEF ClientReadClose
  <2> QED
    BY <1>2, <2>1, <2>2, <2>3, <2>4 DEF socks_client_read
<1>3. CASE socks_client_write
  <2>1. PICK u \in socks_flush_client(s) :
           s' = set_client_interest(socks_close_if_flushed(u))
    BY <1>3 DEF socks_client_write
  <2>2. Sound(u) /\ u.stm = "RELAY"
    BY <1>0, FlushClient
  <2>3. Goes(s, u)
    BY <1>0, ClientGoes
  <2>4. s' = set_client_interest(u)
    BY <2>1, <2>2, RelayStays
  <2>5. Face(s') = Face(u)
    BY <2>2, <2>4, InterestUnseen DEF Sound
  <2> QED
    BY <2>3, <2>5, GoesUnseen
<1>4. CASE \/ ClientTail \/ NeedMore \/ socks_on_read_greeting \/ socks_on_read_auth
           \/ socks_on_read_request \/ socks_begin_origin_connect
  <2>1. pc \in InHandler
    BY <1>4 DEF ClientTail, NeedMore, socks_on_read_greeting, socks_on_read_auth,
                socks_on_read_request, RequestRefused, socks_start_dns_resolve,
                RequestAddr, Feeding, socks_begin_origin_connect, ConnectStarted,
                ConnectNext, ConnectRefused, Connecting, InHandler
  <2> QED
    BY <1>0, <2>1 DEF At
<1>5. CASE socks_origin_write
  <2>1. OriginDrain
    BY <1>5 DEF socks_origin_write, socks_origin_connect_complete, OriginConnected,
                OriginRetry, OriginUnreachable
  <2>2. PICK u \in socks_flush_origin(s) :
           s' = set_client_interest(set_origin_interest(u))
    BY <2>1 DEF OriginDrain
  <2>3. Goes(s, u)
    BY <1>0, OriginGoes
  <2>4. Sound(u) /\ u.stm = "RELAY"
    BY <1>0, FlushOrigin
  <2>5. u.open => u.store_id
    BY <2>4, OriginWatched
  <2> DEFINE v == set_origin_interest(u)
  <2>6. Sound(v)
    BY <2>4, <2>5, OriginInterest
  <2>7. Face(v) = Face(u)
    BY <2>4, InterestUnseen DEF Sound
  <2>8. s' = set_client_interest(v)
    BY <2>2
  <2> HIDE DEF v
  <2>9. Face(s') = Face(u)
    BY <2>6, <2>7, <2>8, InterestUnseen DEF Sound
  <2> QED
    BY <2>3, <2>9, GoesUnseen
<1>6. CASE socks_origin_read
  <2>1. CASE OriginReadData
    <3>1. PICK n \in 1..OStream :
             /\ n <= buffer_space(s.o2c)
             /\ s.got + n <= OStream
             /\ \E u \in socks_flush_client(FromOrigin(s, n)) :
                   s' = set_origin_interest(set_client_interest(u))
      BY <2>1 DEF OriginReadData, FromOrigin
    <3> DEFINE t == FromOrigin(s, n)
    <3>2. Sound(t) /\ t.open /\ Face(t) = Face(s)
      BY <1>0, <3>1, OriginReadUnseen
    <3>3. \E u \in socks_flush_client(t) :
             s' = set_origin_interest(set_client_interest(u))
      BY <3>1
    <3> HIDE DEF t
    <3>4. PICK u \in socks_flush_client(t) :
             s' = set_origin_interest(set_client_interest(u))
      BY <3>3
    <3>5. Sound(u) /\ Goes(t, u)
      BY <3>2, <3>4, FlushClient, ClientGoes
    <3> DEFINE v == set_client_interest(u)
    <3>6. Sound(v)
      BY <3>5, InterestKept
    <3>7. Face(v) = Face(u)
      BY <3>5, InterestUnseen DEF Sound
    <3>8. s' = set_origin_interest(v)
      BY <3>4
    <3> HIDE DEF v
    <3>9. Face(s') = Face(u)
      BY <3>6, <3>7, <3>8, InterestUnseen DEF Sound
    <3> QED
      BY <3>2, <3>5, <3>9, GoesUnseen
  <2>2. CASE OriginReadAgain
    <3>1. s' = set_origin_interest(s)
      BY <2>2 DEF OriginReadAgain
    <3>2. Face(s') = Face(s)
      BY <1>0, <3>1, InterestUnseen
    <3> QED
      BY <1>0, <3>2, GoesSame, GoesUnseen
  <2>3. CASE OriginReadClose
    BY <1>0, <2>3, CloseGoes DEF OriginReadClose
  <2> QED
    BY <1>6, <2>1, <2>2, <2>3 DEF socks_origin_read
<1>7. CASE socks_dns_thread
  <2>2. CASE s' = s
    BY <1>0, <2>2, GoesSame
  <2>3. ASSUME NEW f \in BOOLEAN, NEW r \in 0..Addrs,
               s' = [s EXCEPT !.dns_resolving = f, !.dns_result = r]
        PROVE  Goes(s, s')
    <3>1. Face(s') = Face(s)
      BY <1>0, <2>3 DEF Shape, Face, Replies, Down
    <3> QED
      BY <1>0, <3>1, GoesSame, GoesUnseen
  <2> QED
    BY <1>7, <2>2, <2>3, DnsEffect
<1>8. CASE BlockUnused \/ socks_client_block
  <2>1. s' = s
    BY <1>8 DEF BlockUnused, socks_client_block, BlockUnexpected, socks_on_block_resolving,
                BlockEarly, BlockFailed, BlockResolved, BlockResolving
  <2> QED
    BY <1>0, <2>1, GoesSame
<1>9. CASE socks_server_expire_idle
  BY <1>9 DEF socks_server_expire_idle, ExpireRelay, socks_expire_session_pre_relay,
              Expirable
<1>10. CASE Halted
  BY <1>0, <1>10, GoesSame DEF Halted, vars
<1> QED
  BY <1>1, <1>2, <1>3, <1>4, <1>5, <1>6, <1>7, <1>8, <1>9, <1>10 DEF Next

\* Before RELAY every one of them is a step of the handshake.
LEMMA HandshakeListens ==
    ASSUME Inv, Next, ~Timeouts, conn' = conn, s.open, s.stm # "RELAY"
    PROVE  Listens(s, s')
<1>0. Sound(s) /\ s \in Shape /\ At(s, pc) /\ ~Late(s)
  BY DEF Inv, Sound, Late
<1>1. ASSUME s'.parsed = s.parsed, s'.stm # "RELAY"
      PROVE  Listens(s, s')
  BY <1>1 DEF Listens
<1>2. CASE socks_client_read
  <2>1. CASE ClientReadRelay
    BY <2>1 DEF ClientReadRelay
  <2>2. CASE ClientReadHandshake
    <3>1. PICK n \in ClientReadSizes : s' = Received(n)
      BY <2>2 DEF ClientReadHandshake
    <3>2. Base(Received(n)) = Base(s) /\ Received(n).parsed = s.parsed
      BY <1>0, ReceivedSound
    <3>3. Received(n).stm = s.stm
      BY <3>2, SameBase
    <3> QED
      BY <1>1, <3>1, <3>2, <3>3
  <2>3. CASE ClientReadAgain
    <3>1. s' = set_client_interest(s)
      BY <2>3 DEF ClientReadAgain
    <3>2. s'.parsed = s.parsed /\ s'.stm = s.stm
      BY <1>0, <3>1, InterestUnseen, SameFace
    <3> QED
      BY <1>1, <3>2
  <2>4. CASE ClientReadClose
    BY <1>0, <1>1, <2>4, CloseSound DEF ClientReadClose
  <2> QED
    BY <1>2, <2>1, <2>2, <2>3, <2>4 DEF socks_client_read
<1>3. CASE socks_client_write \/ ClientTail
  <2>1. PICK u \in socks_flush_client(s) :
           s' = set_client_interest(socks_close_if_flushed(u))
    BY <1>3 DEF socks_client_write, ClientTail
  <2>2. s'.stm = s.stm /\ s'.parsed = s.parsed
    BY <1>0, <2>1, FlushAndClose
  <2> QED
    BY <1>1, <2>2
<1>4. CASE NeedMore \/ socks_on_read_greeting \/ socks_on_read_auth \/ socks_on_read_request
  BY <1>4, NeedMoreStep, VerdictStep, RequestStep
<1>5. CASE socks_begin_origin_connect
  BY <1>5, ConnectStep
<1>6. CASE socks_origin_write
  <2>1. ~OriginDrain
    BY <1>0, OriginWatched DEF OriginDrain, OriginEvent
  <2> QED
    BY <1>6, <2>1, OriginConnectStep DEF socks_origin_write
<1>7. CASE socks_origin_read
  BY <1>0, <1>7, OriginWatched
     DEF socks_origin_read, OriginReadData, OriginReadAgain, OriginReadClose, OriginEvent
<1>8. CASE socks_dns_thread
  <2>2. s'.parsed = s.parsed /\ s'.stm = s.stm
    BY <1>0, <1>8, DnsEffect DEF Shape
  <2> QED
    BY <1>1, <2>2
<1>9. CASE BlockUnused \/ socks_client_block
  <2>1. CASE BlockFailed
    <3>1. FailRequest(s, "tail") /\ s.stm = "RESOLVING"
      BY <2>1 DEF BlockFailed, BlockResolving
    <3>2. s.origin_i = {}
      BY <1>0, <3>1 DEF Sound, Mode
    <3>3. s'.stm = "DONE" /\ s'.parsed = s.parsed
      BY <1>0, <3>1, <3>2, FailStep
    <3> QED
      BY <1>1, <3>3
  <2>2. CASE ~BlockFailed
    <3>1. s'.parsed = s.parsed /\ s'.stm = s.stm
      BY <1>0, <1>9, <2>2
         DEF BlockUnused, socks_client_block, BlockUnexpected, socks_on_block_resolving,
             BlockEarly, BlockResolved, Shape
    <3> QED
      BY <1>1, <3>1
  <2> QED
    BY <2>1, <2>2
<1>10. CASE socks_server_expire_idle
  BY <1>10 DEF socks_server_expire_idle, ExpireRelay, socks_expire_session_pre_relay,
               Expirable
<1>11. CASE Halted
  <2>1. s' = s
    BY <1>11 DEF Halted, vars
  <2> QED
    BY <1>1, <2>1
<1>12. CASE socks_passive_read
  BY <1>12 DEF socks_passive_read
<1> QED
  BY <1>2, <1>3, <1>4, <1>5, <1>6, <1>7, <1>8, <1>9, <1>10, <1>11, <1>12 DEF Next

\* A session that has ended stays as it is until accept() replaces it.
LEMMA EndedStays ==
    ASSUME Inv, Next, ~s.open
    PROVE  \/ conn' = conn /\ s' = s
           \/ s' = socks_session_init
<1>0. pc \notin InHandler
  BY DEF Inv, At
<1>1. CASE socks_passive_read
  BY <1>1 DEF socks_passive_read
<1>2. CASE \/ socks_client_read \/ socks_client_write
           \/ socks_origin_write \/ socks_origin_read \/ socks_server_expire_idle
  BY <1>2 DEF socks_client_read, ClientReadRelay, ClientReadHandshake, ClientReadAgain,
              ClientReadClose, socks_client_write, ClientEvent, socks_origin_write,
              socks_origin_connect_complete, OriginConnected, OriginRetry,
              OriginUnreachable, OriginDrain, socks_origin_read, OriginReadData,
              OriginReadAgain, OriginReadClose, OriginEvent, socks_server_expire_idle,
              ExpireRelay, socks_expire_session_pre_relay, Expirable
<1>3. CASE \/ ClientTail \/ NeedMore \/ socks_on_read_greeting \/ socks_on_read_auth
           \/ socks_on_read_request \/ socks_begin_origin_connect
  BY <1>0, <1>3 DEF ClientTail, NeedMore, socks_on_read_greeting, socks_on_read_auth,
                    socks_on_read_request, RequestRefused, socks_start_dns_resolve,
                    RequestAddr, Feeding, socks_begin_origin_connect, ConnectStarted,
                    ConnectNext, ConnectRefused, Connecting, InHandler
<1>4. CASE socks_dns_thread \/ BlockUnused \/ socks_client_block
  BY <1>4 DEF socks_dns_thread, DnsDone, DnsPublish, DnsNotify, DnsWrites, BlockUnused, BlockJob,
              socks_client_block, BlockUnexpected, socks_on_block_resolving,
              BlockEarly, BlockFailed, BlockResolved, BlockResolving
<1>5. CASE Halted
  BY <1>5 DEF Halted, vars
<1> QED
  BY <1>1, <1>2, <1>3, <1>4, <1>5 DEF Next

\* Only accept() starts another connection.
LEMMA OpenKeepsConn ==
    ASSUME Next, s.open
    PROVE  conn' = conn
BY DEF Next, vars, socks_passive_read, socks_client_read, ClientReadRelay,
       ClientReadHandshake, ClientReadAgain, ClientReadClose, socks_client_write,
       ClientTail, NeedMore, Parsed, socks_on_read_greeting, socks_on_read_auth,
       socks_on_read_request, RequestRefused, socks_start_dns_resolve, RequestAddr,
       socks_begin_origin_connect, ConnectStarted, ConnectNext, ConnectRefused,
       socks_origin_write, socks_origin_connect_complete, OriginConnected,
       OriginRetry, OriginUnreachable, OriginDrain, socks_origin_read,
       OriginReadData, OriginReadAgain, OriginReadClose, socks_dns_thread,
       DnsDone, DnsPublish, DnsNotify, BlockUnused, BlockJob, socks_client_block,
       BlockUnexpected, socks_on_block_resolving, BlockEarly, BlockResolving,
       BlockFailed, BlockResolved, socks_server_expire_idle, ExpireRelay,
       socks_expire_session_pre_relay, Halted

\* What the client was told, and what it has received of the origin.
Told(t) ==
    IF t.stm = "DONE" THEN "no"
    ELSE IF Has(Down(t), "connect_ok") THEN "ok" ELSE "none"

Taken(t) ==
    [i \in 1..(Len(t.to_client) - Replies(t)) |-> t.to_client[Replies(t) + i].n]

\* Without timeouts the state of the machine says what the client was told.
LEMMA ToldState ==
    ASSUME NEW t, Sound(t), ~t.ttl_expired
    PROVE  Told(t) = IF t.stm = "DONE" THEN "no"
                     ELSE IF t.stm = "RELAY" THEN "ok" ELSE "none"
<1> DEFINE q == Down(t)
           k == Len(q) - t.got
<1>1. /\ t \in Shape /\ Mode(t) /\ DataLast(q, t.got) /\ Answered(q, t.got, t.stm)
  BY DEF Sound
<1>2. /\ t.to_client \in Seq(Unit) /\ t.o2c.q \in Seq(Unit)
      /\ t.got \in 0..OStream
  BY <1>1 DEF Shape, Bytes
<1>3. q \in Seq(Unit) /\ t.got \in Nat
  BY <1>2, ConcatProperties, SessionAssumption DEF Down
<1> HIDE DEF q
<1>4. DOMAIN q = 1..Len(q) /\ Len(q) \in Nat
  BY <1>3, LenProperties
<1>5. k >= 0 /\ \A i \in 1..t.got : q[k + i] = [kind |-> "data", n |-> i]
  BY <1>1 DEF DataLast
<1>6. k \in Nat /\ Len(q) = k + t.got
  BY <1>3, <1>4, <1>5
<1>7. CASE t.stm = "RELAY"
  <2>1. k >= 1 /\ q[k].kind = "connect_ok"
    BY <1>1, <1>7 DEF Answered
  <2> HIDE DEF k
  <2>2. k \in DOMAIN q
    BY <1>3, <1>4, <1>6, <2>1
  <2>3. Has(q, "connect_ok")
    BY <2>1, <2>2 DEF Has
  <2> QED
    BY <1>7, <2>3 DEF Told, q
<1>8. CASE t.stm \notin {"RELAY", "DONE"}
  <2>1. \A i \in 1..k : q[i].kind \notin ConnectReply
    BY <1>1, <1>8 DEF Answered
  <2>2. t.got = 0
    BY <1>1, <1>8 DEF Mode, Late
  <2> HIDE DEF k
  <2>3. k = Len(q)
    BY <1>6, <2>2
  <2>4. ~Has(q, "connect_ok")
    BY <1>4, <2>1, <2>3 DEF Has, ConnectReply
  <2> QED
    BY <1>8, <2>4 DEF Told, q
<1> QED
  BY <1>7, <1>8 DEF Told

\* A stream is a sequence, of the length asked for.
LEMMA StreamSeq ==
    ASSUME NEW lo \in Nat, NEW n \in Nat
    PROVE  /\ ClientBytes(lo, n) \in Seq(Nat)
           /\ Len(ClientBytes(lo, n)) = n
           /\ \A i \in 1..n : ClientBytes(lo, n)[i] = lo + i
<1>1. \A i \in 1..n : lo + i \in Nat
  OBVIOUS
<1> QED
  BY <1>1 DEF ClientBytes

\* The origin has a front part of what the client sent behind its handshake.
LEMMA UpIsStream ==
    ASSUME NEW t, Sound(t)
    PROVE  t.to_origin = ClientBytes(t.parsed, Len(t.to_origin))
<1> DEFINE x == t.to_origin
           y == t.c2o.q
           lo == t.parsed
           m == t.sent - t.parsed
           n == Len(x)
           c == ClientBytes(lo, n)
           d == ClientBytes(lo, m)
<1>1. /\ t \in Shape /\ t.parsed <= t.sent /\ x \o y = d
  BY DEF Sound, Up
<1>2. x \in Seq(1..CStream) /\ y \in Seq(1..CStream) /\ lo \in Nat /\ m \in Nat
      /\ lo + m <= CStream
  <2>1. /\ x \in Seq(1..CStream) /\ y \in Seq(1..CStream)
        /\ t.parsed \in 0..CStream /\ t.sent \in 0..CStream
    BY <1>1 DEF Shape, Bytes
  <2> QED
    BY <1>1, <2>1, SessionAssumption
<1> HIDE DEF x, y, lo, m
<1>3. n \in Nat /\ Len(y) \in Nat
  BY <1>2, LenProperties
<1>4. Len(d) = m /\ \A i \in 1..m : d[i] = lo + i
  BY <1>2, ClientBytesSeq
<1>5. Len(x \o y) = n + Len(y)
  BY <1>2, ConcatProperties
<1>6. \A i \in 1..n : (x \o y)[i] = x[i]
  <2>1. \A i \in 1..(n + Len(y)) : (x \o y)[i] = IF i <= n THEN x[i] ELSE y[i - n]
    BY <1>2, ConcatProperties
  <2> QED
    BY <1>3, <2>1
<1> HIDE DEF d
<1>7. n <= m
  BY <1>1, <1>3, <1>4, <1>5
<1>8. \A i \in 1..n : x[i] = lo + i
  BY <1>1, <1>2, <1>3, <1>4, <1>6, <1>7
<1>9. lo + n <= CStream
  BY <1>2, <1>3, <1>7, SessionAssumption
<1> HIDE DEF n
<1>10. c \in Seq(1..CStream) /\ Len(c) = n /\ \A i \in 1..n : c[i] = lo + i
  BY <1>2, <1>3, <1>9, ClientBytesSeq
<1> HIDE DEF c
<1>11. Len(x) = n
  BY DEF n
<1>12. \A i \in 1..Len(x) : x[i] = c[i]
  BY <1>8, <1>10, <1>11
<1>13. x = c
  BY <1>2, <1>10, <1>11, <1>12, SeqEqual
<1> QED
  BY <1>13 DEF c, x, n, lo

\* The client has a front part of what the origin sent: m units behind the
\* replies, or none while replies are still to be written.
LEMMA DownIsStream ==
    ASSUME NEW t, Sound(t)
    PROVE  /\ Replies(t) \in Nat /\ Len(t.to_client) \in Nat
           /\ LET m == Len(t.to_client) - Replies(t)
              IN  Taken(t) = ClientBytes(0, IF m > 0 THEN m ELSE 0)
           /\ t.got = 0 => Taken(t) = << >>
<1> DEFINE q == Down(t)
           x == t.to_client
           y == t.o2c.q
           k == Replies(t)
           m == Len(x) - k
           w == IF m > 0 THEN m ELSE 0
<1>1. t \in Shape /\ DataLast(q, t.got)
  BY DEF Sound
<1>2. x \in Seq(Unit) /\ y \in Seq(Unit) /\ t.got \in 0..OStream
  BY <1>1 DEF Shape, Bytes
<1>3. t.got \in Nat /\ q = x \o y /\ k = Len(q) - t.got
  BY <1>2, SessionAssumption DEF Down, Replies
<1>4. k >= 0 /\ \A i \in 1..t.got : q[k + i] = [kind |-> "data", n |-> i]
  BY <1>1, <1>3 DEF DataLast
<1>5. Taken(t) = [i \in 1..m |-> x[k + i].n]
  BY DEF Taken
<1> HIDE DEF q, x, y, k
<1>6. Len(x) \in Nat /\ Len(y) \in Nat /\ Len(q) = Len(x) + Len(y)
  BY <1>2, <1>3, ConcatProperties, LenProperties
<1>7. \A i \in 1..Len(x) : q[i] = x[i]
  <2>1. \A i \in 1..(Len(x) + Len(y)) :
           (x \o y)[i] = IF i <= Len(x) THEN x[i] ELSE y[i - Len(x)]
    BY <1>2, ConcatProperties
  <2> QED
    BY <1>3, <1>6, <2>1
<1>8. k \in Nat /\ m \in Int /\ m <= t.got
  BY <1>3, <1>4, <1>6
<1>9. w \in Nat /\ 1..m = 1..w
  BY <1>8
<1>10. ASSUME NEW i \in 1..m
       PROVE  x[k + i].n = i
  <2>1. i \in 1..t.got /\ k + i \in 1..Len(x)
    BY <1>3, <1>6, <1>8
  <2>2. x[k + i] = [kind |-> "data", n |-> i]
    BY <1>4, <1>7, <2>1
  <2> QED
    BY <2>2
<1>11. ClientBytes(0, w) = [i \in 1..w |-> i]
  <2>1. \A i \in 1..w : 0 + i = i
    BY <1>9
  <2> QED
    BY <2>1 DEF ClientBytes
<1>12. Taken(t) = [i \in 1..m |-> i]
  BY <1>5, <1>10
<1>13. Taken(t) = ClientBytes(0, w)
  BY <1>9, <1>11, <1>12
<1>14. t.got = 0 => Taken(t) = << >>
  <2> SUFFICES ASSUME t.got = 0
               PROVE  Taken(t) = << >>
    OBVIOUS
  <2>1. w = 0
    BY <1>8
  <2>2. 0 \in Nat
    OBVIOUS
  <2>3. ClientBytes(0, 0) \in Seq(Nat) /\ Len(ClientBytes(0, 0)) = 0
    BY <2>2, StreamSeq
  <2>4. ClientBytes(0, 0) = << >>
    BY <2>3, EmptySeq
  <2> HIDE DEF w
  <2> QED
    BY <1>13, <2>1, <2>4
<1> QED
  BY <1>6, <1>8, <1>13, <1>14 DEF x, k

\* A relay step of the tunnel.
LEMMA RelaySeen ==
    ASSUME NEW t, Sound(t), NEW u, Sound(u), Goes(t, u)
    PROVE  /\ Len(Taken(u)) >= Len(Taken(t))
           /\ Taken(u) = ClientBytes(0, Len(Taken(u)))
           /\ ~u.open => u.to_origin = t.to_origin /\ Taken(u) = Taken(t)
<1> DEFINE Front(v) == LET m == Len(v.to_client) - Replies(v)
                       IN  IF m > 0 THEN m ELSE 0
<1>1. ASSUME NEW v, Sound(v)
      PROVE  /\ Front(v) \in Nat
             /\ Taken(v) = ClientBytes(0, Front(v)) /\ Len(Taken(v)) = Front(v)
  <2>1. Replies(v) \in Nat /\ Len(v.to_client) \in Nat
    BY <1>1, DownIsStream
  <2>2. Front(v) \in Nat
    BY <2>1
  <2>3. Taken(v) = ClientBytes(0, Front(v))
    BY <1>1, DownIsStream
  <2> HIDE DEF Front
  <2>4. 0 \in Nat
    OBVIOUS
  <2>5. Len(ClientBytes(0, Front(v))) = Front(v)
    BY <2>2, <2>4, StreamSeq
  <2> QED
    BY <2>2, <2>3, <2>5
<1>2. Front(u) >= Front(t)
  <2>1. /\ Replies(t) \in Nat /\ Len(t.to_client) \in Nat /\ Len(u.to_client) \in Nat
    BY DownIsStream
  <2>2. Replies(u) = Replies(t) /\ Len(u.to_client) >= Len(t.to_client)
    BY DEF Goes
  <2> QED
    BY <2>1, <2>2
<1>3. ~u.open => u.to_origin = t.to_origin /\ Front(u) = Front(t)
  BY DEF Goes
<1> HIDE DEF Front
<1>4. Taken(u) = ClientBytes(0, Front(u)) /\ Len(Taken(u)) = Front(u)
  BY <1>1
<1>5. Taken(t) = ClientBytes(0, Front(t)) /\ Len(Taken(t)) = Front(t)
  BY <1>1
<1> QED
  BY <1>2, <1>3, <1>4, <1>5

\* ImplementsTunnel: a session hears, answers once, relays and ends as Tunnel
\* says.  With timeouts one that expires before RELAY may still have an origin,
\* which is then sent what its client pipelined behind the refusal.
THEOREM SessionImplementsTunnel ==
    ASSUME ~Timeouts
    PROVE  Spec => ImplementsTunnel
<1> DEFINE verdict == IF s.stm = "DONE" THEN "no"
                      ELSE IF Replied("connect_ok") THEN "ok" ELSE "none"
<1>1. verdict = Told(s) /\ Delivered = Taken(s)
  BY DEF Replied, ClientStream, Told, Has, Down, Delivered, Taken, Replies
<1>2. verdict' = Told(s') /\ Delivered' = Taken(s')
  BY DEF Replied, ClientStream, Told, Has, Down, Delivered, Taken, Replies
<1>3. ASSUME NEW t, t = socks_session_init
      PROVE  /\ t.parsed = 0 /\ Told(t) = "none" /\ t.to_origin = << >>
             /\ Taken(t) = << >> /\ t.open
  <2>1. /\ t.parsed = 0 /\ t.stm = "AUTH_GREETING" /\ t.to_origin = << >> /\ t.got = 0
        /\ t.open /\ ~t.ttl_expired
    BY <1>3 DEF socks_session_init
  <2>2. Sound(t)
    BY <1>3, InitSound
  <2>3. Told(t) = "none"
    BY <2>1, <2>2, ToldState
  <2>4. Taken(t) = << >>
    BY <2>1, <2>2, DownIsStream
  <2> QED
    BY <2>1, <2>3, <2>4
<1>4. Init => Promise!Init
  <2> SUFFICES ASSUME Init
               PROVE  Promise!Init
    OBVIOUS
  <2>1. s.parsed = 0 /\ Told(s) = "none" /\ s.to_origin = << >> /\ Taken(s) = << >> /\ s.open
    BY <1>3 DEF Init
  <2> QED
    BY <1>1, <2>1 DEF Promise!Init
<1>5. Inv /\ Inv' /\ [Next]_vars => [Promise!Next]_Promise!vars
  <2> SUFFICES ASSUME Inv, Inv', [Next]_vars
               PROVE  Promise!Next \/ UNCHANGED <<s.parsed, verdict, s.to_origin, Delivered, ~s.open>>
    BY DEF Promise!vars
  <2>1. Sound(s) /\ ~s.ttl_expired /\ s \in Shape
    BY DEF Inv, Sound
  <2>2. Sound(s') /\ ~s'.ttl_expired /\ s' \in Shape
    BY DEF Inv, Sound
  <2>3. /\ s.open \in BOOLEAN /\ s'.open \in BOOLEAN
        /\ s.parsed \in Nat
    BY <2>1, <2>2, SessionAssumption DEF Shape
  <2>4. /\ s.stm # "RELAY" => s.to_origin = << >> /\ s.got = 0
        /\ s'.stm # "RELAY" => s'.to_origin = << >> /\ s'.got = 0
    BY <2>1, <2>2 DEF Sound, Mode, Late
  <2>5. /\ s.got = 0 => Taken(s) = << >>
        /\ s'.got = 0 => Taken(s') = << >>
    BY <2>1, <2>2, DownIsStream
  <2>6. /\ Told(s) = IF s.stm = "DONE" THEN "no" ELSE IF s.stm = "RELAY" THEN "ok" ELSE "none"
        /\ Told(s') = IF s'.stm = "DONE" THEN "no" ELSE IF s'.stm = "RELAY" THEN "ok" ELSE "none"
    BY <2>1, <2>2, ToldState
  <2> HIDE DEF verdict
  <2>7. CASE UNCHANGED vars
    <3>1. s' = s
      BY <2>7 DEF vars
    <3> QED
      BY <1>1, <1>2, <3>1
  <2>8. CASE Next /\ ~s.open
    <3>1. CASE s' = s
      BY <1>1, <1>2, <3>1
    <3>2. CASE s' = socks_session_init
      <4>1. /\ s'.parsed = 0 /\ Told(s') = "none" /\ s'.to_origin = << >>
            /\ Taken(s') = << >> /\ s'.open
        BY <1>3, <3>2
      <4>2. Promise!Accept
        BY <1>2, <2>3, <2>8, <4>1 DEF Promise!Accept, Promise!Init, verdict
      <4> QED
        BY <4>2 DEF Promise!Next
    <3> QED
      BY <2>8, <3>1, <3>2, EndedStays
  <2>9. CASE Next /\ s.open /\ s.stm = "RELAY"
    <3>1. Goes(s, s')
      BY <2>9, RelayGoes, OpenKeepsConn
    <3>2. /\ s'.stm = "RELAY" /\ s'.parsed = s.parsed
          /\ Len(s'.to_origin) >= Len(s.to_origin)
      BY <2>9, <3>1 DEF Goes
    <3>3. Told(s) = "ok" /\ Told(s') = "ok"
      BY <2>6, <2>9, <3>2
    <3>4. /\ Len(Taken(s')) >= Len(Taken(s))
          /\ Taken(s') = ClientBytes(0, Len(Taken(s')))
          /\ ~s'.open => s'.to_origin = s.to_origin /\ Taken(s') = Taken(s)
      BY <2>1, <2>2, <3>1, RelaySeen
    <3>5. s'.to_origin = ClientBytes(s'.parsed, Len(s'.to_origin))
      BY <2>2, UpIsStream
    <3>6. CASE s'.open
      <4>1. Promise!Relay
        BY <1>1, <1>2, <2>9, <3>2, <3>3, <3>4, <3>5, <3>6
           DEF Promise!Relay, Promise!Stream, ClientBytes, verdict
      <4> QED
        BY <4>1 DEF Promise!Next
    <3>7. CASE ~s'.open
      <4>1. Promise!End
        BY <1>1, <1>2, <2>9, <3>2, <3>3, <3>4, <3>7 DEF Promise!End, verdict
      <4> QED
        BY <4>1 DEF Promise!Next
    <3> QED
      BY <3>6, <3>7
  <2>10. CASE Next /\ s.open /\ s.stm # "RELAY"
    <3>1. Listens(s, s') /\ (s.stm = "DONE" => s'.stm = "DONE")
      BY <2>10, HandshakeListens, OpenKeepsConn, DoneStep
    <3>2. s.to_origin = << >> /\ Taken(s) = << >>
      BY <2>4, <2>5, <2>10
    <3>3. s'.to_origin = << >> /\ Taken(s') = << >>
      BY <2>4, <2>5, <3>1 DEF Listens
    <3>4. CASE s.stm = "DONE"
      <4>1. Told(s) = "no" /\ Told(s') = "no"
        BY <2>6, <3>1, <3>4
      <4>2. s'.parsed = s.parsed
        BY <3>1, <3>4 DEF Listens
      <4>3. CASE s'.open
        BY <1>1, <1>2, <2>3, <2>10, <3>2, <3>3, <4>1, <4>2, <4>3
      <4>4. CASE ~s'.open
        <5>1. Promise!End
          BY <1>1, <1>2, <2>10, <3>2, <3>3, <4>1, <4>2, <4>4 DEF Promise!End, verdict
        <5> QED
          BY <5>1 DEF Promise!Next
      <4> QED
        BY <4>3, <4>4
    <3>5. CASE s.stm # "DONE" /\ s'.stm = "DONE"
      <4>1. Told(s) = "none" /\ Told(s') = "no"
        BY <2>6, <2>10, <3>5
      <4>2. s'.parsed \in {s.parsed, s.parsed + 1}
        BY <3>1 DEF Listens
      <4>3. Promise!Refuse
        BY <1>1, <1>2, <2>10, <3>2, <3>3, <4>1, <4>2 DEF Promise!Refuse, verdict
      <4> QED
        BY <4>3 DEF Promise!Next
    <3>6. CASE s.stm # "DONE" /\ s'.stm = "RELAY"
      <4>1. Told(s) = "none" /\ Told(s') = "ok"
        BY <2>6, <2>10, <3>6
      <4>2. s'.parsed = s.parsed
        BY <3>1, <3>6 DEF Listens
      <4>3. Promise!Admit
        BY <1>1, <1>2, <2>10, <3>2, <3>3, <4>1, <4>2 DEF Promise!Admit, verdict
      <4> QED
        BY <4>3 DEF Promise!Next
    <3>7. CASE s.stm # "DONE" /\ s'.stm \notin {"RELAY", "DONE"}
      <4>1. Told(s) = "none" /\ Told(s') = "none"
        BY <2>6, <2>10, <3>7
      <4>2. CASE s'.parsed = s.parsed + 1 /\ s'.open
        <5>1. Promise!Hear
          BY <1>1, <1>2, <2>10, <3>2, <3>3, <4>1, <4>2 DEF Promise!Hear, verdict
        <5> QED
          BY <5>1 DEF Promise!Next
      <4>3. CASE s'.parsed = s.parsed /\ s'.open
        BY <1>1, <1>2, <2>3, <2>10, <3>2, <3>3, <4>1, <4>3
      <4>4. CASE s'.parsed = s.parsed /\ ~s'.open
        <5>1. Promise!End
          BY <1>1, <1>2, <2>10, <3>2, <3>3, <4>1, <4>4 DEF Promise!End, verdict
        <5> QED
          BY <5>1 DEF Promise!Next
      <4> QED
        BY <3>1, <3>7, <4>2, <4>3, <4>4 DEF Listens
    <3> QED
      BY <3>4, <3>5, <3>6, <3>7
  <2> QED
    BY <2>7, <2>8, <2>9, <2>10
<1> QED
  BY <1>4, <1>5, Invariance, PTL DEF Spec, ImplementsTunnel, Promise!Spec
=============================================================================
