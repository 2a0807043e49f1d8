--------------------------- MODULE Server_proofs ---------------------------
(***************************************************************************)
(* First the idle list, for every number of sessions.  The links alone are *)
(* no inductive invariant: what the head's successor is to the rest of the *)
(* list follows only from the whole chain.  The invariant says that some   *)
(* enumeration q of the listed sessions, in order of activity, is what the *)
(* links spell out.                                                        *)
(*                                                                         *)
(* Then the process: it serves its sessions as IdleList says, so that what *)
(* is proved of the list holds in it; and its two counters count what they *)
(* are for, so that main frees its servers after their last session.       *)
(***************************************************************************)
EXTENDS Server, FiniteSetTheorems, TLAPS

\* The links of list l spell out q[1], ..., q[n].
Spells(l, n, q) ==
    /\ \A x \in Sessions : l.in[x] <=> \E i \in 1..n : q[i] = x
    /\ \A i, j \in 1..n : q[i] = q[j] => i = j
    /\ l.head = IF n = 0 THEN NULL ELSE q[1]
    /\ l.tail = IF n = 0 THEN NULL ELSE q[n]
    /\ \A i \in 1..n : l.next[q[i]] = IF i = n THEN NULL ELSE q[i + 1]
    /\ \A i \in 1..n : l.prev[q[i]] = IF i = 1 THEN NULL ELSE q[i - 1]
    /\ \A x \in Sessions : ~l.in[x] => l.next[x] = NULL /\ l.prev[x] = NULL

\* Activity never goes back along q.
Sorted(n, q, la) == \A i, j \in 1..n : i <= j => la[q[i]] <= la[q[j]]

ListType(l) ==
    /\ l.head \in Sessions \cup {NULL}
    /\ l.tail \in Sessions \cup {NULL}
    /\ l.prev \in [Sessions -> Sessions \cup {NULL}]
    /\ l.next \in [Sessions -> Sessions \cup {NULL}]
    /\ l.in \in [Sessions -> BOOLEAN]

\* Some enumeration of the listed sessions is spelled out and sorted by la.
Enumerated(l, la) ==
    \E n \in Nat : \E q \in [1..n -> Sessions] :
       Spells(l, n, q) /\ Sorted(n, q, la)

\* The inductive invariant.
Inv ==
    /\ TypeOK
    /\ Listed = live \ expired
    /\ \A x \in Sessions : last_activity[x] <= clock
    /\ Enumerated(List, last_activity)

-----------------------------------------------------------------------------
(***************************************************************************)
(* The two changes of the list                                             *)
(***************************************************************************)
\* q without its k-th session.
Without(n, q, k) == [i \in 1..(n - 1) |-> IF i < k THEN q[i] ELSE q[i + 1]]

\* idle_list_remove takes one session out of the enumeration.
LEMMA RemoveSpells ==
    ASSUME NEW l, ListType(l), NEW n \in Nat, NEW q \in [1..n -> Sessions],
           Spells(l, n, q), NEW k \in 1..n, NEW x, x = q[k]
    PROVE  /\ ListType(idle_list_remove(l, x))
           /\ Without(n, q, k) \in [1..(n - 1) -> Sessions]
           /\ Spells(idle_list_remove(l, x), n - 1, Without(n, q, k))
<1> DEFINE p == l.prev[x]
           m == l.next[x]
           r == idle_list_remove(l, x)
           w == Without(n, q, k)
<1>1. x \in Sessions /\ l.in[x] /\ n - 1 \in Nat /\ NULL \notin Sessions
  BY IdleAssumption DEF Spells
<1>2. /\ p = IF k = 1 THEN NULL ELSE q[k - 1]
      /\ m = IF k = n THEN NULL ELSE q[k + 1]
      /\ p \in Sessions \cup {NULL} /\ m \in Sessions \cup {NULL}
  BY DEF Spells
<1>3. /\ r.head = IF p = NULL THEN m ELSE l.head
      /\ r.tail = IF m = NULL THEN p ELSE l.tail
      /\ r.next = [y \in Sessions |-> IF y = x THEN NULL
                                      ELSE IF y = p THEN m ELSE l.next[y]]
      /\ r.prev = [y \in Sessions |-> IF y = x THEN NULL
                                      ELSE IF y = m THEN p ELSE l.prev[y]]
      /\ r.in = [l.in EXCEPT ![x] = FALSE]
  BY <1>1 DEF idle_list_remove
<1> HIDE DEF r
<1>4. ListType(r)
  BY <1>1, <1>2, <1>3 DEF ListType
<1>5. w \in [1..(n - 1) -> Sessions]
  BY <1>1 DEF Without
<1>6. \A i \in 1..(n - 1) : w[i] = IF i < k THEN q[i] ELSE q[i + 1]
  BY DEF Without
<1> HIDE DEF w
<1>7. \A y \in Sessions : r.in[y] <=> \E i \in 1..(n - 1) : w[i] = y
  <2> SUFFICES ASSUME NEW y \in Sessions
               PROVE  r.in[y] <=> \E i \in 1..(n - 1) : w[i] = y
    OBVIOUS
  <2>1. r.in[y] <=> y # x /\ l.in[y]
    BY <1>1, <1>3 DEF ListType
  <2>2. ASSUME NEW i \in 1..(n - 1), w[i] = y
        PROVE  y # x /\ l.in[y]
    <3>1. CASE i < k
      BY <2>2, <3>1, <1>6 DEF Spells
    <3>2. CASE ~(i < k)
      <4>1. i + 1 \in 1..n /\ i + 1 # k /\ w[i] = q[i + 1]
        BY <3>2, <1>6
      <4> QED
        BY <2>2, <4>1 DEF Spells
    <3> QED
      BY <3>1, <3>2
  <2>3. ASSUME y # x, l.in[y]
        PROVE  \E i \in 1..(n - 1) : w[i] = y
    <3>1. PICK j \in 1..n : q[j] = y
      BY <2>3 DEF Spells
    <3>2. CASE j < k
      <4>1. j \in 1..(n - 1) /\ w[j] = q[j]
        BY <3>2, <1>6
      <4> QED
        BY <3>1, <4>1
    <3>3. CASE ~(j < k)
      <4>1. j # k
        BY <2>3, <3>1
      <4>2. j - 1 \in 1..(n - 1) /\ ~(j - 1 < k) /\ (j - 1) + 1 = j
        BY <3>3, <4>1
      <4>3. w[j - 1] = q[j]
        BY <4>2, <1>6
      <4> QED
        BY <3>1, <4>2, <4>3
    <3> QED
      BY <3>2, <3>3
  <2> QED
    BY <2>1, <2>2, <2>3
<1>8. \A i, j \in 1..(n - 1) : w[i] = w[j] => i = j
  <2> SUFFICES ASSUME NEW i \in 1..(n - 1), NEW j \in 1..(n - 1), w[i] = w[j]
               PROVE  i = j
    OBVIOUS
  <2> DEFINE a == IF i < k THEN i ELSE i + 1
             c == IF j < k THEN j ELSE j + 1
  <2>1. a \in 1..n /\ c \in 1..n /\ w[i] = q[a] /\ w[j] = q[c]
    BY <1>6
  <2> HIDE DEF a, c
  <2>2. \A s, t \in 1..n : q[s] = q[t] => s = t
    BY DEF Spells
  <2>3. q[a] = q[c]
    BY <2>1
  <2>4. a = c
    BY <2>1, <2>2, <2>3
  <2> QED
    BY <2>4 DEF a, c
<1>9. r.head = IF n - 1 = 0 THEN NULL ELSE w[1]
  BY <1>1, <1>2, <1>3, <1>6 DEF Spells
<1>10. r.tail = IF n - 1 = 0 THEN NULL ELSE w[n - 1]
  BY <1>1, <1>2, <1>3, <1>6 DEF Spells
<1>11. ASSUME NEW i \in 1..(n - 1)
       PROVE  /\ r.next[w[i]] = IF i = n - 1 THEN NULL ELSE w[i + 1]
              /\ r.prev[w[i]] = IF i = 1 THEN NULL ELSE w[i - 1]
  <2> DEFINE a == IF i < k THEN i ELSE i + 1
  <2>1. a \in 1..n /\ a # k /\ w[i] = q[a] /\ q[a] \in Sessions /\ q[a] # x
    BY <1>6 DEF Spells
  <2>2. /\ l.next[q[a]] = IF a = n THEN NULL ELSE q[a + 1]
        /\ l.prev[q[a]] = IF a = 1 THEN NULL ELSE q[a - 1]
    BY <2>1 DEF Spells
  <2>3. q[a] = p <=> a = k - 1
    BY <2>1, <1>1, <1>2 DEF Spells
  <2>4. q[a] = m <=> a = k + 1
    BY <2>1, <1>1, <1>2 DEF Spells
  <2>5. r.next[w[i]] = IF a = k - 1 THEN m ELSE l.next[q[a]]
    BY <2>1, <2>3, <1>3
  <2>6. r.prev[w[i]] = IF a = k + 1 THEN p ELSE l.prev[q[a]]
    BY <2>1, <2>4, <1>3
  <2>7. r.next[w[i]] = IF i = n - 1 THEN NULL ELSE w[i + 1]
    <3>1. CASE i < k - 1
      BY <3>1, <2>2, <2>5, <1>6
    <3>2. CASE i = k - 1
      BY <3>2, <2>5, <1>2, <1>6
    <3>3. CASE i > k - 1
      BY <3>3, <2>2, <2>5, <1>6
    <3> QED
      BY <3>1, <3>2, <3>3
  <2>8. r.prev[w[i]] = IF i = 1 THEN NULL ELSE w[i - 1]
    <3>1. CASE i < k
      BY <3>1, <2>2, <2>6, <1>6
    <3>2. CASE i = k
      BY <3>2, <2>6, <1>2, <1>6
    <3>3. CASE i > k
      BY <3>3, <2>2, <2>6, <1>6
    <3> QED
      BY <3>1, <3>2, <3>3
  <2> QED
    BY <2>7, <2>8
<1>12. ASSUME NEW y \in Sessions, ~r.in[y]
       PROVE  r.next[y] = NULL /\ r.prev[y] = NULL
  <2>1. CASE y = x
    BY <2>1, <1>3
  <2>2. CASE y # x
    <3>1. ~l.in[y]
      BY <2>2, <1>1, <1>3, <1>12 DEF ListType
    <3>2. y # p /\ y # m
      BY <3>1, <1>1, <1>2 DEF Spells
    <3> QED
      BY <2>2, <3>1, <3>2, <1>3 DEF Spells
  <2> QED
    BY <2>1, <2>2
<1>13. Spells(r, n - 1, w)
  BY <1>7, <1>8, <1>9, <1>10, <1>11, <1>12 DEF Spells
<1> QED
  BY <1>3, <1>4, <1>5, <1>13 DEF r, w

\* q with a session behind it.
With(n, q, x) == [i \in 1..(n + 1) |-> IF i = n + 1 THEN x ELSE q[i]]

\* idle_list_push_tail, once the session is out, puts it last.
LEMMA LinkSpells ==
    ASSUME NEW l, ListType(l), NEW n \in Nat, NEW q \in [1..n -> Sessions],
           Spells(l, n, q), NEW x \in Sessions, ~l.in[x]
    PROVE  /\ ListType(Linked(l, x))
           /\ With(n, q, x) \in [1..(n + 1) -> Sessions]
           /\ Spells(Linked(l, x), n + 1, With(n, q, x))
           /\ Linked(l, x).in = [l.in EXCEPT ![x] = TRUE]
<1> DEFINE r == Linked(l, x)
           w == With(n, q, x)
<1>1. n + 1 \in Nat /\ NULL \notin Sessions
  BY IdleAssumption
<1>2. /\ r.head = IF l.tail = NULL THEN x ELSE l.head
      /\ r.tail = x
      /\ r.next = [y \in Sessions |-> IF y = x THEN NULL
                                      ELSE IF y = l.tail THEN x ELSE l.next[y]]
      /\ r.prev = [l.prev EXCEPT ![x] = l.tail]
      /\ r.in = [l.in EXCEPT ![x] = TRUE]
  BY DEF Linked
<1> HIDE DEF r
<1>3. ListType(r)
  BY <1>2 DEF ListType
<1>4. w \in [1..(n + 1) -> Sessions] /\ w[n + 1] = x /\ \A i \in 1..n : w[i] = q[i]
  BY DEF With
<1> HIDE DEF w
<1>5. \A i \in 1..n : q[i] # x /\ q[i] \in Sessions
  BY DEF Spells
<1>6. \A y \in Sessions : r.in[y] <=> \E i \in 1..(n + 1) : w[i] = y
  <2> SUFFICES ASSUME NEW y \in Sessions
               PROVE  r.in[y] <=> \E i \in 1..(n + 1) : w[i] = y
    OBVIOUS
  <2>1. r.in[y] <=> y = x \/ l.in[y]
    BY <1>2 DEF ListType
  <2>2. (\E i \in 1..(n + 1) : w[i] = y) <=> y = x \/ \E i \in 1..n : q[i] = y
    BY <1>1, <1>4
  <2> QED
    BY <2>1, <2>2 DEF Spells
<1>7. \A i, j \in 1..(n + 1) : w[i] = w[j] => i = j
  BY <1>1, <1>4, <1>5 DEF Spells
<1>8. r.head = IF n + 1 = 0 THEN NULL ELSE w[1]
  BY <1>1, <1>2, <1>4, <1>5 DEF Spells
<1>9. r.tail = IF n + 1 = 0 THEN NULL ELSE w[n + 1]
  BY <1>1, <1>2, <1>4
<1>10. ASSUME NEW i \in 1..(n + 1)
       PROVE  /\ r.next[w[i]] = IF i = n + 1 THEN NULL ELSE w[i + 1]
              /\ r.prev[w[i]] = IF i = 1 THEN NULL ELSE w[i - 1]
  <2>1. CASE i = n + 1
    <3>1. r.next[w[i]] = NULL /\ r.prev[w[i]] = l.tail
      BY <2>1, <1>2, <1>4 DEF ListType
    <3> QED
      BY <2>1, <3>1, <1>1, <1>4 DEF Spells
  <2>2. CASE i \in 1..n
    <3>1. w[i] = q[i] /\ q[i] # x /\ q[i] \in Sessions
      BY <2>2, <1>4, <1>5
    <3>2. q[i] = l.tail <=> i = n
      BY <2>2, <3>1, <1>1 DEF Spells
    <3>3. r.next[w[i]] = IF i = n THEN x ELSE l.next[q[i]]
      BY <3>1, <3>2, <1>2
    <3>4. r.prev[w[i]] = l.prev[q[i]]
      BY <3>1, <1>2 DEF ListType
    <3>5. /\ l.next[q[i]] = IF i = n THEN NULL ELSE q[i + 1]
          /\ l.prev[q[i]] = IF i = 1 THEN NULL ELSE q[i - 1]
      BY <2>2 DEF Spells
    <3> QED
      BY <2>2, <3>3, <3>4, <3>5, <1>4
  <2> QED
    BY <2>1, <2>2
<1>11. ASSUME NEW y \in Sessions, ~r.in[y]
       PROVE  r.next[y] = NULL /\ r.prev[y] = NULL
  <2>1. y # x /\ ~l.in[y]
    BY <1>2, <1>11 DEF ListType
  <2>2. y # l.tail
    BY <2>1, <1>1 DEF Spells
  <2> QED
    BY <2>1, <2>2, <1>2 DEF Spells, ListType
<1>12. Spells(r, n + 1, w)
  BY <1>6, <1>7, <1>8, <1>9, <1>10, <1>11 DEF Spells
<1> QED
  BY <1>2, <1>3, <1>4, <1>12 DEF r, w

\* Taking a session out keeps the rest in order, whatever its own time becomes.
LEMMA RemoveEnumerated ==
    ASSUME NEW l, ListType(l), NEW x \in Sessions, l.in[x],
           NEW la \in [Sessions -> Nat], NEW lb \in [Sessions -> Nat],
           \A y \in Sessions \ {x} : lb[y] = la[y],
           Enumerated(l, la)
    PROVE  /\ ListType(idle_list_remove(l, x))
           /\ Enumerated(idle_list_remove(l, x), lb)
           /\ idle_list_remove(l, x).in = [l.in EXCEPT ![x] = FALSE]
<1>n. PICK n \in Nat : \E q \in [1..n -> Sessions] :
         Spells(l, n, q) /\ Sorted(n, q, la)
  BY DEF Enumerated
<1>1. PICK q \in [1..n -> Sessions] : Spells(l, n, q) /\ Sorted(n, q, la)
  BY <1>n
<1>2. PICK k \in 1..n : x = q[k]
  BY <1>1 DEF Spells
<1> DEFINE w == Without(n, q, k)
<1>3. /\ ListType(idle_list_remove(l, x))
      /\ w \in [1..(n - 1) -> Sessions]
      /\ Spells(idle_list_remove(l, x), n - 1, w)
      /\ idle_list_remove(l, x).in = [l.in EXCEPT ![x] = FALSE]
  <2>1. Spells(l, n, q)
    BY <1>1
  <2>2. ListType(idle_list_remove(l, x))
    BY <2>1, <1>2, RemoveSpells
  <2>3. w \in [1..(n - 1) -> Sessions]
    BY <2>1, <1>2, RemoveSpells
  <2>4. Spells(idle_list_remove(l, x), n - 1, w)
    BY <2>1, <1>2, RemoveSpells
  <2>5. idle_list_remove(l, x).in = [l.in EXCEPT ![x] = FALSE]
    BY DEF idle_list_remove
  <2> QED
    BY <2>2, <2>3, <2>4, <2>5
<1>4. \A i \in 1..(n - 1) : w[i] = IF i < k THEN q[i] ELSE q[i + 1]
  BY DEF Without
<1>5. \A i \in 1..n : i # k => q[i] \in Sessions /\ lb[q[i]] = la[q[i]]
  <2>1. \A i, j \in 1..n : q[i] = q[j] => i = j
    BY <1>1 DEF Spells
  <2> QED
    BY <1>2, <2>1
<1> HIDE DEF w
<1>6. Sorted(n - 1, w, lb)
  <2> SUFFICES ASSUME NEW i \in 1..(n - 1), NEW j \in 1..(n - 1), i <= j
               PROVE  lb[w[i]] <= lb[w[j]]
    BY DEF Sorted
  <2> DEFINE a == IF i < k THEN i ELSE i + 1
             c == IF j < k THEN j ELSE j + 1
  <2>1. /\ a \in 1..n /\ c \in 1..n /\ a # k /\ c # k /\ a <= c
        /\ w[i] = q[a] /\ w[j] = q[c]
    BY <1>4
  <2> HIDE DEF a, c
  <2>2. la[q[a]] <= la[q[c]]
    BY <2>1, <1>1 DEF Sorted
  <2>3. lb[q[a]] = la[q[a]] /\ lb[q[c]] = la[q[c]]
    BY <2>1, <1>5
  <2> QED
    BY <2>1, <2>2, <2>3
<1>7. n - 1 \in Nat
  BY <1>2
<1> QED
  BY <1>3, <1>6, <1>7 DEF Enumerated

\* Putting a session last, with a time no earlier than any other, keeps the
\* order.
LEMMA LinkEnumerated ==
    ASSUME NEW l, ListType(l), NEW x \in Sessions, ~l.in[x],
           NEW la \in [Sessions -> Nat],
           \A y \in Sessions : la[y] <= la[x],
           Enumerated(l, la)
    PROVE  /\ ListType(Linked(l, x))
           /\ Enumerated(Linked(l, x), la)
           /\ Linked(l, x).in = [l.in EXCEPT ![x] = TRUE]
<1>n. PICK n \in Nat : \E q \in [1..n -> Sessions] :
         Spells(l, n, q) /\ Sorted(n, q, la)
  BY DEF Enumerated
<1>1. PICK q \in [1..n -> Sessions] : Spells(l, n, q) /\ Sorted(n, q, la)
  BY <1>n
<1> DEFINE w == With(n, q, x)
<1>2. /\ ListType(Linked(l, x))
      /\ w \in [1..(n + 1) -> Sessions]
      /\ Spells(Linked(l, x), n + 1, w)
      /\ Linked(l, x).in = [l.in EXCEPT ![x] = TRUE]
  BY <1>1, LinkSpells
<1>3. \A i \in 1..(n + 1) : w[i] = IF i = n + 1 THEN x ELSE q[i]
  BY DEF With
<1> HIDE DEF w
<1>4. Sorted(n + 1, w, la)
  <2> SUFFICES ASSUME NEW i \in 1..(n + 1), NEW j \in 1..(n + 1), i <= j
               PROVE  la[w[i]] <= la[w[j]]
    BY DEF Sorted
  <2>1. CASE j = n + 1
    BY <2>1, <1>2, <1>3
  <2>2. CASE j # n + 1
    <3>1. i \in 1..n /\ j \in 1..n /\ w[i] = q[i] /\ w[j] = q[j]
      BY <2>2, <1>3
    <3> QED
      BY <3>1, <1>1 DEF Sorted
  <2> QED
    BY <2>1, <2>2
<1> QED
  BY <1>1, <1>2, <1>4 DEF Enumerated

\* idle_list_push_tail, called with the session's time already set to now,
\* keeps the order whether the session was the tail, elsewhere in the list or
\* out of it.
LEMMA PushEnumerated ==
    ASSUME NEW l, ListType(l), NEW x \in Sessions,
           NEW la \in [Sessions -> Nat], NEW lb \in [Sessions -> Nat],
           \A y \in Sessions \ {x} : lb[y] = la[y],
           \A y \in Sessions : lb[y] <= lb[x],
           Enumerated(l, la)
    PROVE  /\ ListType(idle_list_push_tail(l, x))
           /\ Enumerated(idle_list_push_tail(l, x), lb)
           /\ idle_list_push_tail(l, x).in = [l.in EXCEPT ![x] = TRUE]
<1>1. CASE l.in[x] /\ x = l.tail
  <2>n. PICK n \in Nat : \E q \in [1..n -> Sessions] :
           Spells(l, n, q) /\ Sorted(n, q, la)
    BY DEF Enumerated
  <2>1. PICK q \in [1..n -> Sessions] : Spells(l, n, q) /\ Sorted(n, q, la)
    BY <2>n
  <2>2. n \in 1..n /\ q[n] = x
    BY <1>1, <2>1, IdleAssumption DEF Spells
  <2>3. \A i \in 1..n : i # n => q[i] \in Sessions \ {x}
    BY <2>1, <2>2 DEF Spells
  <2>4. Sorted(n, q, lb)
    <3> SUFFICES ASSUME NEW i \in 1..n, NEW j \in 1..n, i <= j
                 PROVE  lb[q[i]] <= lb[q[j]]
      BY DEF Sorted
    <3>1. CASE j = n
      BY <3>1, <2>1, <2>2
    <3>2. CASE j # n
      <4>1. lb[q[i]] = la[q[i]] /\ lb[q[j]] = la[q[j]]
        BY <3>2, <2>3
      <4> QED
        BY <4>1, <2>1 DEF Sorted
    <3> QED
      BY <3>1, <3>2
  <2>5. idle_list_push_tail(l, x) = l
    BY <1>1 DEF idle_list_push_tail
  <2>6. l.in = [l.in EXCEPT ![x] = TRUE]
    BY <1>1 DEF ListType
  <2> QED
    BY <2>1, <2>4, <2>5, <2>6 DEF Enumerated
<1>2. CASE ~(l.in[x] /\ x = l.tail)
  <2> DEFINE r == idle_list_remove(l, x)
  <2>1. idle_list_push_tail(l, x) = Linked(r, x)
    BY <1>2 DEF idle_list_push_tail
  <2>2. ListType(r) /\ Enumerated(r, lb) /\ r.in = [l.in EXCEPT ![x] = FALSE]
    <3>1. CASE l.in[x]
      BY <3>1, RemoveEnumerated
    <3>2. CASE ~l.in[x]
      <4>1. r = l
        BY <3>2 DEF idle_list_remove
      <4>2. l.in = [l.in EXCEPT ![x] = FALSE]
        BY <3>2 DEF ListType
      <4>n. PICK n \in Nat : \E q \in [1..n -> Sessions] :
               Spells(l, n, q) /\ Sorted(n, q, la)
        BY DEF Enumerated
      <4>3. PICK q \in [1..n -> Sessions] : Spells(l, n, q) /\ Sorted(n, q, la)
        BY <4>n
      <4>4. \A i \in 1..n : q[i] \in Sessions \ {x}
        BY <3>2, <4>3 DEF Spells
      <4>5. Sorted(n, q, lb)
        BY <4>3, <4>4 DEF Sorted
      <4> QED
        BY <4>1, <4>2, <4>3, <4>5 DEF Enumerated
    <3> QED
      BY <3>1, <3>2
  <2> HIDE DEF r
  <2>3. ~r.in[x]
    BY <2>2 DEF ListType
  <2>4. /\ ListType(Linked(r, x)) /\ Enumerated(Linked(r, x), lb)
        /\ Linked(r, x).in = [r.in EXCEPT ![x] = TRUE]
    BY <2>2, <2>3, LinkEnumerated
  <2>5. [r.in EXCEPT ![x] = TRUE] = [l.in EXCEPT ![x] = TRUE]
    BY <2>2 DEF ListType
  <2> QED
    BY <2>1, <2>4, <2>5
<1> QED
  BY <1>1, <1>2

-----------------------------------------------------------------------------
(***************************************************************************)
(* The invariant                                                           *)
(***************************************************************************)
\* What is spelled out depends on the five fields only.
LEMMA SameFields ==
    ASSUME NEW l, NEW r, NEW n \in Nat, NEW q, Spells(r, n, q),
           l.head = r.head, l.tail = r.tail, l.prev = r.prev,
           l.next = r.next, l.in = r.in
    PROVE  Spells(l, n, q)
  BY DEF Spells

\* What SetList(r) leaves of the list it was given.
LEMMA SetListIsList ==
    ASSUME NEW r, ListType(r), NEW la, Enumerated(r, la), SetList(r)
    PROVE  /\ Enumerated(List', la)
           /\ idle_head' \in Sessions \cup {NULL}
           /\ idle_tail' \in Sessions \cup {NULL}
           /\ idle_prev' \in [Sessions -> Sessions \cup {NULL}]
           /\ idle_next' \in [Sessions -> Sessions \cup {NULL}]
           /\ in_idle_list' \in [Sessions -> BOOLEAN]
           /\ in_idle_list' = r.in
<1>1. /\ List'.head = r.head /\ List'.tail = r.tail /\ List'.prev = r.prev
      /\ List'.next = r.next /\ List'.in = r.in
  BY DEF SetList, List
<1>n. PICK n \in Nat : \E q \in [1..n -> Sessions] :
         Spells(r, n, q) /\ Sorted(n, q, la)
  BY DEF Enumerated
<1>2. PICK q \in [1..n -> Sessions] : Spells(r, n, q) /\ Sorted(n, q, la)
  BY <1>n
<1>3. Spells(List', n, q)
  BY <1>1, <1>2, SameFields
<1>4. Enumerated(List', la)
  BY <1>2, <1>3 DEF Enumerated
<1> QED
  BY <1>4 DEF ListType, SetList

LEMMA ListTyped == TypeOK => ListType(List)
  BY DEF TypeOK, ListType, List

\* No session is listed at the start.
LEMMA InitInv == Init => Inv
<1> SUFFICES ASSUME Init PROVE Inv
  OBVIOUS
<1>1. TypeOK
  BY IdleAssumption DEF Init, TypeOK
<1>2. Listed = live \ expired /\ \A x \in Sessions : last_activity[x] <= clock
  BY DEF Init, Listed
<1> DEFINE q == [i \in 1..0 |-> NULL]
<1>3. q \in [1..0 -> Sessions] /\ Spells(List, 0, q) /\ Sorted(0, q, last_activity)
  BY DEF Init, List, Spells, Sorted
<1>4. Enumerated(List, last_activity)
  BY <1>3 DEF Enumerated
<1> QED
  BY <1>1, <1>2, <1>4 DEF Inv

\* A step that leaves the links and the times alone.
LEMMA LinksUnchanged ==
    ASSUME Inv, UNCHANGED <<links, last_activity, live, expired>>,
           clock' \in 0..MaxTime, clock' >= clock,
           timeout' \in 0..MaxTimeout, loop' \in (0..MaxTime) \cup {NULL}
    PROVE  Inv'
<1>1. List' = List
  BY DEF List, links
<1>2. TypeOK'
  BY DEF Inv, TypeOK, links
<1>3. (Listed = live \ expired)'
  BY DEF Inv, Listed, links
<1>4. \A x \in Sessions : last_activity'[x] <= clock'
  BY IdleAssumption DEF Inv, TypeOK
<1>5. Enumerated(List', last_activity')
  BY <1>1 DEF Inv
<1> QED
  BY <1>2, <1>3, <1>4, <1>5 DEF Inv

\* Every action keeps the invariant.
LEMMA StepInv == Inv /\ [Next]_vars => Inv'
<1> SUFFICES ASSUME Inv, [Next]_vars PROVE Inv'
  OBVIOUS
<1> USE IdleAssumption
<1>t. /\ TypeOK /\ ListType(List) /\ Enumerated(List, last_activity)
      /\ Listed = live \ expired
      /\ last_activity \in [Sessions -> Nat] /\ clock \in Nat
      /\ \A y \in Sessions : last_activity[y] <= clock
      /\ List.in = in_idle_list
  BY ListTyped DEF Inv, TypeOK, List
<1>p. ASSUME NEW x \in Sessions
      PROVE  LET r == idle_list_push_tail(List, x)
                 lb == [last_activity EXCEPT ![x] = clock]
             IN  ListType(r) /\ Enumerated(r, lb)
                 /\ r.in = [in_idle_list EXCEPT ![x] = TRUE]
  <2> DEFINE lb == [last_activity EXCEPT ![x] = clock]
  <2>1. /\ lb \in [Sessions -> Nat]
        /\ \A y \in Sessions \ {x} : lb[y] = last_activity[y]
        /\ \A y \in Sessions : lb[y] <= lb[x]
    BY <1>t
  <2> HIDE DEF lb
  <2>2. /\ ListType(idle_list_push_tail(List, x))
        /\ Enumerated(idle_list_push_tail(List, x), lb)
        /\ idle_list_push_tail(List, x).in = [List.in EXCEPT ![x] = TRUE]
    BY <1>t, <2>1, PushEnumerated
  <2> QED
    BY <2>2, <1>t DEF lb
<1>1. ASSUME NEW x \in Sessions, Accept(x)
      PROVE  Inv'
  <2> DEFINE r == idle_list_push_tail(List, x)
  <2>1. /\ ListType(r) /\ Enumerated(r, last_activity')
        /\ r.in = [in_idle_list EXCEPT ![x] = TRUE] /\ SetList(r)
    BY <1>p, <1>1 DEF Accept
  <2> HIDE DEF r
  <2>2. TypeOK' /\ Enumerated(List', last_activity') /\ in_idle_list' = r.in
    BY <2>1, <1>t, <1>1, SetListIsList DEF Accept, TypeOK
  <2>3. (Listed = live \ expired)'
    BY <2>1, <2>2, <1>t, <1>1 DEF Accept, Listed, TypeOK
  <2>4. \A y \in Sessions : last_activity'[y] <= clock'
    BY <1>t, <1>1 DEF Accept
  <2> QED
    BY <2>2, <2>3, <2>4 DEF Inv
<1>2. ASSUME NEW x \in Sessions, socks_session_touch(x)
      PROVE  Inv'
  <2>1. \A y \in Sessions : last_activity'[y] <= clock'
    BY <1>t, <1>2 DEF socks_session_touch
  <2>2. CASE in_idle_list[x]
    <3> DEFINE r == idle_list_push_tail(List, x)
    <3>1. /\ ListType(r) /\ Enumerated(r, last_activity')
          /\ r.in = [in_idle_list EXCEPT ![x] = TRUE] /\ SetList(r)
      BY <1>p, <1>2, <2>2 DEF socks_session_touch
    <3> HIDE DEF r
    <3>2. TypeOK' /\ Enumerated(List', last_activity') /\ in_idle_list' = r.in
      BY <3>1, <1>t, <1>2, SetListIsList DEF socks_session_touch, TypeOK
    <3>3. (Listed = live \ expired)'
      BY <3>1, <3>2, <2>2, <1>t, <1>2 DEF socks_session_touch, Listed, TypeOK
    <3> QED
      BY <2>1, <3>2, <3>3 DEF Inv
  <2>3. CASE ~in_idle_list[x]
    <3>1. TypeOK' /\ List' = List /\ (Listed = live \ expired)'
      BY <2>3, <1>t, <1>2 DEF socks_session_touch, TypeOK, List, links, Listed
    <3>n. PICK n \in Nat : \E q \in [1..n -> Sessions] :
             Spells(List, n, q) /\ Sorted(n, q, last_activity)
      BY <1>t DEF Enumerated
    <3>2. PICK q \in [1..n -> Sessions] :
             Spells(List, n, q) /\ Sorted(n, q, last_activity)
      BY <3>n
    <3>3. \A i \in 1..n : q[i] # x /\ q[i] \in Sessions
      BY <3>2, <2>3, <1>t DEF Spells
    <3>4. \A i \in 1..n : last_activity'[q[i]] = last_activity[q[i]]
      BY <3>3, <1>t, <1>2 DEF socks_session_touch
    <3>5. Sorted(n, q, last_activity')
      BY <3>2, <3>4 DEF Sorted
    <3>6. Enumerated(List', last_activity')
      BY <3>1, <3>2, <3>5 DEF Enumerated
    <3> QED
      BY <2>1, <3>1, <3>6 DEF Inv
  <2> QED
    BY <2>2, <2>3
<1>3. ASSUME NEW x \in Sessions, socks_client_close(x)
      PROVE  Inv'
  <2> DEFINE r == idle_list_remove(List, x)
  <2>1. /\ ListType(r) /\ Enumerated(r, last_activity)
        /\ r.in = [in_idle_list EXCEPT ![x] = FALSE] /\ SetList(r)
    <3>1. SetList(r)
      BY <1>3 DEF socks_client_close
    <3>2. CASE in_idle_list[x]
      BY <3>1, <3>2, <1>t, RemoveEnumerated
    <3>3. CASE ~in_idle_list[x]
      <4>1. r = List
        BY <3>3, <1>t DEF idle_list_remove
      <4>2. in_idle_list = [in_idle_list EXCEPT ![x] = FALSE]
        BY <3>3, <1>t DEF TypeOK
      <4> QED
        BY <3>1, <4>1, <4>2, <1>t
    <3> QED
      BY <3>2, <3>3
  <2> HIDE DEF r
  <2>2. TypeOK' /\ Enumerated(List', last_activity) /\ in_idle_list' = r.in
    BY <2>1, <1>t, <1>3, SetListIsList DEF socks_client_close, TypeOK
  <2>3. (Listed = live \ expired)'
    BY <2>1, <2>2, <1>t, <1>3 DEF socks_client_close, Listed, TypeOK
  <2> QED
    BY <2>2, <2>3, <1>t, <1>3 DEF Inv, socks_client_close
<1>4. CASE ExpireHead
  <2> DEFINE x == idle_head
             r == idle_list_remove(List, x)
  <2>1. x \in Sessions /\ in_idle_list[x]
    <3>n. PICK n \in Nat : \E q \in [1..n -> Sessions] :
             Spells(List, n, q) /\ Sorted(n, q, last_activity)
      BY <1>t DEF Enumerated
    <3>1. PICK q \in [1..n -> Sessions] : Spells(List, n, q)
      BY <3>n
    <3>2. n # 0 /\ x = q[1]
      BY <3>1, <1>4 DEF Spells, List, ExpireHead
    <3>3. 1 \in 1..n
      BY <3>2
    <3> QED
      BY <3>1, <3>2, <3>3, <1>t DEF Spells
  <2>2. /\ last_activity' \in [Sessions -> 0..MaxTime]
        /\ \A y \in Sessions \ {x} : last_activity'[y] = last_activity[y]
        /\ \A y \in Sessions : last_activity'[y] <= clock'
    BY <2>1, <1>t, <1>4 DEF ExpireHead, TypeOK
  <2>3. /\ ListType(r) /\ Enumerated(r, last_activity')
        /\ r.in = [in_idle_list EXCEPT ![x] = FALSE] /\ SetList(r)
    <3>1. SetList(r)
      BY <1>4 DEF ExpireHead
    <3>2. last_activity' \in [Sessions -> Nat]
      BY <2>2
    <3> QED
      BY <3>1, <3>2, <2>1, <2>2, <1>t, RemoveEnumerated
  <2> HIDE DEF r
  <2>4. TypeOK' /\ Enumerated(List', last_activity') /\ in_idle_list' = r.in
    <3>1. expired' \subseteq live' /\ live' \subseteq Sessions
      BY <2>1, <1>t, <1>4 DEF ExpireHead, TypeOK, Listed
    <3> QED
      BY <3>1, <2>2, <2>3, <1>t, <1>4, SetListIsList DEF ExpireHead, TypeOK
  <2>5. (Listed = live \ expired)'
    BY <2>1, <2>3, <2>4, <1>t, <1>4 DEF ExpireHead, Listed, TypeOK
  <2> QED
    BY <2>2, <2>4, <2>5 DEF Inv
<1>5. CASE ExpireStart
  BY <1>5, <1>t, LinksUnchanged DEF ExpireStart, TypeOK
<1>6. CASE ExpireStop
  BY <1>6, <1>t, LinksUnchanged DEF ExpireStop, TypeOK
<1>7. CASE SetTimeout
  BY <1>7, <1>t, LinksUnchanged DEF SetTimeout, TypeOK
<1>8. CASE Tick
  BY <1>8, <1>t, LinksUnchanged DEF Tick, TypeOK
<1>9. CASE UNCHANGED vars
  BY <1>9, <1>t, LinksUnchanged DEF vars, TypeOK
<1> QED
  BY <1>1, <1>2, <1>3, <1>4, <1>5, <1>6, <1>7, <1>8, <1>9
     DEF Next, socks_server_expire_idle

-----------------------------------------------------------------------------
(***************************************************************************)
(* What the invariant gives                                                *)
(***************************************************************************)
\* The links agree with each other, because they agree with q.
LEMMA InvWellLinked == Inv => WellLinked
<1> SUFFICES ASSUME Inv PROVE WellLinked
  OBVIOUS
<1> USE IdleAssumption
<1>n. PICK n \in Nat : \E q \in [1..n -> Sessions] :
         Spells(List, n, q) /\ Sorted(n, q, last_activity)
  BY DEF Inv, Enumerated
<1>1. PICK q \in [1..n -> Sessions] : Spells(List, n, q)
  BY <1>n
<1>2. /\ List.in = in_idle_list /\ List.head = idle_head /\ List.tail = idle_tail
      /\ List.next = idle_next /\ List.prev = idle_prev
  BY DEF List
<1>3. \A y \in Sessions : y \in Listed <=> \E i \in 1..n : q[i] = y
  BY <1>1, <1>2 DEF Spells, Listed
<1>4. \A i, j \in 1..n : q[i] = q[j] => i = j
  BY <1>1 DEF Spells
<1>5. /\ idle_head = IF n = 0 THEN NULL ELSE q[1]
      /\ idle_tail = IF n = 0 THEN NULL ELSE q[n]
  BY <1>1, <1>2 DEF Spells
<1>6. \A i \in 1..n : /\ idle_next[q[i]] = IF i = n THEN NULL ELSE q[i + 1]
                      /\ idle_prev[q[i]] = IF i = 1 THEN NULL ELSE q[i - 1]
                      /\ q[i] \in Listed /\ q[i] \in Sessions /\ q[i] # NULL
  BY <1>1, <1>2, <1>3 DEF Spells
<1>7. /\ idle_head = NULL <=> Listed = {}
      /\ idle_tail = NULL <=> Listed = {}
      /\ Listed # {} => idle_head \in Listed /\ idle_tail \in Listed
  <2>1. CASE n = 0
    BY <2>1, <1>3, <1>5 DEF Listed
  <2>2. CASE n # 0
    <3>1. 1 \in 1..n /\ n \in 1..n
      BY <2>2
    <3> QED
      BY <2>2, <3>1, <1>5, <1>6
  <2> QED
    BY <2>1, <2>2
<1>8. ASSUME NEW x \in Listed
      PROVE  /\ idle_prev[x] = NULL <=> x = idle_head
             /\ idle_next[x] = NULL <=> x = idle_tail
             /\ idle_next[x] # NULL =>
                   idle_next[x] \in Listed /\ idle_prev[idle_next[x]] = x
             /\ idle_prev[x] # NULL =>
                   idle_prev[x] \in Listed /\ idle_next[idle_prev[x]] = x
  <2>1. PICK i \in 1..n : q[i] = x
    BY <1>3 DEF Listed
  <2>2. 1 \in 1..n /\ n \in 1..n /\ n # 0
    BY <2>1
  <2>3. (x = idle_head <=> i = 1) /\ (x = idle_tail <=> i = n)
    BY <2>1, <2>2, <1>4, <1>5
  <2>4. CASE i # n
    <3>1. i + 1 \in 1..n /\ i + 1 # 1 /\ (i + 1) - 1 = i
      BY <2>4
    <3>2. idle_next[x] = q[i + 1] /\ idle_prev[q[i + 1]] = q[i]
      BY <2>1, <2>4, <3>1, <1>6
    <3>3. idle_next[x] # NULL /\ idle_next[x] \in Listed /\ idle_prev[idle_next[x]] = x
      BY <2>1, <3>1, <3>2, <1>6
    <3> QED
      <4>1. CASE i = 1
        BY <4>1, <2>1, <2>3, <2>4, <3>3, <1>6
      <4>2. CASE i # 1
        <5>1. i - 1 \in 1..n /\ i - 1 # n /\ (i - 1) + 1 = i
          BY <4>2
        <5>2. idle_prev[x] = q[i - 1] /\ idle_next[q[i - 1]] = q[i]
          BY <2>1, <4>2, <5>1, <1>6
        <5> QED
          BY <4>2, <5>1, <5>2, <2>1, <2>3, <2>4, <3>3, <1>6
      <4> QED
        BY <4>1, <4>2
  <2>5. CASE i = n
    <3>1. idle_next[x] = NULL
      BY <2>1, <2>5, <1>6
    <3>2. CASE i = 1
      BY <3>1, <3>2, <2>1, <2>3, <2>5, <1>6
    <3>3. CASE i # 1
      <4>1. i - 1 \in 1..n /\ i - 1 # n /\ (i - 1) + 1 = i
        BY <3>3, <2>5
      <4>2. idle_prev[x] = q[i - 1] /\ idle_next[q[i - 1]] = q[i]
        BY <2>1, <3>3, <4>1, <1>6
      <4> QED
        BY <3>1, <3>3, <4>1, <4>2, <2>1, <2>3, <2>5, <1>6
    <3> QED
      BY <3>2, <3>3
  <2> QED
    BY <2>4, <2>5
<1>9. \A x \in Sessions \ Listed : idle_prev[x] = NULL /\ idle_next[x] = NULL
  BY <1>1, <1>2 DEF Spells, Listed
<1> QED
  BY <1>7, <1>8, <1>9 DEF Inv, WellLinked

\* The head has the earliest activity, and every link goes forward in time.
LEMMA InvOrdered == Inv => Ordered
<1> SUFFICES ASSUME Inv PROVE Ordered
  OBVIOUS
<1>n. PICK n \in Nat : \E q \in [1..n -> Sessions] :
         Spells(List, n, q) /\ Sorted(n, q, last_activity)
  BY DEF Inv, Enumerated
<1>1. PICK q \in [1..n -> Sessions] :
         Spells(List, n, q) /\ Sorted(n, q, last_activity)
  BY <1>n
<1>2. ASSUME NEW x \in Listed
      PROVE  /\ idle_next[x] # NULL =>
                   last_activity[x] <= last_activity[idle_next[x]]
             /\ last_activity[idle_head] <= last_activity[x]
  <2>1. PICK i \in 1..n : q[i] = x
    BY <1>1 DEF Spells, Listed, List
  <2>2. idle_head = q[1] /\ 1 \in 1..n /\ 1 <= i
    BY <2>1, <1>1 DEF Spells, List
  <2>3. last_activity[idle_head] <= last_activity[x]
    BY <2>1, <2>2, <1>1 DEF Sorted
  <2>4. ASSUME idle_next[x] # NULL
        PROVE  last_activity[x] <= last_activity[idle_next[x]]
    <3>1. idle_next[x] = q[i + 1] /\ i + 1 \in 1..n /\ i <= i + 1
      BY <2>1, <2>4, <1>1 DEF Spells, List
    <3> QED
      BY <2>1, <3>1, <1>1 DEF Sorted
  <2> QED
    BY <2>3, <2>4
<1> QED
  BY <1>2 DEF Ordered

-----------------------------------------------------------------------------
(***************************************************************************)
(* The theorems                                                            *)
(***************************************************************************)
\* In every reachable state some enumeration of the listed sessions is what
\* the links spell out, in order of activity.
THEOREM Invariance == Spec => []Inv
  BY InitInv, StepInv, PTL DEF Spec

\* Links, flags and times keep their types for any number of sessions.
THEOREM TypeCorrect == Spec => []TypeOK
<1>1. Inv => TypeOK
  BY DEF Inv
<1> QED
  BY <1>1, Invariance, PTL

\* idle_list_remove and idle_list_push_tail never leave a dangling or one-way
\* link, and a freed session is never reachable from the list.
THEOREM LinksAlwaysSound == Spec => []WellLinked
  BY InvWellLinked, Invariance, PTL

\* The head of the list is always the session that has been idle longest.
THEOREM OrderKept == Spec => []Ordered
  BY InvOrdered, Invariance, PTL

\* socks_server_expire_idle stops at the first session that is not due, and
\* misses none by it.
THEOREM ExpiryMissesNobody == Spec => ExpiryComplete
<1>1. Inv /\ [Next]_vars => [ExpireStop => \A x \in Listed : ~Due(x)]_vars
  <2> SUFFICES ASSUME Inv, ExpireStop, NEW x \in Listed
               PROVE  ~Due(x)
    OBVIOUS
  <2>1. Ordered /\ WellLinked
    BY InvOrdered, InvWellLinked
  <2>2. idle_head \in Listed /\ idle_head # NULL
    BY <2>1 DEF WellLinked
  <2>3. ~Due(idle_head) /\ loop # NULL
    BY <2>2 DEF ExpireStop
  <2>4. /\ loop \in Nat /\ timeout \in Nat
        /\ last_activity[idle_head] \in Nat /\ last_activity[x] \in Nat
    BY <2>2, <2>3 DEF Inv, TypeOK, Listed
  <2>5. last_activity[idle_head] <= last_activity[x]
    BY <2>1 DEF Ordered
  <2> QED
    BY <2>3, <2>4, <2>5 DEF Due
<1> QED
  BY <1>1, Invariance, PTL DEF Spec, ExpiryComplete

-----------------------------------------------------------------------------
(***************************************************************************)
(* The process                                                             *)
(***************************************************************************)
\* Every step of the process is a step of the idle list or leaves it alone.
LEMMA StepOfIdleList == [ServerNext]_svars => [Next]_vars
<1> SUFFICES ASSUME [ServerNext]_svars
             PROVE  [Next]_vars
  OBVIOUS
<1>1. ASSUME NEW x \in Sessions,
             socks_passive_read(x) \/ Activity(x) \/ CloseSession(x)
      PROVE  Next
  BY <1>1 DEF socks_passive_read, Activity, CloseSession, Next
<1>2. ASSUME NEW m \in MonitorSessions,
             monitor_passive_read(m) \/ monitor_client_close(m)
      PROVE  UNCHANGED vars
  BY <1>2 DEF monitor_passive_read, monitor_client_close
<1>3. ConfigTimeout \/ Clock => Next
  BY DEF ConfigTimeout, Clock, Next
<1>4. LoopCheck \/ SelectReturns \/ ExpireSkipped \/ Destroy => UNCHANGED vars
  BY DEF LoopCheck, SelectReturns, ExpireSkipped, Destroy
<1>5. ExpireIdle => Next
  BY DEF ExpireIdle, Next, socks_server_expire_idle
<1>6. on_signal => UNCHANGED vars
  BY DEF on_signal
<1>7. Ended \/ UNCHANGED svars => UNCHANGED vars
  BY DEF Ended, svars
<1> QED
  BY <1>1, <1>2, <1>3, <1>4, <1>5, <1>6, <1>7 DEF ServerNext, MainStep

\* The main loop, its signals and both servers keep to the specification of
\* the idle list, for any number of sessions of either kind.
THEOREM ServesIdleList == ServerSpec => Spec
<1>1. ServerInit => Init
  BY DEF ServerInit
<1> QED
  BY <1>1, StepOfIdleList, PTL DEF ServerSpec, Spec

\* In the whole process the links of the idle list stay sound, in order of
\* activity, and the expiry loop leaves no session behind that is due.
THEOREM ListSoundInServer ==
    ServerSpec => []WellLinked /\ []Ordered /\ ExpiryComplete
BY ServesIdleList, LinksAlwaysSound, OrderKept, ExpiryMissesNobody, PTL

-----------------------------------------------------------------------------
\* The counters count, and main leaves the loop on empty servers.
CountInv ==
    /\ IsFiniteSet(live)
    /\ socks_active = Cardinality(live)
    /\ IsFiniteSet(monitors)
    /\ monitor_active = Cardinality(monitors)
    /\ listening \subseteq {"socks", "monitor"}
    /\ main = "destroy" => servers_is_empty

\* A counter that is decremented where it is positive follows its set.
LEMMA RemoveCounts ==
    ASSUME NEW S, IsFiniteSet(S), NEW x \in S
    PROVE  /\ IsFiniteSet(S \ {x})
           /\ Cardinality(S \ {x}) = OneLess(Cardinality(S))
<1>1. /\ IsFiniteSet(S \ {x})
      /\ Cardinality(S \ {x}) = Cardinality(S) - 1
  BY FS_RemoveElement
<1>2. Cardinality(S) \in Nat /\ Cardinality(S \ {x}) \in Nat
  BY <1>1, FS_CardinalityType
<1> QED
  BY <1>1, <1>2 DEF OneLess

\* A counter that is incremented with a new session follows its set.
LEMMA AddCounts ==
    ASSUME NEW S, IsFiniteSet(S), NEW x, x \notin S
    PROVE  /\ IsFiniteSet(S \cup {x})
           /\ Cardinality(S \cup {x}) = Cardinality(S) + 1
BY FS_AddElement

\* Accepting, closing, expiring and draining keep the counters exact.
LEMMA StepCounts == CountInv /\ [ServerNext]_svars => CountInv'
<1> SUFFICES ASSUME CountInv, [ServerNext]_svars
             PROVE  CountInv'
  OBVIOUS
<1>0. /\ IsFiniteSet(live) /\ socks_active = Cardinality(live)
      /\ IsFiniteSet(monitors) /\ monitor_active = Cardinality(monitors)
      /\ listening \subseteq {"socks", "monitor"}
      /\ main = "destroy" => servers_is_empty
  BY DEF CountInv
<1> USE DEF servers_is_empty, socks_server_is_empty, monitor_server_is_empty
<1>1. ASSUME NEW x \in Sessions, socks_passive_read(x)
      PROVE  CountInv'
  <2>1. /\ main = "select" /\ main' = main
        /\ x \notin live /\ live' = live \cup {x}
        /\ socks_active' = socks_active + 1
        /\ UNCHANGED <<listening, monitor_active, monitors>>
    BY <1>1 DEF socks_passive_read, Accept
  <2>2. IsFiniteSet(live') /\ Cardinality(live') = Cardinality(live) + 1
    BY <1>0, <2>1, AddCounts
  <2> QED
    BY <1>0, <2>1, <2>2 DEF CountInv
<1>2. ASSUME NEW x \in Sessions, Activity(x)
      PROVE  CountInv'
  <2>1. UNCHANGED <<live, main, listening, counters, monitors>>
    BY <1>2 DEF Activity, socks_session_touch
  <2> QED
    BY <1>0, <2>1 DEF CountInv, counters
<1>3. ASSUME NEW x \in Sessions, CloseSession(x)
      PROVE  CountInv'
  <2>1. /\ main = "select" /\ main' = main
        /\ x \in live /\ live' = live \ {x}
        /\ socks_active' = OneLess(socks_active)
        /\ UNCHANGED <<listening, monitor_active, monitors>>
    BY <1>3 DEF CloseSession, socks_client_close
  <2>2. IsFiniteSet(live') /\ Cardinality(live') = OneLess(Cardinality(live))
    BY <1>0, <2>1, RemoveCounts
  <2> QED
    BY <1>0, <2>1, <2>2 DEF CountInv
<1>4. ASSUME NEW m \in MonitorSessions, monitor_passive_read(m)
      PROVE  CountInv'
  <2>1. /\ main = "select" /\ main' = main
        /\ m \notin monitors /\ monitors' = monitors \cup {m}
        /\ monitor_active' = monitor_active + 1
        /\ UNCHANGED <<live, listening, socks_active>>
    BY <1>4 DEF monitor_passive_read, vars
  <2>2. IsFiniteSet(monitors') /\ Cardinality(monitors') = Cardinality(monitors) + 1
    BY <1>0, <2>1, AddCounts
  <2> QED
    BY <1>0, <2>1, <2>2 DEF CountInv
<1>5. ASSUME NEW m \in MonitorSessions, monitor_client_close(m)
      PROVE  CountInv'
  <2>1. /\ main = "select" /\ main' = main
        /\ m \in monitors /\ monitors' = monitors \ {m}
        /\ monitor_active' = OneLess(monitor_active)
        /\ UNCHANGED <<live, listening, socks_active>>
    BY <1>5 DEF monitor_client_close, vars
  <2>2. IsFiniteSet(monitors') /\ Cardinality(monitors') = OneLess(Cardinality(monitors))
    BY <1>0, <2>1, RemoveCounts
  <2> QED
    BY <1>0, <2>1, <2>2 DEF CountInv
<1>6. CASE ConfigTimeout
  <2>1. UNCHANGED <<live, main, listening, counters, monitors>>
    BY <1>6 DEF ConfigTimeout, SetTimeout
  <2> QED
    BY <1>0, <2>1 DEF CountInv, counters
<1>7. CASE LoopCheck
  <2>1. /\ UNCHANGED <<live, counters, monitors>>
        /\ listening' \subseteq {"socks", "monitor"}
        /\ main' = "destroy" => servers_is_empty /\ listening' = listening
    BY <1>0, <1>7 DEF LoopCheck, StopAccepting, vars
  <2> QED
    BY <1>0, <2>1 DEF CountInv, counters
<1>8. CASE SelectReturns \/ ExpireSkipped
  <2>1. /\ main' # "destroy"
        /\ UNCHANGED <<live, listening, counters, monitors>>
    BY <1>8 DEF SelectReturns, ExpireSkipped, vars
  <2> QED
    BY <1>0, <2>1 DEF CountInv, counters
<1>9. CASE ExpireIdle
  <2>1. /\ main' # "destroy"
        /\ UNCHANGED <<listening, monitor_active, monitors>>
    BY <1>9 DEF ExpireIdle
  <2>2. IsFiniteSet(live') /\ socks_active' = Cardinality(live')
    <3>1. CASE ExpireStart \/ ExpireStop
      <4>1. UNCHANGED live
        BY <3>1 DEF ExpireStart, ExpireStop
      <4>2. UNCHANGED socks_active
        BY <1>9, <3>1, <4>1 DEF ExpireIdle
      <4> QED
        BY <1>0, <4>1, <4>2
    <3>2. CASE ExpireHead
      <4>1. live' = live \/ live' = live \ {idle_head}
        BY <3>2 DEF ExpireHead
      <4>2. socks_active' = IF live' = live THEN socks_active ELSE OneLess(socks_active)
        BY <1>9, <3>2 DEF ExpireIdle, ExpireHead, ExpireStart, ExpireStop
      <4>3. CASE live' = live
        BY <1>0, <4>2, <4>3
      <4>4. CASE live' # live
        <5>1. live' = live \ {idle_head} /\ idle_head \in live
          BY <4>1, <4>4
        <5> QED
          BY <1>0, <4>2, <4>4, <5>1, RemoveCounts
      <4> QED
        BY <4>3, <4>4
    <3> QED
      BY <1>9, <3>1, <3>2 DEF ExpireIdle
  <2> QED
    BY <1>0, <2>1, <2>2 DEF CountInv
<1>10. CASE Destroy
  <2>1. /\ main' # "destroy" /\ listening' = {}
        /\ UNCHANGED <<live, counters, monitors>>
    BY <1>10 DEF Destroy, vars
  <2> QED
    BY <1>0, <2>1 DEF CountInv, counters
<1>11. CASE on_signal
  <2>1. /\ main' = main \/ main' = "killed"
        /\ UNCHANGED <<live, listening, counters, monitors>>
    BY <1>11 DEF on_signal, vars
  <2> QED
    BY <1>0, <2>1 DEF CountInv, counters
<1>12. CASE Clock
  <2>1. UNCHANGED <<live, main, listening, counters, monitors>>
    BY <1>12 DEF Clock, Tick
  <2> QED
    BY <1>0, <2>1 DEF CountInv, counters
<1>13. CASE Ended \/ UNCHANGED svars
  <2>1. UNCHANGED <<live, main, listening, counters, monitors>>
    BY <1>13 DEF Ended, svars, vars
  <2> QED
    BY <1>0, <2>1 DEF CountInv, counters
<1> QED
  BY <1>1, <1>2, <1>3, <1>4, <1>5, <1>6, <1>7, <1>8, <1>9, <1>10, <1>11, <1>12,
     <1>13 DEF ServerNext, MainStep

\* main frees the two servers when no session of either is left, for any
\* number of sessions and however they ended.
THEOREM NobodyLeftBehind == ServerSpec => []DestroyFindsNobody
<1>1. ServerInit => CountInv
  BY FS_EmptySet DEF ServerInit, Init, CountInv
<1>2. CountInv => DestroyFindsNobody
  <2> SUFFICES ASSUME CountInv, main = "destroy"
               PROVE  live = {} /\ monitors = {} /\ listening = {}
    BY DEF DestroyFindsNobody
  <2>1. /\ Cardinality(live) = 0 /\ Cardinality(monitors) = 0
        /\ "socks" \notin listening /\ "monitor" \notin listening
    BY DEF CountInv, servers_is_empty, socks_server_is_empty, monitor_server_is_empty
  <2>2. live = {} /\ monitors = {}
    BY <2>1, FS_EmptySet DEF CountInv
  <2> QED
    BY <2>1, <2>2 DEF CountInv
<1> QED
  BY <1>1, <1>2, StepCounts, PTL DEF ServerSpec
=============================================================================
