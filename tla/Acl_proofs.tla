----------------------------- MODULE Acl_proofs -----------------------------
(***************************************************************************)
(* The two linked lists of deny rules are two sets, for every number of    *)
(* rules, names and addresses.  A command walks a list through its links;  *)
(* the invariant says that the links of each list spell out an enumeration *)
(* of distinct rules, of which the walk visits every one, and that the     *)
(* rules of a list have distinct keys.                                     *)
(***************************************************************************)
EXTENDS Acl, FiniteSetTheorems, FunctionTheorems, WellFoundedInduction, TLAPS

\* The links nx from the first rule f to the last one l spell out
\* q[1], ..., q[n].
Spells(f, l, nx, n, q) ==
    /\ \A i, j \in 1..n : q[i] = q[j] => i = j
    /\ f = IF n = 0 THEN NULL ELSE q[1]
    /\ l = IF n = 0 THEN NULL ELSE q[n]
    /\ \A i \in 1..n : nx[q[i]] = IF i = n THEN NULL ELSE q[i + 1]

Enumerates(n, q, S) ==
    /\ \A i \in 1..n : q[i] \in S
    /\ \A r \in S : \E i \in 1..n : q[i] = r

\* The list from f to l is made of the rules in S.
ListOf(f, l, nx, S) ==
    \E n \in Nat : \E q \in [1..n -> Rules] :
       Spells(f, l, nx, n, q) /\ Enumerates(n, q, S)

Keys(k) == {key[r] : r \in Chain(k)}

\* What a rule of each list holds.
Domain(k) == IF k = "host" THEN Names ELSE Addresses

TypeOK ==
    /\ first \in [Kinds -> Rules \cup {NULL}]
    /\ last \in [Kinds -> Rules \cup {NULL}]
    /\ next \in [Rules -> Rules \cup {NULL}]
    /\ key \in [Rules -> Names \cup Addresses \cup {NULL}]

\* The inductive invariant.
Listed == \A k \in Kinds : ListOf(first[k], last[k], next, Chain(k))

Apart == \A r \in Rules : ~(r \in Chain("host") /\ r \in Chain("addr"))

Keyed ==
    \A k \in Kinds :
       /\ \A r \in Chain(k) : r \in Rules /\ key[r] \in Domain(k)
       /\ \A r, x \in Chain(k) : key[r] = key[x] => r = x

Inv == TypeOK /\ Listed /\ Apart /\ Keyed

-----------------------------------------------------------------------------
(***************************************************************************)
(* The walk                                                                *)
(***************************************************************************)
\* A set of numbers that has a member has a least one.
LEMMA LeastExists ==
    ASSUME NEW T, T \subseteq Nat, T # {}
    PROVE  \E x \in T : \A y \in T : x <= y
<1> DEFINE R == OpToRel(<, Nat)
<1>1. IsWellFoundedOn(R, Nat)
  BY NatLessThanWellFounded
<1>2. \A x, y \in Nat : x < y => <<x, y>> \in R
  BY DEF OpToRel
<1> HIDE DEF R
<1>3. PICK x \in T : \A y \in T : ~(<<y, x>> \in R)
  BY <1>1, WFMin
<1>4. ASSUME NEW y \in T
      PROVE  x <= y
  <2>1. x \in Nat /\ y \in Nat
    OBVIOUS
  <2>2. ~(y < x)
    BY <2>1, <1>2, <1>3
  <2> QED
    BY <2>1, <2>2
<1> QED
  BY <1>4

\* An enumeration of distinct rules is no longer than the memory.
LEMMA Fits ==
    ASSUME NEW n \in Nat, NEW q \in [1..n -> Rules],
           \A i, j \in 1..n : q[i] = q[j] => i = j
    PROVE  n <= Cardinality(Rules) /\ Cardinality(Rules) \in Nat
<1>1. IsFiniteSet(Rules) /\ Cardinality(Rules) \in Nat
  BY AclAssumption, FS_CardinalityType
<1>2. q \in Injection(1..n, Rules)
  BY DEF Injection, IsInjective
<1>3. Cardinality(1..n) <= Cardinality(Rules)
  BY <1>1, <1>2, FS_Injection
<1>4. Cardinality(1..n) = n
  <2>1. 1 \in Int /\ n \in Int
    OBVIOUS
  <2>2. Cardinality(1..n) = IF 1 > n THEN 0 ELSE n - 1 + 1
    BY <2>1, FS_Interval
  <2> QED
    BY <2>2
<1> QED
  BY <1>1, <1>3, <1>4

\* Walk, of any first rule and any links.
WalkOf(f, nx) ==
    LET w[i \in 0..Cardinality(Rules)] ==
          IF i = 0 THEN f
          ELSE IF w[i - 1] = NULL THEN NULL ELSE nx[w[i - 1]]
    IN  w

\* Over links that spell out q, a walk visits q and then stays at NULL.
LEMMA WalkIs ==
    ASSUME NEW f, NEW l, NEW nx, NEW n \in Nat, NEW q \in [1..n -> Rules],
           Spells(f, l, nx, n, q)
    PROVE  WalkOf(f, nx) = [i \in 0..Cardinality(Rules) |->
                              IF i < n THEN q[i + 1] ELSE NULL]
<1> DEFINE N == Cardinality(Rules)
           Step(w) == [i \in 0..N |->
                         IF i = 0 THEN f
                         ELSE IF w[i - 1] = NULL THEN NULL ELSE nx[w[i - 1]]]
           g == [i \in 0..N |-> IF i < n THEN q[i + 1] ELSE NULL]
           w == CHOOSE u : u = Step(u)
<1>1. N \in Nat /\ n <= N /\ NULL \notin Rules
  BY Fits, AclAssumption DEF Spells
<1>2. WalkOf(f, nx) = w
  BY DEF WalkOf
<1> HIDE DEF N
<1>3. ASSUME NEW i \in 0..N
      PROVE  g[i] = IF i = 0 THEN f
                    ELSE IF g[i - 1] = NULL THEN NULL ELSE nx[g[i - 1]]
  <2>1. CASE i = 0
    BY <1>1, <2>1 DEF Spells
  <2>2. CASE i # 0
    <3>1. i - 1 \in 0..N /\ i \in 1..N /\ (i - 1) + 1 = i
      BY <1>1, <2>2
    <3>2. g[i - 1] = IF i - 1 < n THEN q[i] ELSE NULL
      BY <3>1
    <3>3. g[i] = IF i < n THEN q[i + 1] ELSE NULL
      OBVIOUS
    <3> HIDE DEF g
    <3>4. CASE i <= n
      <4>1. i \in 1..n /\ i - 1 < n /\ q[i] \in Rules
        BY <1>1, <3>1, <3>4
      <4>2. g[i - 1] = q[i] /\ q[i] # NULL
        BY <1>1, <3>2, <4>1
      <4>3. nx[q[i]] = IF i = n THEN NULL ELSE q[i + 1]
        BY <4>1 DEF Spells
      <4>4. i < n <=> i # n
        BY <4>1
      <4> QED
        BY <2>2, <3>3, <4>2, <4>3, <4>4
    <3>5. CASE ~(i <= n)
      <4>1. ~(i - 1 < n) /\ ~(i < n)
        BY <1>1, <3>1, <3>5
      <4> QED
        BY <2>2, <3>2, <3>3, <4>1
    <3> QED
      BY <3>4, <3>5
  <2> QED
    BY <2>1, <2>2
<1>4. g = Step(g)
  BY <1>3
<1>5. w = Step(w)
  <2>1. \E u : u = Step(u)
    <3> HIDE DEF g
    <3> QED
      BY <1>4
  <2> QED
    BY <2>1
<1> HIDE DEF w
<1>6. DOMAIN w = 0..N /\ w = [i \in 0..N |-> w[i]]
  BY <1>5
<1>7. \A i \in 0..N : w[i] = IF i = 0 THEN f
                             ELSE IF w[i - 1] = NULL THEN NULL ELSE nx[w[i - 1]]
  BY <1>5
<1>8. g = [i \in 0..N |-> g[i]]
  OBVIOUS
<1> HIDE DEF g
<1>9. \A i \in 0..N : w[i] = g[i]
  <2> DEFINE T == {i \in 0..N : w[i] # g[i]}
  <2> SUFFICES ASSUME T # {}
               PROVE  FALSE
    OBVIOUS
  <2>1. T \subseteq Nat
    BY <1>1
  <2>2. PICK x \in T : \A y \in T : x <= y
    BY <2>1, LeastExists
  <2>3. x \in 0..N /\ x \in Nat /\ w[x] # g[x]
    BY <2>1, <2>2
  <2>4. CASE x = 0
    BY <1>3, <1>7, <2>3, <2>4
  <2>5. CASE x # 0
    <3>1. x - 1 \in 0..N /\ ~(x <= x - 1)
      BY <1>1, <2>3, <2>5
    <3>2. w[x - 1] = g[x - 1]
      BY <2>2, <3>1
    <3> QED
      BY <1>3, <1>7, <2>3, <2>5, <3>2
  <2> QED
    BY <2>4, <2>5
<1>10. w = g
  BY <1>6, <1>8, <1>9
<1> QED
  BY <1>2, <1>10 DEF g, N

\* The rules a walk visits are those of the list.
LEMMA ChainIs ==
    ASSUME NEW f, NEW l, NEW nx, NEW S, ListOf(f, l, nx, S)
    PROVE  {WalkOf(f, nx)[i] : i \in DOMAIN WalkOf(f, nx)} \ {NULL} = S
<1>n. PICK n \in Nat : \E q \in [1..n -> Rules] :
         Spells(f, l, nx, n, q) /\ Enumerates(n, q, S)
  BY DEF ListOf
<1>q. PICK q \in [1..n -> Rules] : Spells(f, l, nx, n, q) /\ Enumerates(n, q, S)
  BY <1>n
<1> DEFINE N == Cardinality(Rules)
           w == WalkOf(f, nx)
<1>1. w = [i \in 0..N |-> IF i < n THEN q[i + 1] ELSE NULL]
  BY <1>q, WalkIs
<1>2. N \in Nat /\ n <= N /\ NULL \notin Rules
  BY <1>q, Fits, AclAssumption DEF Spells
<1> HIDE DEF w, N
<1>3. DOMAIN w = 0..N /\ \A i \in 0..N : w[i] = IF i < n THEN q[i + 1] ELSE NULL
  BY <1>1
<1>4. ASSUME NEW i \in 0..N, w[i] # NULL
      PROVE  w[i] \in S
  <2>1. i < n /\ w[i] = q[i + 1]
    BY <1>3, <1>4
  <2>2. i + 1 \in 1..n
    BY <1>2, <2>1
  <2> QED
    BY <1>q, <2>1, <2>2 DEF Enumerates
<1>5. ASSUME NEW r \in S
      PROVE  r # NULL /\ \E i \in 0..N : w[i] = r
  <2>1. PICK j \in 1..n : q[j] = r
    BY <1>q DEF Enumerates
  <2>2. j - 1 \in 0..N /\ j - 1 < n /\ (j - 1) + 1 = j
    BY <1>2
  <2>3. w[j - 1] = r
    BY <1>3, <2>1, <2>2
  <2> QED
    BY <1>2, <2>1, <2>2, <2>3
<1> QED
  BY <1>3, <1>4, <1>5 DEF w

\* The walk and the rules of list k, now and after a step.
LEMMA ChainOfState ==
    ASSUME NEW k \in Kinds
    PROVE  /\ Walk(k) = WalkOf(first[k], next)
           /\ Chain(k) = {WalkOf(first[k], next)[i] : i \in DOMAIN WalkOf(first[k], next)}
                         \ {NULL}
           /\ Walk(k)' = WalkOf(first'[k], next')
           /\ Chain(k)' = {WalkOf(first'[k], next')[i] : i \in DOMAIN WalkOf(first'[k], next')}
                          \ {NULL}
BY DEF Walk, Chain, WalkOf

-----------------------------------------------------------------------------
(***************************************************************************)
(* What the commands do to the links                                       *)
(***************************************************************************)
\* A list keeps its rules while their links do.
LEMMA ListKept ==
    ASSUME NEW f, NEW l, NEW nx, NEW mx, NEW S, ListOf(f, l, nx, S),
           \A r \in S : mx[r] = nx[r]
    PROVE  ListOf(f, l, mx, S)
<1>n. PICK n \in Nat : \E q \in [1..n -> Rules] :
         Spells(f, l, nx, n, q) /\ Enumerates(n, q, S)
  BY DEF ListOf
<1>q. PICK q \in [1..n -> Rules] : Spells(f, l, nx, n, q) /\ Enumerates(n, q, S)
  BY <1>n
<1>1. Spells(f, l, mx, n, q)
  BY <1>q DEF Spells, Enumerates
<1> QED
  BY <1>q, <1>1 DEF ListOf

\* What add_rule makes of the links: a rule r more, and g the first one.
Added(f, l, nx, r, g, mx) ==
    /\ g = IF l = NULL THEN r ELSE f
    /\ mx = IF l = NULL THEN [nx EXCEPT ![r] = NULL]
            ELSE [nx EXCEPT ![l] = r, ![r] = NULL]

\* The links nx and mx differ only in rules of S.
OnlyIn(S, nx, mx) == \A x \in Rules : x \notin S => mx[x] = nx[x]

\* add_rule puts a rule last.
LEMMA AddList ==
    ASSUME NEW f, NEW l, NEW nx, nx \in [Rules -> Rules \cup {NULL}], NEW S,
           ListOf(f, l, nx, S), NEW r, r \in Rules, r \notin S,
           NEW g, NEW mx, Added(f, l, nx, r, g, mx)
    PROVE  /\ ListOf(g, r, mx, S \cup {r})
           /\ mx \in [Rules -> Rules \cup {NULL}]
           /\ OnlyIn(S \cup {r}, nx, mx)
           /\ g \in Rules \cup {NULL}
<1>n. PICK n \in Nat : \E q \in [1..n -> Rules] :
         Spells(f, l, nx, n, q) /\ Enumerates(n, q, S)
  BY DEF ListOf
<1>q. PICK q \in [1..n -> Rules] : Spells(f, l, nx, n, q) /\ Enumerates(n, q, S)
  BY <1>n
<1> DEFINE w == [i \in 1..(n + 1) |-> IF i = n + 1 THEN r ELSE q[i]]
<1>0. NULL \notin Rules
  BY AclAssumption
<1> USE DEF Added
<1>1. n = 0 <=> l = NULL
  BY <1>0, <1>q DEF Spells
<1>2. n # 0 => l = q[n] /\ l \in S /\ l \in Rules /\ f = q[1] /\ f \in Rules /\ l # r
  <2>1. n # 0 => n \in 1..n /\ 1 \in 1..n
    OBVIOUS
  <2> QED
    BY <1>q, <2>1 DEF Spells, Enumerates
<1>3. mx \in [Rules -> Rules \cup {NULL}]
  BY <1>1, <1>2
<1>4. mx[r] = NULL /\ (n # 0 => mx[l] = r)
  BY <1>1, <1>2
<1>5. \A x \in Rules : x # r /\ x # l => mx[x] = nx[x]
  BY <1>1, <1>2
<1>6. OnlyIn(S \cup {r}, nx, mx)
  <2>1. n = 0 => \A x \in Rules : x # l
    BY <1>0, <1>1
  <2> QED
    BY <1>2, <1>5, <2>1 DEF OnlyIn
<1>7. g = (IF n = 0 THEN r ELSE q[1]) /\ g \in Rules \cup {NULL}
  BY <1>1, <1>2
<1>8. /\ w \in [1..(n + 1) -> Rules] /\ n + 1 \in Nat
      /\ w[n + 1] = r /\ \A i \in 1..n : w[i] = q[i]
  OBVIOUS
<1> HIDE DEF w
<1>9. \A i \in 1..n : q[i] \in S /\ q[i] # r /\ q[i] \in Rules
  BY <1>q DEF Enumerates
<1>10. \A i \in 1..(n + 1) : i = n + 1 \/ i \in 1..n
  OBVIOUS
<1>11. \A i, j \in 1..(n + 1) : w[i] = w[j] => i = j
  BY <1>q, <1>8, <1>9, <1>10 DEF Spells
<1>12. ASSUME NEW i \in 1..(n + 1)
       PROVE  mx[w[i]] = IF i = n + 1 THEN NULL ELSE w[i + 1]
  <2>1. CASE i = n + 1
    BY <1>4, <1>8, <2>1
  <2>2. CASE i \in 1..n
    <3>1. i # n + 1 /\ n # 0 /\ i + 1 \in 1..(n + 1)
      BY <2>2
    <3>2. w[i] = q[i] /\ q[i] \in Rules /\ q[i] # r
      BY <1>8, <1>9, <2>2
    <3>3. CASE i = n
      BY <1>2, <1>4, <1>8, <3>1, <3>2, <3>3
    <3>4. CASE i # n
      <4>1. n \in 1..n /\ i + 1 \in 1..n
        BY <2>2, <3>4
      <4>2. q[i] # l
        BY <1>q, <1>2, <2>2, <3>1, <3>4, <4>1 DEF Spells
      <4>3. mx[q[i]] = nx[q[i]]
        BY <1>5, <3>2, <4>2
      <4>4. nx[q[i]] = q[i + 1]
        BY <1>q, <2>2, <3>4 DEF Spells
      <4> QED
        BY <1>8, <3>1, <3>2, <4>1, <4>3, <4>4
    <3> QED
      BY <3>3, <3>4
  <2> QED
    BY <1>10, <2>1, <2>2
<1>13. Spells(g, r, mx, n + 1, w)
  <2>1. g = IF n + 1 = 0 THEN NULL ELSE w[1]
    <3>1. n + 1 # 0 /\ (n = 0 => n + 1 = 1) /\ (n # 0 => 1 \in 1..n)
      OBVIOUS
    <3> QED
      BY <1>7, <1>8, <3>1
  <2>2. r = IF n + 1 = 0 THEN NULL ELSE w[n + 1]
    BY <1>8
  <2> QED
    BY <1>11, <1>12, <2>1, <2>2 DEF Spells
<1>14. Enumerates(n + 1, w, S \cup {r})
  <2>1. \A i \in 1..(n + 1) : w[i] \in S \cup {r}
    BY <1>8, <1>9, <1>10
  <2>2. ASSUME NEW x \in S \cup {r}
        PROVE  \E i \in 1..(n + 1) : w[i] = x
    <3>1. CASE x = r
      <4>1. n + 1 \in 1..(n + 1)
        OBVIOUS
      <4> QED
        BY <1>8, <3>1, <4>1
    <3>2. CASE x \in S
      <4>1. PICK i \in 1..n : q[i] = x
        BY <1>q, <3>2 DEF Enumerates
      <4>2. i \in 1..(n + 1) /\ w[i] = x
        BY <1>8, <4>1
      <4> QED
        BY <4>2
    <3> QED
      BY <3>1, <3>2
  <2> QED
    BY <2>1, <2>2 DEF Enumerates
<1>15. ListOf(g, r, mx, S \cup {r})
  BY <1>8, <1>13, <1>14 DEF ListOf
<1> QED
  BY <1>3, <1>6, <1>7, <1>15

\* What store_undeny makes of a list it takes r out of, which is behind p.
Unlinked(f, l, nx, r, p, g, h, mx) ==
    /\ g = IF p = NULL THEN nx[r] ELSE f
    /\ h = IF l = r THEN p ELSE l
    /\ mx = IF p = NULL THEN nx ELSE [nx EXCEPT ![p] = nx[r]]

\* r is the j-th rule of q, and p the one before it.
Position(n, q, j, r, p) ==
    /\ j \in 1..n
    /\ r = q[j]
    /\ p = IF j = 1 THEN NULL ELSE q[j - 1]

\* store_undeny takes the j-th rule out.
LEMMA RemoveList ==
    ASSUME NEW f, NEW l, NEW nx \in [Rules -> Rules \cup {NULL}], NEW S,
           NEW n \in Nat, NEW q \in [1..n -> Rules],
           Spells(f, l, nx, n, q), Enumerates(n, q, S),
           NEW j, NEW r, NEW p, Position(n, q, j, r, p),
           NEW g, NEW h, NEW mx, Unlinked(f, l, nx, r, p, g, h, mx)
    PROVE  /\ ListOf(g, h, mx, S \ {r})
           /\ mx \in [Rules -> Rules \cup {NULL}]
           /\ OnlyIn(S, nx, mx)
           /\ g \in Rules \cup {NULL} /\ h \in Rules \cup {NULL}
<1> DEFINE w == [i \in 1..(n - 1) |-> IF i < j THEN q[i] ELSE q[i + 1]]
<1>j. j \in 1..n /\ r = q[j] /\ p = IF j = 1 THEN NULL ELSE q[j - 1]
  BY DEF Position
<1> USE <1>j
<1>0. NULL \notin Rules /\ n - 1 \in Nat
  BY AclAssumption
<1>1. \A i, k \in 1..n : q[i] = q[k] => i = k
  BY DEF Spells
<1>2. nx[r] = IF j = n THEN NULL ELSE q[j + 1]
  BY DEF Spells
<1>3. j # 1 => j - 1 \in 1..n /\ p = q[j - 1] /\ p \in Rules /\ p \in S
  <2>1. j # 1 => j - 1 \in 1..n
    OBVIOUS
  <2> QED
    BY <2>1 DEF Enumerates
<1>a. j = 1 <=> p = NULL
  BY <1>0, <1>3
<1>b. /\ g = IF j = 1 THEN nx[r] ELSE f
      /\ mx = IF j = 1 THEN nx ELSE [nx EXCEPT ![p] = nx[r]]
      /\ h = IF l = r THEN p ELSE l
  BY <1>a DEF Unlinked
<1>4. mx \in [Rules -> Rules \cup {NULL}]
  BY <1>3, <1>b
<1>5. \A x \in Rules : (j = 1 \/ x # p) => mx[x] = nx[x]
  BY <1>3, <1>b
<1>6. j # 1 => mx[p] = nx[r]
  BY <1>3, <1>b
<1>7. OnlyIn(S, nx, mx)
  BY <1>3, <1>5 DEF OnlyIn
<1>8. /\ w \in [1..(n - 1) -> Rules]
      /\ \A i \in 1..(n - 1) : w[i] = IF i < j THEN q[i] ELSE q[i + 1]
  <2>1. \A i \in 1..(n - 1) : i \in 1..n /\ i + 1 \in 1..n
    OBVIOUS
  <2> QED
    BY <2>1
<1> HIDE DEF w
<1>9. l = r <=> j = n
  <2>1. n \in 1..n /\ l = q[n]
    BY DEF Spells
  <2> QED
    BY <1>1, <2>1
<1>10. f = q[1] /\ 1 \in 1..n /\ l = q[n] /\ n \in 1..n
  BY DEF Spells
<1>11. g = IF n - 1 = 0 THEN NULL ELSE w[1]
  <2>1. CASE j = 1
    <3>1. n # 1 => 1 \in 1..(n - 1) /\ ~(1 < j) /\ 1 + 1 = j + 1
      BY <2>1
    <3> QED
      BY <1>2, <1>8, <1>b, <2>1, <3>1
  <2>2. CASE j # 1
    <3>1. n - 1 # 0 /\ 1 \in 1..(n - 1) /\ 1 < j
      BY <2>2
    <3> QED
      BY <1>8, <1>10, <1>b, <2>2, <3>1
  <2> QED
    BY <2>1, <2>2
<1>12. h = IF n - 1 = 0 THEN NULL ELSE w[n - 1]
  <2>1. CASE j = n
    <3>1. n # 1 => n - 1 \in 1..(n - 1) /\ n - 1 < j /\ n - 1 = j - 1 /\ n - 1 # 0
      BY <2>1
    <3> QED
      BY <1>8, <1>9, <1>b, <2>1, <3>1
  <2>2. CASE j # n
    <3>1. n - 1 \in 1..(n - 1) /\ ~(n - 1 < j) /\ (n - 1) + 1 = n /\ n - 1 # 0
      BY <2>2
    <3> QED
      BY <1>8, <1>9, <1>10, <1>b, <2>2, <3>1
  <2> QED
    BY <2>1, <2>2
<1>13. g \in Rules \cup {NULL} /\ h \in Rules \cup {NULL}
  <2>1. n - 1 # 0 => 1 \in 1..(n - 1) /\ n - 1 \in 1..(n - 1)
    OBVIOUS
  <2> QED
    BY <1>8, <1>11, <1>12, <2>1
<1>14. ASSUME NEW i \in 1..(n - 1)
       PROVE  \E a \in 1..n : a # j /\ w[i] = q[a] /\ a = IF i < j THEN i ELSE i + 1
  <2>1. CASE i < j
    <3>1. i \in 1..n /\ i # j
      BY <2>1
    <3> QED
      BY <1>8, <2>1, <3>1
  <2>2. CASE ~(i < j)
    <3>1. i + 1 \in 1..n /\ i + 1 # j
      BY <2>2
    <3> QED
      BY <1>8, <2>2, <3>1
  <2> QED
    BY <2>1, <2>2
<1>15. ASSUME NEW i \in 1..(n - 1), NEW k \in 1..(n - 1), w[i] = w[k]
       PROVE  i = k
  <2>1. PICK a \in 1..n : a # j /\ w[i] = q[a] /\ a = IF i < j THEN i ELSE i + 1
    BY <1>14
  <2>2. PICK c \in 1..n : c # j /\ w[k] = q[c] /\ c = IF k < j THEN k ELSE k + 1
    BY <1>14
  <2>3. a = c
    BY <1>1, <1>15, <2>1, <2>2
  <2> QED
    BY <2>1, <2>2, <2>3
<1>16. ASSUME NEW i \in 1..(n - 1)
       PROVE  mx[w[i]] = IF i = n - 1 THEN NULL ELSE w[i + 1]
  <2>1. PICK a \in 1..n : a # j /\ w[i] = q[a] /\ a = IF i < j THEN i ELSE i + 1
    BY <1>14
  <2>2. q[a] \in Rules /\ nx[q[a]] = IF a = n THEN NULL ELSE q[a + 1]
    BY DEF Spells
  <2>3. CASE i = j - 1
    <3>1. j # 1 /\ i < j /\ a = j - 1
      BY <2>1, <2>3
    <3>2. mx[w[i]] = IF j = n THEN NULL ELSE q[j + 1]
      BY <1>2, <1>3, <1>6, <2>1, <3>1
    <3>3. i + 1 = j /\ (i = n - 1 <=> j = n)
      BY <2>3
    <3>4. j # n => j \in 1..(n - 1) /\ w[j] = q[j + 1]
      <4>1. j # n => j \in 1..(n - 1) /\ ~(j < j)
        OBVIOUS
      <4> QED
        BY <1>8, <4>1
    <3> QED
      BY <3>2, <3>3, <3>4
  <2>4. CASE i # j - 1
    <3>1. j = 1 \/ q[a] # p
      <4>1. a # j - 1
        BY <2>1, <2>4
      <4> QED
        BY <1>1, <1>3, <4>1
    <3>2. mx[w[i]] = IF a = n THEN NULL ELSE q[a + 1]
      BY <1>5, <2>1, <2>2, <3>1
    <3>3. CASE i < j
      <4>1. a = i /\ i + 1 < j /\ i + 1 \in 1..(n - 1) /\ a # n /\ i # n - 1
        BY <2>1, <2>4, <3>3
      <4> QED
        BY <1>8, <3>2, <4>1
    <3>4. CASE ~(i < j)
      <4>1. a = i + 1 /\ (a = n <=> i = n - 1)
        BY <2>1, <3>4
      <4>2. i # n - 1 => i + 1 \in 1..(n - 1) /\ ~(i + 1 < j)
        BY <3>4
      <4> QED
        BY <1>8, <3>2, <4>1, <4>2
    <3> QED
      BY <3>3, <3>4
  <2> QED
    BY <2>3, <2>4
<1>17. Spells(g, h, mx, n - 1, w)
  BY <1>11, <1>12, <1>15, <1>16 DEF Spells
<1>18. Enumerates(n - 1, w, S \ {r})
  <2>1. ASSUME NEW i \in 1..(n - 1)
        PROVE  w[i] \in S \ {r}
    <3>1. PICK a \in 1..n : a # j /\ w[i] = q[a] /\ a = IF i < j THEN i ELSE i + 1
      BY <1>14
    <3> QED
      BY <1>1, <3>1 DEF Enumerates
  <2>2. ASSUME NEW x \in S \ {r}
        PROVE  \E i \in 1..(n - 1) : w[i] = x
    <3>1. PICK a \in 1..n : q[a] = x
      BY DEF Enumerates
    <3>2. a # j
      BY <2>2, <3>1
    <3>3. CASE a < j
      <4>1. a \in 1..(n - 1)
        BY <3>3
      <4> QED
        BY <1>8, <3>1, <3>3, <4>1
    <3>4. CASE ~(a < j)
      <4>1. a - 1 \in 1..(n - 1) /\ ~(a - 1 < j) /\ (a - 1) + 1 = a
        BY <3>2, <3>4
      <4>2. w[a - 1] = x
        BY <1>8, <3>1, <4>1
      <4> QED
        BY <4>1, <4>2
    <3> QED
      BY <3>3, <3>4
  <2> QED
    BY <2>1, <2>2 DEF Enumerates
<1>19. ListOf(g, h, mx, S \ {r})
  BY <1>0, <1>8, <1>17, <1>18 DEF ListOf
<1> QED
  BY <1>4, <1>7, <1>13, <1>19

-----------------------------------------------------------------------------
(***************************************************************************)
(* What the commands do to the sets                                        *)
(***************************************************************************)
\* The lists after a step that leaves them made of S[k]; the keys of their
\* rules are those of the step.
LEMMA ChainsAfter ==
    ASSUME NEW S, \A k \in Kinds : ListOf(first'[k], last'[k], next', S[k])
    PROVE  Listed' /\ \A k \in Kinds : Chain(k)' = S[k]
<1>1. ASSUME NEW k \in Kinds
      PROVE  Chain(k)' = S[k]
  <2> DEFINE f == first'[k]
             l == last'[k]
             nx == next'
             T == S[k]
  <2>1. ListOf(f, l, nx, T)
    OBVIOUS
  <2>2. Chain(k)' = {WalkOf(f, nx)[i] : i \in DOMAIN WalkOf(f, nx)} \ {NULL}
    BY ChainOfState
  <2> HIDE DEF f, l, nx, T
  <2>3. {WalkOf(f, nx)[i] : i \in DOMAIN WalkOf(f, nx)} \ {NULL} = T
    BY <2>1, ChainIs
  <2> QED
    BY <2>2, <2>3 DEF T
<1>2. Listed'
  BY <1>1 DEF Listed, Kinds
<1> QED
  BY <1>1, <1>2

\* A free rule is in neither list, and no key is NULL.
LEMMA FreeIsApart ==
    ASSUME Inv, NEW r \in Rules, key[r] = NULL
    PROVE  \A k \in Kinds : r \notin Chain(k) /\ NULL \notin Domain(k)
<1>1. \A k \in Kinds : NULL \notin Domain(k)
  BY AclAssumption DEF Domain, Names, Addresses
<1> QED
  BY <1>1 DEF Inv, Keyed

\* add_rule, and the rule's key, add that key to the set.
LEMMA AddEffect ==
    ASSUME Inv, NEW k \in Kinds, NEW r \in Rules, key[r] = NULL, add_rule(k, r),
           NEW v \in Domain(k), v \notin Keys(k), key' = [key EXCEPT ![r] = v]
    PROVE  /\ Inv'
           /\ Keys(k)' = Keys(k) \cup {v}
           /\ \A j \in Kinds : j # k => Keys(j)' = Keys(j)
<1> DEFINE S == [j \in Kinds |-> IF j = k THEN Chain(k) \cup {r} ELSE Chain(j)]
<1>1. TypeOK /\ Listed /\ Apart /\ Keyed
  BY DEF Inv
<1>2. \A j \in Kinds : r \notin Chain(j)
  BY FreeIsApart
<1>3. /\ first' = [first EXCEPT ![k] = IF last[k] = NULL THEN r ELSE first[k]]
      /\ last' = [last EXCEPT ![k] = r]
      /\ next' = IF last[k] = NULL THEN [next EXCEPT ![r] = NULL]
                 ELSE [next EXCEPT ![last[k]] = r, ![r] = NULL]
  <2>1. CASE last[k] = NULL
    BY <2>1 DEF add_rule
  <2>2. CASE last[k] # NULL
    <3>1. first' = first /\ [first EXCEPT ![k] = first[k]] = first
      BY <1>1, <2>2 DEF add_rule, TypeOK
    <3> QED
      BY <2>2, <3>1 DEF add_rule
  <2> QED
    BY <2>1, <2>2
<1>4. /\ first'[k] = (IF last[k] = NULL THEN r ELSE first[k]) /\ last'[k] = r
      /\ \A j \in Kinds : j # k => first'[j] = first[j] /\ last'[j] = last[j]
  BY <1>1, <1>3 DEF TypeOK
<1>5. /\ ListOf(first'[k], r, next', Chain(k) \cup {r})
      /\ next' \in [Rules -> Rules \cup {NULL}]
      /\ OnlyIn(Chain(k) \cup {r}, next, next')
      /\ first'[k] \in Rules \cup {NULL}
  <2>1. ListOf(first[k], last[k], next, Chain(k)) /\ next \in [Rules -> Rules \cup {NULL}]
    BY <1>1 DEF Listed, TypeOK
  <2>2. r \notin Chain(k)
    BY <1>2
  <2> DEFINE f == first[k]
             l == last[k]
             C == Chain(k)
             g == first'[k]
  <2>3. /\ g = (IF l = NULL THEN r ELSE f)
        /\ next' = IF l = NULL THEN [next EXCEPT ![r] = NULL]
                   ELSE [next EXCEPT ![l] = r, ![r] = NULL]
        /\ ListOf(f, l, next, C) /\ r \notin C
    BY <1>3, <1>4, <2>1, <2>2
  <2> HIDE DEF f, l, C, g
  <2> DEFINE mx == next'
             nx == next
  <2>4. /\ nx \in [Rules -> Rules \cup {NULL}] /\ ListOf(f, l, nx, C)
        /\ Added(f, l, nx, r, g, mx)
    BY <2>1, <2>3 DEF Added
  <2> HIDE DEF mx, nx
  <2>5. /\ ListOf(g, r, mx, C \cup {r})
        /\ mx \in [Rules -> Rules \cup {NULL}]
        /\ OnlyIn(C \cup {r}, nx, mx)
        /\ g \in Rules \cup {NULL}
    <3>1. r \notin C /\ r \in Rules
      BY <2>3
    <3> HIDE DEF S
    <3>2. ListOf(g, r, mx, C \cup {r})
      BY <2>4, <3>1, AddList
    <3>3. mx \in [Rules -> Rules \cup {NULL}]
      BY <2>4, <3>1, AddList
    <3>4. OnlyIn(C \cup {r}, nx, mx)
      BY <2>4, <3>1, AddList
    <3>5. g \in Rules \cup {NULL}
      BY <2>4, <3>1, AddList
    <3> QED
      BY <3>2, <3>3, <3>4, <3>5
  <2> QED
    BY <2>5 DEF g, C, mx, nx
<1>6. ASSUME NEW j \in Kinds, j # k
      PROVE  ListOf(first'[j], last'[j], next', Chain(j))
  <2>1. ListOf(first[j], last[j], next, Chain(j))
    BY <1>1 DEF Listed
  <2>2. \A x \in Chain(j) : x \in Rules /\ x \notin Chain(k) /\ x # r
    BY <1>1, <1>2, <1>6 DEF Apart, Keyed, Kinds
  <2>3. \A x \in Chain(j) : next'[x] = next[x]
    BY <1>5, <2>2 DEF OnlyIn
  <2>4. ListOf(first[j], last[j], next', Chain(j))
    BY <2>1, <2>3, ListKept
  <2> QED
    BY <1>4, <1>6, <2>4
<1>7. \A j \in Kinds : ListOf(first'[j], last'[j], next', S[j])
  BY <1>4, <1>5, <1>6
<1>8. Listed' /\ \A j \in Kinds : Chain(j)' = S[j]
  <2> HIDE DEF S
  <2> QED
    BY <1>7, ChainsAfter
<1>9. Chain(k)' = Chain(k) \cup {r} /\ \A j \in Kinds : j # k => Chain(j)' = Chain(j)
  BY <1>8
<1>10. key'[r] = v /\ \A x \in Rules : x # r => key'[x] = key[x]
  BY <1>1 DEF TypeOK
<1>11. TypeOK'
  <2>1. key' \in [Rules -> Names \cup Addresses \cup {NULL}]
    BY <1>1 DEF TypeOK, Domain
  <2>2. first' \in [Kinds -> Rules \cup {NULL}] /\ last' \in [Kinds -> Rules \cup {NULL}]
    <3>1. (IF last[k] = NULL THEN r ELSE first[k]) \in Rules \cup {NULL}
      BY <1>1 DEF TypeOK
    <3> QED
      BY <1>1, <1>3, <3>1 DEF TypeOK
  <2> QED
    BY <1>5, <2>1, <2>2 DEF TypeOK
<1>12. \A j \in Kinds : \A x \in Chain(j) : x \in Rules /\ x # r /\ key'[x] = key[x]
  BY <1>1, <1>2, <1>10 DEF Keyed
<1>13. Apart'
  BY <1>1, <1>2, <1>9 DEF Apart, Kinds
<1>14. \A x \in Chain(k) : key[x] # v
  BY DEF Keys
<1>15. Keyed'
  <2>1. ASSUME NEW j \in Kinds
        PROVE  /\ \A x \in Chain(j)' : x \in Rules /\ key'[x] \in Domain(j)
               /\ \A x, y \in Chain(j)' : key'[x] = key'[y] => x = y
    <3>1. CASE j = k
      <4>1. \A x \in Chain(k) : key[x] \in Domain(k)
        BY <1>1 DEF Keyed
      <4>2. \A x, y \in Chain(k) : key[x] = key[y] => x = y
        BY <1>1 DEF Keyed
      <4>3. \A x \in Chain(k)' : x = r \/ x \in Chain(k)
        BY <1>9
      <4>4. \A x \in Chain(k)' : x \in Rules /\ key'[x] \in Domain(k)
        BY <1>10, <1>12, <4>1, <4>3
      <4>5. \A x, y \in Chain(k)' : key'[x] = key'[y] => x = y
        BY <1>10, <1>12, <1>14, <4>2, <4>3
      <4> QED
        BY <3>1, <4>4, <4>5
    <3>2. CASE j # k
      BY <1>1, <1>9, <1>12, <3>2 DEF Keyed
    <3> QED
      BY <3>1, <3>2
  <2> QED
    BY <2>1 DEF Keyed, Domain, Kinds, Names, Addresses
<1>16. Keys(k)' = Keys(k) \cup {v}
  BY <1>9, <1>10, <1>12 DEF Keys
<1>17. \A j \in Kinds : j # k => Keys(j)' = Keys(j)
  BY <1>9, <1>12 DEF Keys
<1> QED
  BY <1>8, <1>11, <1>13, <1>15, <1>16, <1>17 DEF Inv

\* The key of the rules of list k that t matches.
KeyOf(k, t) == IF k = "host" THEN t ELSE Addr[t]

\* store_undeny takes that key out of the set.
LEMMA RemoveEffect ==
    ASSUME Inv, NEW k \in Kinds, NEW t \in Texts, store_undeny(k, t)
    PROVE  /\ Inv' /\ answer' = "OK"
           /\ k = "addr" => Addr[t] # NoAddr
           /\ KeyOf(k, t) \in Keys(k) /\ Keys(k)' = Keys(k) \ {KeyOf(k, t)}
           /\ \A j \in Kinds : j # k => Keys(j)' = Keys(j)
<1> DEFINE w == Walk(k)
<1>1. TypeOK /\ Listed /\ Apart /\ Keyed
  BY DEF Inv
<1>2. PICK i \in DOMAIN w :
        LET r == w[i]
            previous == IF i = 0 THEN NULL ELSE w[i - 1]
        IN  /\ r # NULL /\ Match(k, r, t)
            /\ IF i = 0 THEN first' = [first EXCEPT ![k] = next[r]] /\ UNCHANGED next
               ELSE next' = [next EXCEPT ![previous] = next[r]] /\ UNCHANGED first
            /\ last' = IF last[k] = r THEN [last EXCEPT ![k] = previous] ELSE last
            /\ key' = [key EXCEPT ![r] = NULL]
            /\ answer' = "OK"
  BY DEF store_undeny
<1> DEFINE r == w[i]
           p == IF i = 0 THEN NULL ELSE w[i - 1]
           f == first[k]
           l == last[k]
           C == Chain(k)
           nx == next
           mx == next'
           g == first'[k]
           h == last'[k]
<1>3. ListOf(f, l, nx, C)
  BY <1>1 DEF Listed
<1>4. w = WalkOf(f, nx)
  BY ChainOfState
<1>5. nx \in [Rules -> Rules \cup {NULL}] /\ NULL \notin Rules
  BY <1>1, AclAssumption DEF TypeOK
<1>6. r # NULL /\ i \in DOMAIN w
  BY <1>2
<1>n. PICK n \in Nat : \E q \in [1..n -> Rules] :
         Spells(f, l, nx, n, q) /\ Enumerates(n, q, C)
  <2> HIDE DEF f, l, nx, C
  <2> QED
    BY <1>3 DEF ListOf
<1>q. PICK q \in [1..n -> Rules] : Spells(f, l, nx, n, q) /\ Enumerates(n, q, C)
  BY <1>n
<1>7. w = [a \in 0..Cardinality(Rules) |-> IF a < n THEN q[a + 1] ELSE NULL]
  <2> HIDE DEF f, l, nx, C, w
  <2> QED
    BY <1>4, <1>q, WalkIs
<1>8. Cardinality(Rules) \in Nat /\ n <= Cardinality(Rules)
  BY <1>q, Fits DEF Spells
<1> DEFINE N == Cardinality(Rules)
<1>9. /\ DOMAIN w = 0..N
      /\ \A a \in 0..N : w[a] = IF a < n THEN q[a + 1] ELSE NULL
  <2> HIDE DEF w, N
  <2> QED
    BY <1>7 DEF N
<1> DEFINE j == i + 1
<1>10. /\ i \in 0..N /\ j \in 1..n /\ r = q[j]
       /\ p = IF j = 1 THEN NULL ELSE q[j - 1]
  <2> HIDE DEF w, N
  <2>1. i \in 0..N /\ N \in Nat
    BY <1>6, <1>8, <1>9 DEF N
  <2>2. i < n /\ r = q[i + 1]
    BY <1>6, <1>9, <2>1
  <2>3. j \in 1..n /\ (j = 1 <=> i = 0) /\ j - 1 = i
    BY <2>1, <2>2
  <2>4. CASE i = 0
    BY <2>1, <2>2, <2>3, <2>4
  <2>5. CASE i # 0
    <3>1. i - 1 \in 0..N /\ i - 1 < n /\ (i - 1) + 1 = i
      BY <2>1, <2>2, <2>5
    <3>2. w[i - 1] = q[i]
      BY <1>9, <3>1
    <3> QED
      BY <2>1, <2>2, <2>3, <2>5, <3>2
  <2> QED
    BY <2>4, <2>5
<1>11. r \in C /\ r \in Rules
  <2> HIDE DEF w, C, j, r
  <2> QED
    BY <1>q, <1>10 DEF Enumerates
<1>12. i # 0 <=> p # NULL
  <2> HIDE DEF w
  <2>1. j # 1 => j - 1 \in 1..n
    BY <1>10
  <2>2. i # 0 <=> j # 1
    BY <1>10
  <2> HIDE DEF j, p
  <2> QED
    BY <1>5, <1>10, <2>1, <2>2
<1>13. /\ Match(k, r, t)
       /\ IF i = 0 THEN first' = [first EXCEPT ![k] = nx[r]] /\ mx = nx
          ELSE mx = [nx EXCEPT ![p] = nx[r]] /\ first' = first
       /\ last' = IF l = r THEN [last EXCEPT ![k] = p] ELSE last
       /\ key' = [key EXCEPT ![r] = NULL]
       /\ answer' = "OK"
  <2> HIDE DEF w
  <2> QED
    BY <1>2
<1> HIDE DEF r, p, j, w
<1>14. Unlinked(f, l, nx, r, p, g, h, mx)
  <2>1. first \in [Kinds -> Rules \cup {NULL}] /\ last \in [Kinds -> Rules \cup {NULL}]
    BY <1>1 DEF TypeOK
  <2>2. h = IF l = r THEN p ELSE l
    BY <1>13, <2>1
  <2>3. g = IF p = NULL THEN nx[r] ELSE f
    BY <1>12, <1>13, <2>1
  <2>4. mx = IF p = NULL THEN nx ELSE [nx EXCEPT ![p] = nx[r]]
    BY <1>12, <1>13
  <2> HIDE DEF f, l, nx, g, h, mx
  <2> QED
    BY <2>2, <2>3, <2>4 DEF Unlinked
<1>15. \A a \in Kinds : a # k => first'[a] = first[a] /\ last'[a] = last[a]
  BY <1>1, <1>13 DEF TypeOK
<1>16. /\ ListOf(g, h, mx, C \ {r})
       /\ mx \in [Rules -> Rules \cup {NULL}]
       /\ OnlyIn(C, nx, mx)
       /\ g \in Rules \cup {NULL} /\ h \in Rules \cup {NULL}
  <2> HIDE DEF f, l, nx, g, h, mx, C
  <2>1. Spells(f, l, nx, n, q) /\ Enumerates(n, q, C) /\ j \in 1..n /\ r = q[j]
    BY <1>q, <1>10
  <2>2. p = IF j = 1 THEN NULL ELSE q[j - 1]
    BY <1>10
  <2>p. Position(n, q, j, r, p)
    BY <2>1, <2>2 DEF Position
  <2>3. ListOf(g, h, mx, C \ {r})
    BY <1>5, <1>14, <2>1, <2>p, RemoveList
  <2>a. /\ p \in Rules \cup {NULL} /\ nx[r] \in Rules \cup {NULL}
        /\ f \in Rules \cup {NULL} /\ l \in Rules \cup {NULL}
    <3>1. j # 1 => j - 1 \in 1..n
      BY <2>1
    <3> QED
      BY <1>1, <1>5, <1>11, <2>2, <3>1 DEF TypeOK, f, l
  <2>4. mx \in [Rules -> Rules \cup {NULL}]
    BY <1>5, <1>14, <2>a DEF Unlinked
  <2>5. OnlyIn(C, nx, mx)
    BY <1>5, <1>14, <2>1, <2>p, RemoveList
  <2>6. g \in Rules \cup {NULL} /\ h \in Rules \cup {NULL}
    BY <1>14, <2>a DEF Unlinked
  <2> QED
    BY <2>3, <2>4, <2>5, <2>6
<1>17. ASSUME NEW a \in Kinds, a # k
       PROVE  ListOf(first'[a], last'[a], next', Chain(a))
  <2>1. ListOf(first[a], last[a], next, Chain(a))
    BY <1>1 DEF Listed
  <2>2. \A x \in Chain(a) : x \in Rules /\ x \notin Chain(k)
    BY <1>1, <1>17 DEF Apart, Keyed, Kinds
  <2>3. \A x \in Chain(a) : next'[x] = next[x]
    BY <1>16, <2>2 DEF OnlyIn
  <2>4. ListOf(first[a], last[a], next', Chain(a))
    BY <2>1, <2>3, ListKept
  <2> QED
    BY <1>15, <1>17, <2>4
<1> DEFINE S == [a \in Kinds |-> IF a = k THEN Chain(k) \ {r} ELSE Chain(a)]
<1>18. \A a \in Kinds : ListOf(first'[a], last'[a], next', S[a])
  BY <1>16, <1>17
<1>19. Listed' /\ \A a \in Kinds : Chain(a)' = S[a]
  <2> HIDE DEF S
  <2> QED
    BY <1>18, ChainsAfter
<1>20. Chain(k)' = Chain(k) \ {r} /\ \A a \in Kinds : a # k => Chain(a)' = Chain(a)
  BY <1>19
<1>21. \A x \in Rules : x # r => key'[x] = key[x]
  BY <1>1, <1>13 DEF TypeOK
<1>22. TypeOK'
  <2>1. key' \in [Rules -> Names \cup Addresses \cup {NULL}]
    BY <1>1, <1>13 DEF TypeOK
  <2>2. first' = [first EXCEPT ![k] = g]
    BY <1>1, <1>13 DEF TypeOK
  <2>3. last' = [last EXCEPT ![k] = h]
    BY <1>1, <1>13 DEF TypeOK
  <2>4. first' \in [Kinds -> Rules \cup {NULL}] /\ last' \in [Kinds -> Rules \cup {NULL}]
    <3> HIDE DEF g, h
    <3> QED
      BY <1>1, <1>16, <2>2, <2>3 DEF TypeOK
  <2> QED
    BY <1>16, <2>1, <2>4 DEF TypeOK
<1>23. \A a \in Kinds : \A x \in Chain(a) : x \in Rules /\ (x # r => key'[x] = key[x])
  BY <1>1, <1>21 DEF Keyed
<1>24. \A a \in Kinds : a # k => r \notin Chain(a)
  BY <1>1, <1>11 DEF Apart, Kinds
<1>25. Apart'
  BY <1>1, <1>20 DEF Apart, Kinds
<1>26. Keyed'
  <2>1. ASSUME NEW a \in Kinds
        PROVE  /\ \A x \in Chain(a)' : x \in Rules /\ key'[x] \in Domain(a)
               /\ \A x, y \in Chain(a)' : key'[x] = key'[y] => x = y
    <3>1. \A x \in Chain(a)' : x \in Chain(a) /\ x # r
      BY <1>20, <1>24
    <3>2. \A x \in Chain(a) : x \in Rules /\ key[x] \in Domain(a)
      BY <1>1 DEF Keyed
    <3>3. \A x, y \in Chain(a) : key[x] = key[y] => x = y
      BY <1>1 DEF Keyed
    <3> QED
      BY <1>21, <3>1, <3>2, <3>3
  <2> QED
    BY <2>1 DEF Keyed, Domain, Kinds, Names, Addresses
<1>27. key[r] = KeyOf(k, t) /\ (k = "addr" => Addr[t] # NoAddr)
  BY <1>13 DEF Match, KeyOf, Kinds
<1>28. \A x \in Chain(k) : x # r => key[x] # key[r]
  BY <1>1, <1>11 DEF Keyed
<1>29. key[r] \in Keys(k) /\ Keys(k)' = Keys(k) \ {key[r]}
  BY <1>11, <1>20, <1>23, <1>28 DEF Keys
<1>30. \A a \in Kinds : a # k => Keys(a)' = Keys(a)
  BY <1>20, <1>23, <1>24 DEF Keys
<1> QED
  BY <1>13, <1>19, <1>22, <1>25, <1>26, <1>27, <1>29, <1>30 DEF Inv

\* A command that is refused, and a step that does nothing, leave it all.
LEMMA NoEffect ==
    ASSUME Inv, UNCHANGED <<first, last, next, key>>
    PROVE  Inv' /\ Denied' = Denied
<1>1. first' = first /\ last' = last /\ next' = next /\ key' = key
  OBVIOUS
<1>2. \A k \in Kinds : Chain(k)' = Chain(k)
  BY <1>1 DEF Chain, Walk
<1>3. Chain("host")' = Chain("host") /\ Chain("addr")' = Chain("addr")
  BY <1>2 DEF Kinds
<1>4. TypeOK' /\ Apart'
  BY <1>1, <1>3 DEF Inv, TypeOK, Apart
<1>5. Listed'
  BY <1>1, <1>2 DEF Inv, Listed, Kinds
<1>6. Keyed'
  BY <1>1, <1>2 DEF Inv, Keyed, Kinds, Domain, Names, Addresses
<1>7. Denied' = Denied
  BY <1>1, <1>3 DEF Denied
<1> QED
  BY <1>4, <1>5, <1>6, <1>7 DEF Inv

\* The search of a list looks a key up in the set.
LEMMA Lookup ==
    ASSUME NEW k \in Kinds, NEW t \in Texts
    PROVE  is_denied(k, t) <=> KeyOf(k, t) \in Keys(k) /\ (k = "addr" => Addr[t] # NoAddr)
BY DEF is_denied, Match, KeyOf, Keys, Kinds

\* The sets of the abstract specification, now and after a step.
LEMMA DeniedIs ==
    /\ Denied = [host |-> Keys("host"), addr |-> Keys("addr")]
    /\ Denied' = [host |-> Keys("host")', addr |-> Keys("addr")']
BY DEF Denied, Keys

\* The lists are empty at first.
LEMMA InitialLists ==
    ASSUME Init
    PROVE  Inv /\ Set!Init
<1>1. ASSUME NEW k \in Kinds
      PROVE  ListOf(first[k], last[k], next, {}) /\ Chain(k) = {}
  <2> DEFINE f == first[k]
             l == last[k]
             q == [i \in 1..0 |-> NULL]
  <2>1. f = NULL /\ l = NULL
    BY DEF Init
  <2>2. q \in [1..0 -> Rules] /\ 1..0 = {} /\ 0 \in Nat
    OBVIOUS
  <2> HIDE DEF q, f, l
  <2>3. Spells(f, l, next, 0, q) /\ Enumerates(0, q, {})
    BY <2>1, <2>2 DEF Spells, Enumerates
  <2>4. ListOf(f, l, next, {})
    BY <2>2, <2>3 DEF ListOf
  <2>5. {WalkOf(f, next)[i] : i \in DOMAIN WalkOf(f, next)} \ {NULL} = {}
    BY <2>4, ChainIs
  <2> QED
    BY <2>4, <2>5, ChainOfState DEF f, l
<1>2. Listed /\ Apart /\ Keyed
  BY <1>1 DEF Listed, Apart, Keyed, Kinds
<1>3. TypeOK
  BY DEF Init, TypeOK
<1>4. Denied = [host |-> {}, addr |-> {}]
  BY <1>1 DEF Denied, Kinds
<1>5. Set!Init
  BY <1>4 DEF Set!Init, Init
<1> QED
  BY <1>2, <1>3, <1>5 DEF Inv

\* DENY_HOST adds a name to the set of names.
LEMMA DenyHostStep ==
    ASSUME Inv, NEW t \in Texts, handle_deny_host(t)
    PROVE  Inv' /\ Set!DenyHost(t)
<1> DEFINE H == Keys("host")
<1>0. "host" \in Kinds /\ "addr" \in Kinds /\ "host" # "addr"
  BY DEF Kinds
<1>1. is_denied("host", t) <=> t \in H
  BY <1>0, Lookup DEF KeyOf
<1>2. CASE store_deny_host(t)
  <2>1. PICK r \in Rules :
           /\ key[r] = NULL /\ ~is_denied("host", t) /\ Addr[t] = NoAddr
           /\ add_rule("host", r) /\ key' = [key EXCEPT ![r] = t] /\ answer' = "OK"
    BY <1>2 DEF store_deny_host
  <2>2. t \in Domain("host") /\ t \notin Keys("host")
    BY <1>1, <2>1 DEF Domain, Names
  <2>3. /\ Inv' /\ Keys("host")' = Keys("host") \cup {t}
        /\ \A j \in Kinds : j # "host" => Keys(j)' = Keys(j)
    BY <1>0, <2>1, <2>2, AddEffect
  <2>4. Keys("addr")' = Keys("addr")
    BY <1>0, <2>3
  <2>5. Set!HostKeys(t) \ H = {t}
    BY <2>1, <2>2 DEF Set!HostKeys
  <2>6. Denied' = [Denied EXCEPT !.host = @ \cup {t}] /\ Denied.host = H
    BY <2>3, <2>4, DeniedIs
  <2> QED
    BY <2>1, <2>3, <2>5, <2>6 DEF Set!DenyHost
<1>3. CASE (is_denied("host", t) \/ Addr[t] # NoAddr) /\ Refused
  <2>1. Inv' /\ Denied' = Denied /\ answer' = "ERR"
    BY <1>3, NoEffect DEF Refused
  <2>2. Set!HostKeys(t) \ H = {}
    BY <1>1, <1>3 DEF Set!HostKeys
  <2>3. Denied.host = H /\ [Denied EXCEPT !.host = @ \cup {}] = Denied
    BY DeniedIs
  <2> QED
    BY <2>1, <2>2, <2>3 DEF Set!DenyHost
<1> QED
  BY <1>2, <1>3 DEF handle_deny_host

\* DENY_IP adds an address to the set of addresses.
LEMMA DenyIpStep ==
    ASSUME Inv, NEW t \in Texts, handle_deny_ip(t)
    PROVE  Inv' /\ Set!DenyIp(t)
<1> DEFINE A == Keys("addr")
           v == Addr[t]
<1>0. "host" \in Kinds /\ "addr" \in Kinds /\ "host" # "addr"
  BY DEF Kinds
<1>1. is_denied("addr", t) <=> v \in A /\ v # NoAddr
  BY <1>0, Lookup DEF KeyOf
<1>2. CASE store_deny_ip(t)
  <2>1. PICK r \in Rules :
           /\ key[r] = NULL /\ ~is_denied("addr", t) /\ v # NoAddr
           /\ add_rule("addr", r) /\ key' = [key EXCEPT ![r] = v] /\ answer' = "OK"
    BY <1>2 DEF store_deny_ip
  <2>2. v \in Domain("addr") /\ v \notin Keys("addr")
    BY <1>0, <1>1, <2>1 DEF Domain, Addresses
  <2> HIDE DEF v
  <2>3. /\ Inv' /\ Keys("addr")' = Keys("addr") \cup {v}
        /\ \A j \in Kinds : j # "addr" => Keys(j)' = Keys(j)
    BY <1>0, <2>1, <2>2, AddEffect
  <2>4. Keys("host")' = Keys("host")
    BY <1>0, <2>3
  <2>5. Set!AddrKeys(t) \ A = {v}
    BY <2>1, <2>2 DEF Set!AddrKeys, v
  <2>6. Denied' = [Denied EXCEPT !.addr = @ \cup {v}] /\ Denied.addr = A
    BY <2>3, <2>4, DeniedIs
  <2> QED
    BY <2>1, <2>3, <2>5, <2>6 DEF Set!DenyIp
<1>3. CASE (is_denied("addr", t) \/ v = NoAddr) /\ Refused
  <2>1. Inv' /\ Denied' = Denied /\ answer' = "ERR"
    BY <1>3, NoEffect DEF Refused
  <2>2. Set!AddrKeys(t) \ A = {}
    BY <1>1, <1>3 DEF Set!AddrKeys
  <2>3. Denied.addr = A /\ [Denied EXCEPT !.addr = @ \cup {}] = Denied
    BY DeniedIs
  <2> QED
    BY <2>1, <2>2, <2>3 DEF Set!DenyIp
<1> QED
  BY <1>2, <1>3 DEF handle_deny_ip

\* UNDENY removes what its argument stands for, a name or an address.
LEMMA UndenyStep ==
    ASSUME Inv, NEW t \in Texts, handle_undeny(t)
    PROVE  Inv' /\ Set!Undeny(t)
<1> DEFINE H == Keys("host")
           A == Keys("addr")
           v == Addr[t]
<1>0. "host" \in Kinds /\ "addr" \in Kinds /\ "host" # "addr"
  BY DEF Kinds
<1>1. (is_denied("host", t) <=> t \in H) /\ (is_denied("addr", t) <=> v \in A /\ v # NoAddr)
  BY <1>0, Lookup DEF KeyOf
<1>2. \A x \in H : x \in Names
  BY <1>0 DEF Inv, Keyed, Keys, Domain
<1>3. Denied.host = H /\ Denied.addr = A /\ Denied = [host |-> H, addr |-> A]
  BY DeniedIs
<1>4. CASE store_undeny("host", t)
  <2>1. /\ Inv' /\ answer' = "OK" /\ KeyOf("host", t) \in H
        /\ Keys("host")' = H \ {KeyOf("host", t)}
        /\ \A j \in Kinds : j # "host" => Keys(j)' = Keys(j)
    BY <1>0, <1>4, RemoveEffect
  <2>2. t \in H /\ Keys("host")' = H \ {t} /\ Keys("addr")' = A
    BY <1>0, <2>1 DEF KeyOf
  <2>3. v = NoAddr
    BY <1>2, <2>2 DEF Names
  <2>4. Set!HostKeys(t) = {t} /\ Set!AddrKeys(t) = {}
    BY <2>3 DEF Set!HostKeys, Set!AddrKeys
  <2>5. Denied' = [host |-> H \ {t}, addr |-> A \ {}]
    BY <2>2, DeniedIs
  <2>6. ({t} \cap H) \cup ({} \cap A) # {}
    BY <2>2
  <2> QED
    BY <1>3, <2>1, <2>4, <2>5, <2>6 DEF Set!Undeny
<1>5. CASE ~is_denied("host", t) /\ store_undeny("addr", t)
  <2>1. /\ Inv' /\ answer' = "OK" /\ KeyOf("addr", t) \in A /\ Addr[t] # NoAddr
        /\ Keys("addr")' = A \ {KeyOf("addr", t)}
        /\ \A j \in Kinds : j # "addr" => Keys(j)' = Keys(j)
    BY <1>0, <1>5, RemoveEffect
  <2>2. v \in A /\ v # NoAddr /\ Keys("addr")' = A \ {v} /\ Keys("host")' = H
    BY <1>0, <2>1 DEF KeyOf
  <2>3. Set!HostKeys(t) = {} /\ Set!AddrKeys(t) = {v}
    BY <2>2 DEF Set!HostKeys, Set!AddrKeys
  <2>4. Denied' = [host |-> H \ {}, addr |-> A \ {v}]
    BY <2>2, DeniedIs
  <2>5. ({} \cap H) \cup ({v} \cap A) # {}
    BY <2>2
  <2> QED
    BY <1>3, <2>1, <2>3, <2>4, <2>5 DEF Set!Undeny
<1>6. CASE ~is_denied("host", t) /\ ~is_denied("addr", t) /\ Refused
  <2>1. Inv' /\ Denied' = Denied /\ answer' = "ERR"
    BY <1>6, NoEffect DEF Refused
  <2>2. Set!HostKeys(t) \cap H = {} /\ Set!AddrKeys(t) \cap A = {}
    BY <1>1, <1>6 DEF Set!HostKeys, Set!AddrKeys
  <2>3. H \ Set!HostKeys(t) = H /\ A \ Set!AddrKeys(t) = A
    BY <2>2
  <2> QED
    BY <1>3, <2>1, <2>2, <2>3 DEF Set!Undeny
<1> QED
  BY <1>4, <1>5, <1>6 DEF handle_undeny

-----------------------------------------------------------------------------
\* In every reachable state the links of each list spell out distinct rules
\* with distinct keys, no rule is in both lists, and a walk sees them all.
THEOREM Invariance == Spec => []Inv
<1>1. Init => Inv
  BY InitialLists
<1>2. Inv /\ [Next]_vars => Inv'
  <2> SUFFICES ASSUME Inv, [Next]_vars
               PROVE  Inv'
    OBVIOUS
  <2>1. ASSUME NEW t \in Texts, handle_deny_host(t) \/ handle_deny_ip(t) \/ handle_undeny(t)
        PROVE  Inv'
    BY <2>1, DenyHostStep, DenyIpStep, UndenyStep
  <2>2. CASE UNCHANGED vars
    BY <2>2, NoEffect DEF vars
  <2> QED
    BY <2>1, <2>2 DEF Next
<1> QED
  BY <1>1, <1>2, PTL DEF Spec

\* The two lists are two sets: every command that walks, links and unlinks
\* them does, and answers, what the command on sets does, whatever the
\* number of rules and in whatever order they came and went.
THEOREM ListsAreSets == Spec => ImplementsSet
<1>1. Init => Set!Init
  BY InitialLists
<1>2. Inv /\ [Next]_vars => [Set!Next]_<<Denied, answer>>
  <2> SUFFICES ASSUME Inv, [Next]_vars
               PROVE  [Set!Next]_<<Denied, answer>>
    OBVIOUS
  <2>1. ASSUME NEW t \in Texts, handle_deny_host(t) \/ handle_deny_ip(t) \/ handle_undeny(t)
        PROVE  Set!Next
    <3>1. Set!DenyHost(t) \/ Set!DenyIp(t) \/ Set!Undeny(t)
      BY <2>1, DenyHostStep, DenyIpStep, UndenyStep
    <3> QED
      BY <3>1 DEF Set!Next
  <2>2. CASE UNCHANGED vars
    BY <2>2, NoEffect DEF vars
  <2> QED
    BY <2>1, <2>2 DEF Next
<1> QED
  BY <1>1, <1>2, Invariance, PTL DEF Spec, ImplementsSet, Set!Spec
=============================================================================
