------------------------ MODULE MonitorClient_proofs ------------------------
(***************************************************************************)
(* Proofs about a monitor session, whatever program is at its other end,   *)
(* for every size of its buffer, its lines and its answers, and about the  *)
(* client program, for every number of its commands.                       *)
(*                                                                         *)
(* The session's loops over lines and units are recursive functions.       *)
(* LinesRun and FeedRun say that they have a course, and what holds along  *)
(* it is shown with the least number at which it would fail.               *)
(***************************************************************************)
EXTENDS MonitorClient, SequenceTheorems, FiniteSetTheorems, WellFoundedInduction, TLAPS

\* A session but for the bounds of its buffer.
Shape == [state : {"AWAIT_AUTH", "AUTHENTICATED"},
          line : Seq(Units),
          wb : [q : Seq(Reply), off : Nat],
          close_after_flush : BOOLEAN,
          said : Seq(Reply), owed : Nat, ran : Seq(Verbs), rejected : Nat]

\* t has said what x and its write buffer hold.  The buffer is compacted after
\* every write, so that all its space is behind what it holds.
Says(x, t) ==
    /\ t \in Shape
    /\ x \o t.wb.q = t.said
    /\ t.wb.off = 0
    /\ Len(t.wb.q) <= Cap

\* The inductive invariant of the session.
Inv ==
    /\ Says(out, s)
    /\ open \in BOOLEAN
    /\ input \in Seq(Units)
    /\ nread \in 0..Len(input)
    /\ out \in Seq(Reply)

-----------------------------------------------------------------------------
(***************************************************************************)
(* What is put in the write buffer                                         *)
(***************************************************************************)
\* A set of numbers that has a member has a least one.
LEMMA LeastExists ==
    ASSUME NEW T, T \subseteq Nat, T # {}
    PROVE  \E x \in T : \A y \in T : x <= y
<1> DEFINE R == OpToRel(<, Nat)
<1>1. IsWellFoundedOn(R, Nat)
  BY NatLessThanWellFounded
<1>2. \A x, y \in Nat : x < y => <<x, y>> \in R
  BY DEF OpToRel
<1> HIDE DEF R
<1>3. PICK x \in T : \A y \in T : ~(<<y, x>> \in R)
  BY <1>1, WFMin
<1>4. ASSUME NEW y \in T
      PROVE  x <= y
  <2>1. x \in Nat /\ y \in Nat
    OBVIOUS
  <2>2. ~(y < x)
    BY <2>1, <1>2, <1>3
  <2> QED
    BY <2>1, <2>2
<1> QED
  BY <1>4

\* Concatenation is associative.
LEMMA Joined ==
    ASSUME NEW S, NEW x \in Seq(S), NEW y \in Seq(S), NEW z \in Seq(S)
    PROVE  (x \o y) \o z = x \o (y \o z)
BY ConcatAssociative

\* z is x and then y.
Joins(z, x, y) ==
    /\ Len(z) = Len(x) + Len(y) /\ Len(x) \in Nat /\ Len(y) \in Nat
    /\ \A i \in 1..Len(x) : z[i] = x[i]
    /\ \A i \in 1..Len(y) : z[Len(x) + i] = y[i]

\* The units of a concatenation.
LEMMA JoinedUnits ==
    ASSUME NEW S, NEW x \in Seq(S), NEW y \in Seq(S)
    PROVE  Joins(x \o y, x, y)
<1> DEFINE z == x \o y
<1>0. /\ Len(z) = Len(x) + Len(y)
      /\ \A i \in 1..(Len(x) + Len(y)) : z[i] = IF i <= Len(x) THEN x[i] ELSE y[i - Len(x)]
  BY ConcatProperties
<1>1. Len(x) \in Nat /\ Len(y) \in Nat
  BY LenProperties
<1> HIDE DEF z
<1>2. \A i \in 1..Len(x) : z[i] = x[i]
  <2>1. \A i \in 1..Len(x) : i \in 1..(Len(x) + Len(y)) /\ i <= Len(x)
    BY <1>1
  <2> QED
    BY <1>0, <2>1
<1>3. ASSUME NEW i \in 1..Len(y)
      PROVE  z[Len(x) + i] = y[i]
  <2> DEFINE j == Len(x) + i
  <2>1. j \in 1..(Len(x) + Len(y)) /\ ~(j <= Len(x)) /\ j - Len(x) = i
    BY <1>1
  <2> HIDE DEF j
  <2>2. z[j] = y[j - Len(x)]
    BY <1>0, <2>1
  <2> QED
    BY <2>1, <2>2 DEF j
<1> QED
  BY <1>0, <1>1, <1>2, <1>3 DEF Joins, z

\* A text is put in whole or not at all.
LEMMA AppendSays ==
    ASSUME NEW x \in Seq(Reply), NEW t, Says(x, t), NEW text \in Seq(Reply)
    PROVE  Says(x, commands_wb_append(t, text))
<1> DEFINE r == commands_wb_append(t, text)
           q == t.wb.q
           d == t.said
<1>1. /\ t \in Shape /\ x \o q = d /\ t.wb.off = 0 /\ Len(q) <= Cap
      /\ q \in Seq(Reply) /\ d \in Seq(Reply)
  BY DEF Says, Shape
<1>2. CASE buffer_space(t.wb) < Len(text)
  BY <1>2 DEF commands_wb_append
<1>3. CASE ~(buffer_space(t.wb) < Len(text))
  <2>1. r = [t EXCEPT !.wb = [q |-> q \o text, off |-> t.wb.off], !.said = @ \o text]
    BY <1>3 DEF commands_wb_append, buffer_write_adv
  <2>0. ~(Cap - (0 + Len(q)) < Len(text))
    BY <1>1, <1>3 DEF buffer_space
  <2> HIDE DEF q, d
  <2>2. Len(q \o text) = Len(q) + Len(text) /\ q \o text \in Seq(Reply)
    BY <1>1
  <2>3. Len(q \o text) <= Cap
    BY <1>1, <2>0, <2>2, CapAssumption
  <2>4. d \o text \in Seq(Reply)
    BY <1>1
  <2>5. x \o (q \o text) = d \o text
    <3>1. x \in Seq(Reply) /\ q \in Seq(Reply) /\ text \in Seq(Reply)
      BY <1>1
    <3>2. (x \o q) \o text = x \o (q \o text)
      BY <3>1, Joined
    <3> QED
      BY <1>1, <3>2, Zenon
  <2> DEFINE a == q \o text
             c == d \o text
  <2>6. r = [t EXCEPT !.wb = [q |-> a, off |-> 0], !.said = c]
    BY <1>1, <2>1 DEF Shape, d
  <2> HIDE DEF a, c, r
  <2>7. r \in Shape /\ r.wb.q = a /\ r.said = c /\ r.wb.off = 0
    <3>1. a \in Seq(Reply) /\ c \in Seq(Reply)
      BY <2>2, <2>4 DEF a, c
    <3> QED
      BY <1>1, <2>6, <3>1 DEF Shape
  <2> QED
    BY <2>3, <2>5, <2>7 DEF Says, a, c, r
<1> QED
  BY <1>2, <1>3

\* f is the course of the loop that appends n lines.
LinesCourse(f, t, v, n) ==
    f = [i \in 0..n |-> IF i = 0 THEN t ELSE commands_wb_append(f[i - 1], ReplyLine(v))]

\* The loop has a course, for any number of lines.
LEMMA LinesRun ==
    ASSUME NEW t, NEW v, NEW n \in Nat
    PROVE  \E f : /\ f[0] = t
                  /\ \A i \in 1..n : f[i] = commands_wb_append(f[i - 1], ReplyLine(v))
                  /\ commands_wb_append_lines(t, v, n) = f[n]
<1> DEFINE T == {m \in Nat : ~\E f : LinesCourse(f, t, v, m)}
<1>1. \E f : LinesCourse(f, t, v, n)
  <2> SUFFICES ASSUME T # {}
               PROVE  FALSE
    OBVIOUS
  <2>1. PICK m \in T : \A y \in T : m <= y
    BY LeastExists
  <2>2. CASE m = 0
    <3> DEFINE f == [i \in 0..0 |-> t]
    <3>1. f = [i \in 0..0 |-> IF i = 0 THEN t
                              ELSE commands_wb_append(f[i - 1], ReplyLine(v))]
      OBVIOUS
    <3> HIDE DEF f
    <3> QED
      BY <2>2, <3>1 DEF LinesCourse
  <2>3. CASE m # 0
    <3>1. m - 1 \in Nat /\ ~(m <= m - 1)
      BY <2>3
    <3>2. m - 1 \notin T
      BY <2>1, <3>1
    <3>3. PICK f : LinesCourse(f, t, v, m - 1)
      BY <3>1, <3>2
    <3> DEFINE g == [i \in 0..m |-> IF i = m THEN commands_wb_append(f[m - 1], ReplyLine(v))
                                    ELSE f[i]]
               h == [i \in 0..m |-> IF i = 0 THEN t
                                    ELSE commands_wb_append(g[i - 1], ReplyLine(v))]
    <3>4. \A i \in 0..(m - 1) : f[i] = IF i = 0 THEN t
                                       ELSE commands_wb_append(f[i - 1], ReplyLine(v))
      BY <3>3 DEF LinesCourse
    <3>5. ASSUME NEW i \in 0..m
          PROVE  g[i] = h[i]
      <4>1. CASE i = m
        <5>1. i # 0 /\ m - 1 \in 0..m /\ m - 1 # m
          BY <2>3, <4>1, <3>1
        <5>2. g[m - 1] = f[m - 1]
          BY <5>1
        <5> QED
          BY <4>1, <5>1, <5>2
      <4>2. CASE i # m
        <5>1. i \in 0..(m - 1) /\ (i # 0 => i - 1 \in 0..m /\ i - 1 # m)
          BY <4>2
        <5>2. g[i] = f[i] /\ (i # 0 => g[i - 1] = f[i - 1])
          BY <4>2, <5>1
        <5> QED
          BY <3>4, <5>1, <5>2
      <4> QED
        BY <4>1, <4>2
    <3>6. g = h
      <4>1. g = [i \in 0..m |-> g[i]] /\ h = [i \in 0..m |-> h[i]]
        OBVIOUS
      <4> HIDE DEF g, h
      <4> QED
        BY <3>5, <4>1
    <3>7. LinesCourse(g, t, v, m)
      <4> HIDE DEF g
      <4> QED
        BY <3>6 DEF LinesCourse
    <3> QED
      BY <3>7
  <2> QED
    BY <2>2, <2>3
<1> DEFINE w == CHOOSE f : f = [i \in 0..n |-> IF i = 0 THEN t
                                  ELSE commands_wb_append(f[i - 1], ReplyLine(v))]
<1>2. commands_wb_append_lines(t, v, n) = w[n]
  BY DEF commands_wb_append_lines
<1>3. w = [i \in 0..n |-> IF i = 0 THEN t
                          ELSE commands_wb_append(w[i - 1], ReplyLine(v))]
  <2>1. \E f : f = [i \in 0..n |-> IF i = 0 THEN t
                      ELSE commands_wb_append(f[i - 1], ReplyLine(v))]
    BY <1>1 DEF LinesCourse
  <2> QED
    BY <2>1
<1> HIDE DEF w
<1>4. w[0] = t /\ \A i \in 1..n : w[i] = commands_wb_append(w[i - 1], ReplyLine(v))
  <2>1. \A i \in 0..n : w[i] = IF i = 0 THEN t
                               ELSE commands_wb_append(w[i - 1], ReplyLine(v))
    BY <1>3
  <2>2. 0 \in 0..n /\ \A i \in 1..n : i \in 0..n /\ i # 0
    OBVIOUS
  <2> QED
    BY <2>1, <2>2
<1> QED
  BY <1>2, <1>4

\* f is the course of the loop that feeds data to the line parser.
FeedCourse(f, t, data, n) ==
    f = [i \in 0..n |-> IF i = 0 THEN t ELSE process_byte(f[i - 1], data[i])]

\* The loop over the units of a read has a course too.
LEMMA FeedRun ==
    ASSUME NEW t, NEW data, Len(data) \in Nat
    PROVE  \E f : /\ f[0] = t
                  /\ \A i \in 1..Len(data) : f[i] = process_byte(f[i - 1], data[i])
                  /\ monitor_commands_feed(t, data) = f[Len(data)]
<1> DEFINE T == {m \in Nat : ~\E f : FeedCourse(f, t, data, m)}
           n == Len(data)
<1>1. \E f : FeedCourse(f, t, data, n)
  <2> SUFFICES ASSUME T # {}
               PROVE  FALSE
    OBVIOUS
  <2>1. PICK m \in T : \A y \in T : m <= y
    BY LeastExists
  <2>2. CASE m = 0
    <3> DEFINE f == [i \in 0..0 |-> t]
    <3>1. f = [i \in 0..0 |-> IF i = 0 THEN t ELSE process_byte(f[i - 1], data[i])]
      OBVIOUS
    <3> HIDE DEF f
    <3> QED
      BY <2>2, <3>1 DEF FeedCourse
  <2>3. CASE m # 0
    <3>1. m - 1 \in Nat /\ ~(m <= m - 1)
      BY <2>3
    <3>2. m - 1 \notin T
      BY <2>1, <3>1
    <3>3. PICK f : FeedCourse(f, t, data, m - 1)
      BY <3>1, <3>2
    <3> DEFINE g == [i \in 0..m |-> IF i = m THEN process_byte(f[m - 1], data[m])
                                    ELSE f[i]]
               h == [i \in 0..m |-> IF i = 0 THEN t ELSE process_byte(g[i - 1], data[i])]
    <3>4. \A i \in 0..(m - 1) : f[i] = IF i = 0 THEN t ELSE process_byte(f[i - 1], data[i])
      BY <3>3 DEF FeedCourse
    <3>5. ASSUME NEW i \in 0..m
          PROVE  g[i] = h[i]
      <4>1. CASE i = m
        <5>1. i # 0 /\ m - 1 \in 0..m /\ m - 1 # m
          BY <2>3, <4>1, <3>1
        <5>2. g[m - 1] = f[m - 1]
          BY <5>1
        <5> QED
          BY <4>1, <5>1, <5>2
      <4>2. CASE i # m
        <5>1. i \in 0..(m - 1) /\ (i # 0 => i - 1 \in 0..m /\ i - 1 # m)
          BY <4>2
        <5>2. g[i] = f[i] /\ (i # 0 => g[i - 1] = f[i - 1])
          BY <4>2, <5>1
        <5> QED
          BY <3>4, <5>1, <5>2
      <4> QED
        BY <4>1, <4>2
    <3>6. g = h
      <4>1. g = [i \in 0..m |-> g[i]] /\ h = [i \in 0..m |-> h[i]]
        OBVIOUS
      <4> HIDE DEF g, h
      <4> QED
        BY <3>5, <4>1
    <3>7. FeedCourse(g, t, data, m)
      <4> HIDE DEF g
      <4> QED
        BY <3>6 DEF FeedCourse
    <3> QED
      BY <3>7
  <2> QED
    BY <2>2, <2>3
<1> DEFINE w == CHOOSE f : f = [i \in 0..n |-> IF i = 0 THEN t
                                               ELSE process_byte(f[i - 1], data[i])]
<1>2. monitor_commands_feed(t, data) = w[n]
  BY DEF monitor_commands_feed
<1>3. w = [i \in 0..n |-> IF i = 0 THEN t ELSE process_byte(w[i - 1], data[i])]
  <2>1. \E f : f = [i \in 0..n |-> IF i = 0 THEN t ELSE process_byte(f[i - 1], data[i])]
    BY <1>1 DEF FeedCourse
  <2> QED
    BY <2>1
<1> HIDE DEF w
<1>4. w[0] = t /\ \A i \in 1..n : w[i] = process_byte(w[i - 1], data[i])
  <2>1. \A i \in 0..n : w[i] = IF i = 0 THEN t ELSE process_byte(w[i - 1], data[i])
    BY <1>3
  <2>2. 0 \in 0..n /\ \A i \in 1..n : i \in 0..n /\ i # 0
    OBVIOUS
  <2> QED
    BY <2>1, <2>2
<1> QED
  BY <1>2, <1>4

\* r differs from t at most in what it has said.
Kept(t, r) ==
    /\ r.state = t.state /\ r.line = t.line
    /\ r.close_after_flush = t.close_after_flush
    /\ r.ran = t.ran /\ r.owed = t.owed

\* Where a text fits it is put behind what was said; nothing else changes.
LEMMA AppendEffect ==
    ASSUME NEW t \in Shape, NEW text, NEW r, r = commands_wb_append(t, text)
    PROVE  /\ Kept(t, r)
           /\ ~(buffer_space(t.wb) < Len(text)) =>
                 r.said = t.said \o text /\ r.wb.q = t.wb.q \o text
<1>1. CASE buffer_space(t.wb) < Len(text)
  BY <1>1 DEF commands_wb_append, Kept
<1>2. CASE ~(buffer_space(t.wb) < Len(text))
  <2> DEFINE a == t.wb.q \o text
             c == t.said \o text
  <2>1. r = [t EXCEPT !.wb = [q |-> a, off |-> t.wb.off], !.said = c]
    BY <1>2 DEF commands_wb_append, buffer_write_adv, Shape
  <2> HIDE DEF a, c
  <2>2. r.said = c /\ r.wb.q = a /\ Kept(t, r)
    BY <2>1 DEF Shape, Kept
  <2> QED
    BY <2>2 DEF a, c
<1> QED
  BY <1>1, <1>2

\* From unit g on, y has k lines.
Lined(y, g, v, k) ==
    /\ Len(y) = g + 2 * k
    /\ \A j \in 1..k : y[g + 2 * j - 1] = v /\ y[g + 2 * j] = "end"

\* From unit g on, y is an answer, or the rest of one: k lines and the
\* terminator.
Owes(y, g, v, k) ==
    /\ Len(y) = g + 2 * k + 1
    /\ \A j \in 1..k : y[g + 2 * j - 1] = v /\ y[g + 2 * j] = "end"
    /\ y[g + 2 * k + 1] = "dot"

\* One line more.
LEMMA LineMore ==
    ASSUME NEW y \in Seq(Reply), NEW g \in Nat, NEW v \in {"ok", "err"}, NEW k \in Nat,
           Lined(y, g, v, k), NEW z, z = y \o ReplyLine(v)
    PROVE  Lined(z, g, v, k + 1)
<1>1. ReplyLine(v) \in Seq(Reply) /\ Len(ReplyLine(v)) = 2
      /\ ReplyLine(v)[1] = v /\ ReplyLine(v)[2] = "end"
  BY DEF ReplyLine, Reply
<1> DEFINE e == ReplyLine(v)
<1> HIDE DEF e
<1>2. e \in Seq(Reply) /\ Len(e) = 2 /\ e[1] = v /\ e[2] = "end" /\ z = y \o e
  BY <1>1 DEF e
<1>3. Len(y) = g + 2 * k
  BY DEF Lined
<1>a. Joins(z, y, e)
  BY <1>2, JoinedUnits
<1>4. Len(z) = g + 2 * (k + 1)
  BY <1>2, <1>3, <1>a DEF Joins
<1>5. z[g + 2 * k + 1] = v /\ z[g + 2 * k + 2] = "end"
  <2>1. 1 \in 1..Len(e) /\ 2 \in 1..Len(e)
    BY <1>2
  <2> QED
    BY <1>2, <1>3, <1>a, <2>1 DEF Joins
<1>6. \A i \in 1..Len(y) : z[i] = y[i]
  BY <1>a DEF Joins
<1>7. ASSUME NEW j \in 1..(k + 1)
      PROVE  z[g + 2 * j - 1] = v /\ z[g + 2 * j] = "end"
  <2>1. CASE j = k + 1
    <3>1. g + 2 * j - 1 = g + 2 * k + 1 /\ g + 2 * j = g + 2 * k + 2
      BY <2>1
    <3> QED
      BY <1>5, <3>1
  <2>2. CASE j # k + 1
    <3>1. j \in 1..k /\ g + 2 * j - 1 \in 1..Len(y) /\ g + 2 * j \in 1..Len(y)
      BY <1>3, <2>2
    <3> QED
      BY <1>6, <3>1 DEF Lined
  <2> QED
    BY <2>1, <2>2
<1> QED
  BY <1>4, <1>7 DEF Lined

\* The terminator makes it an answer.
LEMMA LinesEnd ==
    ASSUME NEW y \in Seq(Reply), NEW g \in Nat, NEW v, NEW k \in Nat,
           Lined(y, g, v, k), NEW z, z = y \o Terminator
    PROVE  Owes(z, g, v, k)
<1> DEFINE e == Terminator
<1>1. e \in Seq(Reply) /\ Len(e) = 1 /\ e[1] = "dot" /\ z = y \o e
  BY DEF Terminator, Reply
<1> HIDE DEF e
<1>2. Len(y) = g + 2 * k
  BY DEF Lined
<1>a. Joins(z, y, e)
  BY <1>1, JoinedUnits
<1>3. Len(z) = g + 2 * k + 1 /\ z[g + 2 * k + 1] = "dot"
  <2>1. 1 \in 1..Len(e)
    BY <1>1
  <2> QED
    BY <1>1, <1>2, <1>a, <2>1 DEF Joins
<1>4. \A i \in 1..Len(y) : z[i] = y[i]
  BY <1>a DEF Joins
<1>5. ASSUME NEW j \in 1..k
      PROVE  z[g + 2 * j - 1] = v /\ z[g + 2 * j] = "end"
  <2>1. g + 2 * j - 1 \in 1..Len(y) /\ g + 2 * j \in 1..Len(y)
    BY <1>2
  <2> QED
    BY <1>4, <2>1 DEF Lined
<1> QED
  BY <1>3, <1>5 DEF Owes

\* r is t with a reply of n lines: whole, if the buffer was empty and has room.
Answers(t, r, v, n) ==
    /\ r.state = t.state /\ r.line = t.line
    /\ r.close_after_flush = t.close_after_flush
    /\ r.ran = t.ran /\ r.owed = t.owed + 1
    /\ t.wb.q = << >> /\ 2 * n + 1 <= Cap => Owes(r.said, Len(t.said), v, n)

\* What a reply of n lines leaves: it says no more than it buffers and, in a
\* buffer that was empty and has room for it, it is whole.
LEMMA AnswerEffect ==
    ASSUME NEW x \in Seq(Reply), NEW t, Says(x, t), NEW v \in {"ok", "err"},
           NEW n \in Nat, NEW r, r = Answer(t, v, n)
    PROVE  Says(x, r) /\ Answers(t, r, v, n)
<1> DEFINE e == ReplyLine(v)
           g == Len(t.said)
           Room == t.wb.q = << >> /\ 2 * n + 1 <= Cap
           Fine(u, i) == /\ Says(x, u) /\ Kept(t, u)
                         /\ Room => Len(u.wb.q) = 2 * i /\ Lined(u.said, g, v, i)
<1>1. e \in Seq(Reply) /\ Len(e) = 2
  BY DEF ReplyLine, Reply
<1>2. PICK f : /\ f[0] = t
               /\ \A i \in 1..n : f[i] = commands_wb_append(f[i - 1], e)
               /\ commands_wb_append_lines(t, v, n) = f[n]
  BY LinesRun
<1>3. t \in Shape /\ g \in Nat /\ t.said \in Seq(Reply)
  BY DEF Says, Shape
<1>4. Fine(f[0], 0)
  <2>1. Room => Len(t.wb.q) = 2 * 0
    OBVIOUS
  <2>2. Lined(t.said, g, v, 0)
    BY <1>3 DEF Lined
  <2>3. Kept(t, t)
    BY DEF Kept
  <2> QED
    BY <1>2, <2>1, <2>2, <2>3
<1>5. ASSUME NEW i \in 1..n, Fine(f[i - 1], i - 1)
      PROVE  Fine(f[i], i)
  <2> DEFINE u == f[i - 1]
             w == f[i]
  <2>1. w = commands_wb_append(u, e) /\ Says(x, u) /\ Kept(t, u) /\ u \in Shape
    BY <1>2, <1>5 DEF Says
  <2> HIDE DEF e, w
  <2>2. Says(x, w)
    BY <1>1, <2>1, AppendSays
  <2>3. Kept(u, w)
    BY <2>1, AppendEffect
  <2>4. Kept(t, w)
    BY <2>1, <2>3 DEF Kept
  <2>5. ASSUME Room
        PROVE  Len(w.wb.q) = 2 * i /\ Lined(w.said, g, v, i)
    <3>1. Len(u.wb.q) = 2 * (i - 1) /\ Lined(u.said, g, v, i - 1)
      BY <1>5, <2>5
    <3>2. u.wb.off = 0 /\ u.wb.q \in Seq(Reply) /\ u.said \in Seq(Reply)
      BY <2>1 DEF Says, Shape
    <3>3. ~(buffer_space(u.wb) < Len(e))
      BY <1>1, <2>5, <3>1, <3>2, CapAssumption DEF buffer_space
    <3>4. w.said = u.said \o e /\ w.wb.q = u.wb.q \o e
      BY <2>1, <3>3, AppendEffect
    <3>5. Len(w.wb.q) = 2 * i
      <4> DEFINE a == w.wb.q
                 c == u.wb.q
      <4>0. a = c \o e /\ c \in Seq(Reply)
        BY <3>2, <3>4
      <4> HIDE DEF a, c
      <4>1. Joins(a, c, e)
        BY <1>1, <4>0, JoinedUnits
      <4> QED
        BY <1>1, <3>1, <4>1 DEF a, c, Joins
    <3>6. i - 1 \in Nat /\ (i - 1) + 1 = i
      OBVIOUS
    <3> DEFINE y == u.said
    <3> HIDE DEF y, g
    <3>7. Lined(w.said, g, v, (i - 1) + 1)
      <4>1. y \in Seq(Reply) /\ g \in Nat /\ Lined(y, g, v, i - 1) /\ w.said = y \o ReplyLine(v)
        BY <1>3, <3>1, <3>2, <3>4 DEF y, e
      <4> QED
        BY <3>6, <4>1, LineMore
    <3> QED
      BY <3>5, <3>6, <3>7
  <2> QED
    BY <2>2, <2>4, <2>5 DEF w
<1>6. Fine(f[n], n)
  <2> DEFINE T == {i \in 0..n : ~Fine(f[i], i)}
  <2> HIDE DEF Fine
  <2> SUFFICES ASSUME T # {}
               PROVE  FALSE
    OBVIOUS
  <2>1. T \subseteq Nat
    OBVIOUS
  <2>2. PICK i \in T : \A y \in T : i <= y
    BY <2>1, LeastExists
  <2>3. i # 0 /\ i \in 1..n /\ i - 1 \in 0..n /\ ~(i <= i - 1)
    BY <1>4, <2>2
  <2>4. Fine(f[i - 1], i - 1)
    BY <2>2, <2>3
  <2>5. Fine(f[i], i)
    BY <1>5, <2>3, <2>4
  <2> QED
    BY <2>2, <2>5
<1> DEFINE u == f[n]
           z == commands_wb_append(u, Terminator)
<1>7. r = [z EXCEPT !.owed = @ + 1]
  BY <1>2 DEF Answer
<1>8. Says(x, u) /\ Kept(t, u) /\ u \in Shape
  BY <1>6 DEF Says
<1>9. Terminator \in Seq(Reply) /\ Len(Terminator) = 1
  BY DEF Terminator, Reply
<1> HIDE DEF z
<1>10. Says(x, z)
  BY <1>8, <1>9, AppendSays DEF z
<1>11. Kept(u, z)
  BY <1>8, AppendEffect DEF z
<1>12. z \in Shape
  BY <1>10 DEF Says
<1>13. /\ r \in Shape /\ r.wb = z.wb /\ r.said = z.said /\ r.owed = z.owed + 1
       /\ r.state = z.state /\ r.line = z.line /\ r.ran = z.ran
       /\ r.close_after_flush = z.close_after_flush
  <2>1. z.owed \in Nat /\ z.owed + 1 \in Nat
    BY <1>12 DEF Shape
  <2> DEFINE m == z.owed + 1
  <2>2. r = [z EXCEPT !.owed = m]
    BY <1>7, <1>12 DEF Shape
  <2> HIDE DEF m
  <2> QED
    BY <1>12, <2>1, <2>2 DEF Shape, m
<1>14. Says(x, r)
  BY <1>10, <1>13 DEF Says
<1>15. ASSUME Room
       PROVE  Owes(r.said, g, v, n)
  <2>1. Len(u.wb.q) = 2 * n /\ Lined(u.said, g, v, n)
    BY <1>6, <1>15
  <2>2. u.wb.off = 0 /\ u.wb.q \in Seq(Reply) /\ u.said \in Seq(Reply)
    BY <1>8 DEF Says, Shape
  <2>3. ~(buffer_space(u.wb) < Len(Terminator))
    BY <1>9, <1>15, <2>1, <2>2, CapAssumption DEF buffer_space
  <2>4. z.said = u.said \o Terminator
    BY <1>8, <2>3, AppendEffect DEF z
  <2> DEFINE y == u.said
  <2> HIDE DEF y, g
  <2>5. y \in Seq(Reply) /\ g \in Nat /\ Lined(y, g, v, n) /\ r.said = y \o Terminator
    BY <1>3, <1>13, <2>1, <2>2, <2>4 DEF y
  <2> QED
    BY <2>5, LinesEnd
<1> QED
  BY <1>8, <1>11, <1>13, <1>14, <1>15 DEF Kept, Answers

-----------------------------------------------------------------------------
(***************************************************************************)
(* Lines                                                                   *)
(***************************************************************************)
\* u is t but for its state, its line and what is recorded of its commands.
SameSpeech(t, u) ==
    u \in Shape /\ u.wb = t.wb /\ u.said = t.said /\ u.owed = t.owed

\* Such a change says nothing.
LEMMA SpeechKept ==
    ASSUME NEW x, NEW t, Says(x, t), NEW u, SameSpeech(t, u)
    PROVE  Says(x, u)
BY DEF Says, SameSpeech

\* The answer to a command, or to a line that is none.
Replied(t, r, cmd) ==
    \E v \in {"ok", "err"} : \E n \in Nat :
       /\ n = IF cmd = "LIST" /\ t.state = "AUTHENTICATED" THEN ListLines ELSE 1
       /\ r.owed = t.owed + 1
       /\ r.state \in {t.state, "AUTHENTICATED"}
       /\ cmd \in {"AUTH", "other"} /\ v = "ok" => r.state = "AUTHENTICATED"
       /\ t.wb.q = << >> /\ 2 * n + 1 <= Cap => Owes(r.said, Len(t.said), v, n)

\* A handler that answers is right when its lines and its verdict are.
LEMMA HandlerReplies ==
    ASSUME NEW x \in Seq(Reply), NEW t, Says(x, t), NEW u, SameSpeech(t, u),
           u.state \in {t.state, "AUTHENTICATED"},
           NEW v \in {"ok", "err"}, NEW n \in Nat, NEW r, r = Answer(u, v, n), NEW cmd,
           n = IF cmd = "LIST" /\ t.state = "AUTHENTICATED" THEN ListLines ELSE 1,
           cmd \in {"AUTH", "other"} /\ v = "ok" => u.state = "AUTHENTICATED"
    PROVE  Says(x, r) /\ Replied(t, r, cmd)
<1>1. Says(x, u)
  BY SpeechKept
<1>2. Says(x, r)
  BY <1>1, AnswerEffect
<1>3. Answers(u, r, v, n)
  BY <1>1, AnswerEffect
<1> QED
  BY <1>2, <1>3 DEF Replied, SameSpeech, Answers

\* A line that is not empty gets one answer; only AUTH admits.
LEMMA DispatchReplies ==
    ASSUME NEW x \in Seq(Reply), NEW t, Says(x, t), NEW line,
           NEW cmd, cmd = split_line(line), cmd # "none",
           NEW r, r = dispatch_line(t, line)
    PROVE  Says(x, r) /\ Replied(t, r, cmd)
<1>0. t \in Shape /\ ListLines \in Nat
  BY MonitorAssumption DEF Says
<1>1. t.ran \in Seq(Verbs) /\ t.state \in {"AWAIT_AUTH", "AUTHENTICATED"}
  BY <1>0 DEF Shape
<1>2. CASE t.state = "AWAIT_AUTH" /\ cmd = "AUTH"
  <2> DEFINE u == [t EXCEPT !.state = "AUTHENTICATED"]
  <2>1. r = Answer(u, "ok", 1)
    BY <1>2 DEF dispatch_line, handle_auth
  <2>2. SameSpeech(t, u) /\ u.state = "AUTHENTICATED"
    BY <1>0 DEF SameSpeech, Shape
  <2> HIDE DEF u
  <2> QED
    BY <1>2, <2>1, <2>2, HandlerReplies
<1>3. CASE t.state = "AUTHENTICATED" /\ cmd \in {"LIST", "SET", "QUIT"}
  <2> DEFINE a == Append(t.ran, cmd)
             u == [t EXCEPT !.ran = a]
             w == [t EXCEPT !.ran = a, !.close_after_flush = TRUE]
  <2>1. a \in Seq(Verbs)
    BY <1>1, <1>3 DEF Verbs
  <2>2. /\ cmd = "LIST" => r = Answer(u, "ok", ListLines)
        /\ cmd = "SET" => r = Answer(u, "ok", 1)
        /\ cmd = "QUIT" => r = Answer(w, "ok", 1)
    BY <1>0, <1>3 DEF dispatch_line, handle_list, handle_one, handle_quit, Shape
  <2> HIDE DEF a
  <2>3. SameSpeech(t, u) /\ SameSpeech(t, w) /\ u.state = t.state /\ w.state = t.state
    BY <1>0, <2>1 DEF SameSpeech, Shape
  <2> HIDE DEF u, w
  <2>4. CASE cmd = "LIST"
    BY <1>0, <1>3, <2>2, <2>3, <2>4, HandlerReplies
  <2>5. CASE cmd = "SET"
    BY <1>3, <2>2, <2>3, <2>5, HandlerReplies
  <2>6. CASE cmd = "QUIT"
    BY <1>3, <2>2, <2>3, <2>6, HandlerReplies
  <2> QED
    BY <1>3, <2>4, <2>5, <2>6
<1>4. CASE ~(t.state = "AWAIT_AUTH" /\ cmd = "AUTH")
           /\ ~(t.state = "AUTHENTICATED" /\ cmd \in {"LIST", "SET", "QUIT"})
  <2>1. r = Answer(t, "err", 1)
    BY <1>4 DEF dispatch_line
  <2>2. SameSpeech(t, t)
    BY <1>0 DEF SameSpeech
  <2>3. 1 = IF cmd = "LIST" /\ t.state = "AUTHENTICATED" THEN ListLines ELSE 1
    BY <1>4
  <2> QED
    BY <2>1, <2>2, <2>3, HandlerReplies
<1> QED
  BY <1>2, <1>3, <1>4

\* Nor does an empty one, which has no answer, lose a reply.
LEMMA DispatchSays ==
    ASSUME NEW x \in Seq(Reply), NEW t, Says(x, t), NEW line
    PROVE  Says(x, dispatch_line(t, line))
<1>1. CASE split_line(line) = "none"
  BY <1>1 DEF dispatch_line
<1>2. CASE split_line(line) # "none"
  BY <1>2, DispatchReplies
<1> QED
  BY <1>1, <1>2

\* The session with another line.
WithLine(t, line) == [t EXCEPT !.line = line]

\* It says the same.
LEMMA LineSays ==
    ASSUME NEW x, NEW t, Says(x, t), NEW line \in Seq(Units)
    PROVE  Says(x, WithLine(t, line)) /\ SameSpeech(t, WithLine(t, line))
<1> DEFINE u == WithLine(t, line)
<1>1. t \in Shape
  BY DEF Says
<1>2. u \in Shape /\ u.wb = t.wb /\ u.said = t.said /\ u.owed = t.owed
  BY <1>1 DEF Shape, WithLine
<1> HIDE DEF u
<1>3. SameSpeech(t, u)
  BY <1>2 DEF SameSpeech
<1>4. Says(x, u)
  BY <1>3, SpeechKept
<1> QED
  BY <1>3, <1>4 DEF u

\* No unit of input loses or repeats a unit of the replies.
LEMMA ByteSays ==
    ASSUME NEW x \in Seq(Reply), NEW t, Says(x, t), NEW ch \in Units
    PROVE  Says(x, process_byte(t, ch))
<1> DEFINE r == process_byte(t, ch)
<1>0. t \in Shape /\ t.line \in Seq(Units) /\ t.rejected \in Nat
  BY DEF Says, Shape
<1>e. << >> \in Seq(Units)
  OBVIOUS
<1>1. CASE Len(t.line) >= LineMax
  <2> DEFINE m == t.rejected + 1
             u == [t EXCEPT !.line = << >>, !.rejected = m]
  <2>1. r = Answer(u, "err", 1)
    BY <1>0, <1>1 DEF process_byte, Shape
  <2>2. m \in Nat
    BY <1>0
  <2> HIDE DEF m
  <2>3. SameSpeech(t, u)
    BY <1>0, <1>e, <2>2 DEF SameSpeech, Shape
  <2> HIDE DEF u, r
  <2>4. Says(x, u)
    BY <2>3, SpeechKept
  <2> QED
    BY <2>1, <2>4, AnswerEffect DEF r
<1>2. CASE ~(Len(t.line) >= LineMax) /\ ch = "nl"
  <2> DEFINE w == dispatch_line(t, StripCr(t.line))
  <2>1. r = WithLine(w, << >>)
    BY <1>2 DEF process_byte, WithLine
  <2> HIDE DEF w, r
  <2>2. Says(x, w)
    BY DispatchSays DEF w
  <2> QED
    BY <1>e, <2>1, <2>2, LineSays DEF r
<1>3. CASE ~(Len(t.line) >= LineMax) /\ ch # "nl"
  <2> DEFINE a == Append(t.line, ch)
  <2>1. r = WithLine(t, a) /\ a \in Seq(Units)
    BY <1>0, <1>3 DEF process_byte, Shape, WithLine
  <2> HIDE DEF a, r
  <2> QED
    BY <2>1, LineSays DEF r
<1> QED
  BY <1>1, <1>2, <1>3

\* Nor does a whole read.
LEMMA FeedSays ==
    ASSUME NEW x \in Seq(Reply), NEW t, Says(x, t), NEW data \in Seq(Units)
    PROVE  Says(x, monitor_commands_feed(t, data))
<1> DEFINE n == Len(data)
<1>0. n \in Nat /\ \A i \in 1..n : data[i] \in Units
  OBVIOUS
<1> HIDE DEF n
<1>1. PICK f : /\ f[0] = t
               /\ \A i \in 1..n : f[i] = process_byte(f[i - 1], data[i])
               /\ monitor_commands_feed(t, data) = f[n]
  BY <1>0, FeedRun DEF n
<1> DEFINE T == {i \in 0..n : ~Says(x, f[i])}
<1>2. T = {}
  <2> SUFFICES ASSUME T # {}
               PROVE  FALSE
    OBVIOUS
  <2>0. T \subseteq Nat
    BY <1>0
  <2>1. PICK i \in T : \A y \in T : i <= y
    BY <2>0, LeastExists
  <2>2. i # 0 /\ i \in 1..n /\ i - 1 \in 0..n /\ ~(i <= i - 1)
    BY <1>0, <1>1, <2>1
  <2>3. Says(x, f[i - 1])
    BY <2>1, <2>2
  <2>4. Says(x, process_byte(f[i - 1], data[i]))
    BY <1>0, <2>2, <2>3, ByteSays
  <2> QED
    BY <1>1, <2>1, <2>2, <2>4
<1>3. n \in 0..n
  BY <1>0
<1> QED
  BY <1>1, <1>2, <1>3

\* Nor the last line of a client that is done.
LEMMA EofSays ==
    ASSUME NEW x \in Seq(Reply), NEW t, Says(x, t)
    PROVE  Says(x, monitor_commands_flush_on_eof(t))
<1> DEFINE w == dispatch_line(t, t.line)
<1>1. monitor_commands_flush_on_eof(t) = WithLine(w, << >>)
  BY DEF monitor_commands_flush_on_eof, WithLine
<1> HIDE DEF w
<1>2. Says(x, w)
  BY DispatchSays DEF w
<1>3. << >> \in Seq(Units)
  OBVIOUS
<1> QED
  BY <1>1, <1>2, <1>3, LineSays

-----------------------------------------------------------------------------
(***************************************************************************)
(* Handlers                                                                *)
(***************************************************************************)
\* Of q, k units have gone behind x.
Moves(S, x, q, k) ==
    /\ SubSeq(q, k + 1, Len(q)) \in Seq(S)
    /\ Len(SubSeq(q, k + 1, Len(q))) = Len(q) - k
    /\ x \o SubSeq(q, 1, k) \in Seq(S)
    /\ Len(x \o SubSeq(q, 1, k)) = Len(x) + k
    /\ (x \o SubSeq(q, 1, k)) \o SubSeq(q, k + 1, Len(q)) = x \o q

\* A partial write moves the front of a queue behind what was sent before.
LEMMA MoveFront ==
    ASSUME NEW S, NEW x \in Seq(S), NEW q \in Seq(S), NEW k \in 0..Len(q)
    PROVE  Moves(S, x, q, k)
<1> DEFINE front == SubSeq(q, 1, k)
           rest == SubSeq(q, k + 1, Len(q))
<1>0. Len(q) \in Nat /\ k \in Nat /\ k <= Len(q) /\ \A i \in 1..Len(q) : q[i] \in S
  BY LenProperties, ElementOfSeq
<1>1. front \in Seq(S) /\ Len(front) = k
  <2>1. \A i \in 1..k : q[i] \in S
    BY <1>0
  <2>2. front \in Seq(S) /\ Len(front) = IF 1 <= k THEN k - 1 + 1 ELSE 0
    BY <2>1, <1>0, SubSeqProperties
  <2> QED
    BY <2>2, <1>0
<1>2. rest \in Seq(S) /\ Len(rest) = Len(q) - k
  <2>1. \A i \in (k + 1)..Len(q) : q[i] \in S
    BY <1>0
  <2>2. rest \in Seq(S) /\ Len(rest) = IF k + 1 <= Len(q) THEN Len(q) - (k + 1) + 1 ELSE 0
    BY <2>1, <1>0, SubSeqProperties
  <2> QED
    BY <2>2, <1>0
<1>3. front \o rest = q
  <2>1. front \o rest = SubSeq(q, 1, Len(q))
    <3>1. 1 \in 1..(Len(q) + 1) /\ k \in (1 - 1)..Len(q) /\ Len(q) \in k..Len(q)
      BY <1>0
    <3> QED
      BY <3>1, ConcatAdjacentSubSeq
  <2> QED
    BY <2>1, SubSeqFull
<1> HIDE DEF front, rest
<1>4. (x \o front) \o rest = x \o (front \o rest)
  <2>1. x \in Seq(S) /\ front \in Seq(S) /\ rest \in Seq(S)
    BY <1>1, <1>2
  <2> QED
    BY <2>1, ConcatAssociative
<1>5. x \o front \in Seq(S) /\ Len(x \o front) = Len(x) + k
  <2>1. Joins(x \o front, x, front) /\ x \o front \in Seq(S)
    BY <1>1, JoinedUnits, ConcatProperties
  <2> DEFINE z == x \o front
  <2> HIDE DEF z
  <2>2. Len(z) = Len(x) + Len(front)
    BY <2>1 DEF Joins, z
  <2> QED
    BY <1>1, <2>1, <2>2, Zenon DEF z
<1> QED
  BY <1>1, <1>2, <1>3, <1>4, <1>5 DEF front, rest, Moves

\* A flush changes what waits and what was sent, and may close.
Flushed(t) ==
    /\ Says(out', s') /\ out' \in Seq(Reply) /\ Len(out') >= Len(out)
    /\ s'.said = t.said /\ s'.state = t.state /\ s'.line = t.line /\ s'.owed = t.owed
    /\ s'.close_after_flush = t.close_after_flush /\ s'.ran = t.ran
    /\ open' \in BOOLEAN

\* The end of a handler.
LEMMA FinishEffect ==
    ASSUME NEW t, NEW last, Finish(t, last) \/ monitor_client_close(t), open \in BOOLEAN
    PROVE  s' = t /\ open' \in BOOLEAN
BY DEF Finish, monitor_client_close, Stay

\* Whatever part of the pending replies the socket takes, none is lost.
LEMMA FlushEffect ==
    ASSUME NEW t, Says(out, t), out \in Seq(Reply), open \in BOOLEAN,
           NEW last, NEW least \in {0, 1}, monitor_flush(t, last, least)
    PROVE  Flushed(t)
<1> DEFINE q == t.wb.q
<1>1. /\ t \in Shape /\ out \o q = t.said /\ t.wb.off = 0 /\ Len(q) <= Cap
      /\ q \in Seq(Reply) /\ Len(q) \in Nat /\ Len(out) \in Nat
  BY DEF Says, Shape
<1>2. CASE out' = out /\ s' = t /\ open' \in BOOLEAN
  BY <1>1, <1>2 DEF Flushed
<1>3. ASSUME NEW n \in least..Len(q), out' = out \o buffer_peek(t.wb, n),
             Finish(IF n = 0 THEN t
                    ELSE [t EXCEPT !.wb = buffer_compact(buffer_read_adv(@, n))], last)
      PROVE  Flushed(t)
  <2>1. n \in 0..Len(q)
    BY <1>1, <1>3
  <2>2. Moves(Reply, out, q, n)
    <3> HIDE DEF q
    <3> QED
      BY <1>1, <2>1, MoveFront
  <2> DEFINE rest == SubSeq(q, n + 1, Len(q))
             o == out \o SubSeq(q, 1, n)
  <2>3. /\ rest \in Seq(Reply) /\ Len(rest) = Len(q) - n
        /\ o \in Seq(Reply) /\ Len(o) = Len(out) + n /\ o \o rest = t.said
    BY <1>1, <2>2 DEF Moves
  <2>4. out' = o
    BY <1>3 DEF buffer_peek
  <2>5. CASE n = 0
    <3>1. s' = t /\ open' \in BOOLEAN
      BY <1>3, <2>5, FinishEffect
    <3>2. SubSeq(q, 1, 0) = << >>
      BY <1>1
    <3>3. o = out
      BY <2>5, <3>2
    <3> QED
      BY <1>2, <2>4, <3>1, <3>3
  <2>6. CASE n # 0
    <3> DEFINE u == [t EXCEPT !.wb = [q |-> rest, off |-> 0]]
    <3>1. [t EXCEPT !.wb = buffer_compact(buffer_read_adv(@, n))] = u
      BY <1>1 DEF buffer_compact, buffer_read_adv, Shape
    <3>2. s' = u /\ open' \in BOOLEAN
      BY <1>3, <2>6, <3>1, FinishEffect
    <3> HIDE DEF rest, o, q
    <3>3. /\ u \in Shape /\ u.wb.q = rest /\ u.wb.off = 0 /\ u.said = t.said
          /\ u.state = t.state /\ u.line = t.line /\ u.owed = t.owed
          /\ u.close_after_flush = t.close_after_flush /\ u.ran = t.ran
      BY <1>1, <2>3 DEF Shape
    <3> HIDE DEF u
    <3>4. Len(rest) <= Cap /\ Len(o) >= Len(out)
      BY <1>1, <2>1, <2>3, CapAssumption
    <3>5. Says(o, u)
      BY <2>3, <3>3, <3>4 DEF Says
    <3> QED
      BY <2>3, <2>4, <3>2, <3>3, <3>4, <3>5 DEF Flushed
  <2> QED
    BY <2>5, <2>6
<1>4. CASE ~buffer_can_read(t.wb) /\ Finish(t, last) /\ UNCHANGED out
  BY <1>2, <1>4, FinishEffect
<1>5. CASE buffer_can_read(t.wb) /\ monitor_client_close(t) /\ UNCHANGED out
  BY <1>2, <1>5, FinishEffect
<1> QED
  BY <1>3, <1>4, <1>5 DEF monitor_flush

\* A handler of the server leaves the invariant.
LEMMA ServerStep ==
    ASSUME Inv, monitor_client_read \/ monitor_client_write
    PROVE  Inv'
<1>1. /\ Says(out, s) /\ open \in BOOLEAN /\ input \in Seq(Units)
      /\ nread \in 0..Len(input) /\ out \in Seq(Reply)
  BY DEF Inv
<1>2. CASE ReadData
  <2>1. PICK k \in (nread + 1)..Len(input) :
           /\ nread' = k /\ input' = input
           /\ monitor_flush(monitor_commands_feed(s, SubSeq(input, nread + 1, k)), FALSE, 0)
    BY <1>2 DEF ReadData
  <2> DEFINE data == SubSeq(input, nread + 1, k)
             t == monitor_commands_feed(s, data)
  <2>2. data \in Seq(Units)
    <3>1. nread + 1 \in 1..Len(input) /\ k \in 1..Len(input)
      BY <1>1, <2>1
    <3>2. \A i \in (nread + 1)..k : input[i] \in Units
      BY <1>1, <2>1, <3>1
    <3> QED
      BY <1>1, <3>1, <3>2, SubSeqProperties
  <2> HIDE DEF data
  <2>3. Says(out, t)
    BY <1>1, <2>2, FeedSays
  <2>4. Flushed(t)
    <3>1. monitor_flush(t, FALSE, 0)
      BY <2>1 DEF data
    <3> HIDE DEF t
    <3> QED
      BY <1>1, <2>3, <3>1, FlushEffect
  <2> HIDE DEF t
  <2>5. nread' \in 0..Len(input')
    BY <1>1, <2>1
  <2> QED
    BY <1>1, <2>1, <2>4, <2>5 DEF Inv, Flushed
<1>3. CASE ReadEof
  <2> DEFINE t == monitor_commands_flush_on_eof(s)
  <2>1. monitor_flush(t, TRUE, 0) /\ UNCHANGED <<input, nread>>
    BY <1>3 DEF ReadEof
  <2>2. Says(out, t)
    BY <1>1, EofSays
  <2> HIDE DEF t
  <2>3. Flushed(t)
    BY <1>1, <2>1, <2>2, FlushEffect
  <2> QED
    BY <1>1, <2>1, <2>3 DEF Inv, Flushed
<1>4. CASE ReadError
  BY <1>1, <1>4 DEF ReadError, monitor_client_close, Inv
<1>5. CASE monitor_client_write
  <2>1. monitor_flush(s, FALSE, 1) /\ UNCHANGED <<input, nread>>
    BY <1>5 DEF monitor_client_write
  <2>2. Flushed(s)
    BY <1>1, <2>1, FlushEffect
  <2> QED
    BY <1>1, <2>1, <2>2 DEF Inv, Flushed
<1> QED
  BY <1>2, <1>3, <1>4, <1>5 DEF monitor_client_read

\* A step of a client leaves the session alone and may add to its input.
LEMMA ClientStep ==
    ASSUME Inv, UNCHANGED <<s, open, nread, out>>,
           input' = input \/ \E y \in Seq(Units) : input' = input \o y
    PROVE  Inv'
<1>1. /\ Says(out, s) /\ open \in BOOLEAN /\ input \in Seq(Units)
      /\ nread \in 0..Len(input) /\ out \in Seq(Reply)
  BY DEF Inv
<1>2. CASE input' = input
  BY <1>1, <1>2 DEF Inv
<1>3. ASSUME NEW y \in Seq(Units), input' = input \o y
      PROVE  Inv'
  <2>1. Joins(input', input, y)
    BY <1>1, <1>3, JoinedUnits
  <2>2. input' \in Seq(Units)
    BY <1>1, <1>3
  <2>3. nread \in 0..Len(input')
    BY <1>1, <2>1 DEF Joins
  <2> QED
    BY <1>1, <2>2, <2>3 DEF Inv
<1> QED
  BY <1>2, <1>3

\* The texts of the program's commands, with their newlines.
Texts == {<<"AUTH">>, Refused, <<"SET">>, <<"LIST">>, <<"QUIT">>}

\* They are lines of commands only.
LEMMA TextUnits ==
    ASSUME NEW text \in Texts
    PROVE  /\ text \in Seq(Units) /\ Line(text) \in Seq(Units)
           /\ Len(text) \in {1, 2} /\ Len(Line(text)) = Len(text) + 1
           /\ \A i \in 1..Len(text) : text[i] \in Verbs /\ Line(text)[i] = text[i]
           /\ Line(text)[Len(text) + 1] = "nl"
<1>a. ASSUME NEW a \in Verbs
      PROVE  <<a>> \in Seq(Units) /\ Len(<<a>>) = 1 /\ <<a>>[1] \in Verbs
  BY DEF Units
<1>b. ASSUME NEW a \in Verbs, NEW b \in Verbs
      PROVE  /\ <<a, b>> \in Seq(Units) /\ Len(<<a, b>>) = 2
             /\ <<a, b>>[1] \in Verbs /\ <<a, b>>[2] \in Verbs
  BY DEF Units
<1>c. {"AUTH", "SET", "LIST", "QUIT"} \subseteq Verbs
  BY DEF Verbs
<1>1. text \in Seq(Units) /\ Len(text) \in {1, 2} /\ \A i \in 1..Len(text) : text[i] \in Verbs
  <2>1. CASE text = Refused
    <3>1. text = <<"AUTH", "AUTH">>
      BY <2>1 DEF Refused
    <3>2. text \in Seq(Units) /\ Len(text) = 2 /\ text[1] \in Verbs /\ text[2] \in Verbs
      BY <3>1, <1>b, <1>c
    <3> QED
      BY <3>2
  <2>2. ASSUME NEW a \in {"AUTH", "SET", "LIST", "QUIT"}, text = <<a>>
        PROVE  text \in Seq(Units) /\ Len(text) = 1 /\ text[1] \in Verbs
    BY <2>2, <1>a, <1>c
  <2>3. text = Refused \/ \E a \in {"AUTH", "SET", "LIST", "QUIT"} : text = <<a>>
    BY DEF Texts
  <2> QED
    BY <2>1, <2>2, <2>3
<1>2. <<"nl">> \in Seq(Units) /\ Len(<<"nl">>) = 1 /\ <<"nl">>[1] = "nl" /\ 1 \in 1..1
  BY DEF Units
<1> DEFINE e == <<"nl">>
<1>3. Line(text) = text \o e
  BY DEF Line
<1> HIDE DEF e
<1>4. Joins(Line(text), text, e)
  BY <1>1, <1>2, <1>3, JoinedUnits DEF e
<1>5. Line(text) \in Seq(Units)
  BY <1>1, <1>2, <1>3, ConcatProperties DEF e
<1>6. Len(e) = 1 /\ e[1] = "nl" /\ 1 \in 1..Len(e)
  BY <1>2 DEF e
<1>7. Line(text)[Len(text) + 1] = "nl"
  BY <1>4, <1>6 DEF Joins
<1> QED
  BY <1>1, <1>4, <1>5, <1>6, <1>7 DEF Joins

\* A session starts with the greeting.
LEMMA InitInv == Init => Inv /\ s.owed = 1 /\ Owes(s.said, 0, "ok", 1) /\ s.line = << >>
<1> SUFFICES ASSUME Init
             PROVE  Inv /\ s.owed = 1 /\ Owes(s.said, 0, "ok", 1) /\ s.line = << >>
  OBVIOUS
<1> DEFINE t == monitor_commands_session_init
<1>1. t \in Shape /\ t.wb.q = << >> /\ t.wb.off = 0 /\ t.said = << >> /\ t.owed = 0
      /\ t.line = << >>
  BY DEF monitor_commands_session_init, buffer_init, Shape
<1>2. << >> \in Seq(Reply) /\ Len(<< >>) = 0 /\ << >> \o << >> = << >>
  OBVIOUS
<1> HIDE DEF t
<1>3. Says(<< >>, t)
  BY <1>1, <1>2, CapAssumption DEF Says
<1>4. s = Answer(t, "ok", 1) /\ out = << >> /\ open = TRUE /\ input = << >> /\ nread = 0
  BY DEF Init, monitor_commands_queue_greeting, t
<1>5. Says(<< >>, s)
  BY <1>2, <1>3, <1>4, AnswerEffect
<1>6. Answers(t, s, "ok", 1)
  BY <1>2, <1>3, <1>4, AnswerEffect
<1>7. 2 * 1 + 1 <= Cap
  BY MonitorAssumption, CapAssumption
<1>8. s.owed = 1 /\ s.line = << >> /\ Owes(s.said, 0, "ok", 1)
  BY <1>1, <1>2, <1>6, <1>7 DEF Answers
<1>9. input \in Seq(Units) /\ nread \in 0..Len(input)
  BY <1>4
<1> QED
  BY <1>2, <1>4, <1>5, <1>8, <1>9 DEF Inv

\* What a command of the program does to the session: it waits in its input.
LEMMA CommandStep ==
    ASSUME NEW text \in Texts, NEW screen, NEW max, Command(text, screen, max)
    PROVE  /\ UNCHANGED <<s, open, nread, out, peer>>
           /\ \E y \in Seq(Units) : input' = input \o y
BY TextUnits DEF Command

\* Every step of the program but a command leaves the session's side alone.
LEMMA ToolStepEffect ==
    ASSUME ToolStep
    PROVE  /\ UNCHANGED <<s, open, nread, out>>
           /\ input' = input \/ \E y \in Seq(Units) : input' = input \o y
<1>1. ASSUME NEW text \in Texts, NEW max, Command(text, tool.at, max)
      PROVE  UNCHANGED <<s, open, nread, out>> /\ \E y \in Seq(Units) : input' = input \o y
  BY <1>1, CommandStep
<1>2. CASE read_response
  BY <1>2 DEF read_response, vars
<1>3. CASE Close
  BY <1>3 DEF Close
<1>4. CASE screen_login
  BY <1>1, <1>3, <1>4 DEF screen_login, cmd_simple, Texts
<1>5. CASE fetch_config_values
  BY <1>1, <1>5 DEF fetch_config_values, cmd_config_get, cmd_simple, Texts
<1>6. CASE screen_main_menu
  <2>1. CASE screen_list
    BY <1>1, <2>1 DEF screen_list, cmd_list, Texts
  <2>2. CASE screen_change
    BY <1>1, <2>2 DEF screen_change, cmd_simple, Texts
  <2>3. CASE cmd_quit
    BY <2>3, CommandStep DEF cmd_quit, Texts
  <2> QED
    BY <1>6, <2>1, <2>2, <2>3 DEF screen_main_menu
<1>7. CASE Disconnect \/ sigint_handler
  BY <1>3, <1>7 DEF Disconnect, sigint_handler
<1> QED
  BY <1>2, <1>4, <1>5, <1>6, <1>7 DEF ToolStep

\* Every step keeps the invariant, whatever is at the other end.
LEMMA StepInv == Inv /\ [ToolNext]_toolVars => Inv'
<1> SUFFICES ASSUME Inv, [ToolNext]_toolVars
             PROVE  Inv'
  OBVIOUS
<1>1. CASE monitor_client_read \/ monitor_client_write
  BY <1>1, ServerStep
<1>2. CASE ClientSend
  <2>1. PICK u \in Units : input' = Append(input, u)
    BY <1>2 DEF ClientSend
  <2>2. input \in Seq(Units)
    BY DEF Inv
  <2>3. Append(input, u) = input \o <<u>> /\ <<u>> \in Seq(Units)
    BY <2>2, AppendIsConcat
  <2> QED
    BY <1>2, <2>1, <2>3, ClientStep DEF ClientSend
<1>3. CASE ClientShut \/ ClientReset
  BY <1>3, ClientStep DEF ClientShut, ClientReset
<1>4. CASE ToolStep
  BY <1>4, ToolStepEffect, ClientStep
<1>5. CASE UNCHANGED toolVars
  BY <1>5, ClientStep DEF toolVars, vars
<1> QED
  BY <1>1, <1>2, <1>3, <1>4, <1>5 DEF ToolNext

\* In every reachable state of a monitor session, with any client.
THEOREM Invariance == ToolSpec => []Inv
<1>1. ToolInit => Inv
  BY InitInv DEF ToolInit
<1> QED
  BY <1>1, StepInv, PTL DEF ToolSpec

\* Over every partial write, and with replies dropped whole when the buffer is
\* full, the client receives what the commands said, in order.
THEOREM RepliesAreExact == ToolSpec => []RepliesExact
<1>1. Inv => RepliesExact
  BY DEF Inv, Says, RepliesExact
<1> QED
  BY <1>1, Invariance, PTL

\* The server closes no healthy connection with a reply still to send.
THEOREM NoReplyIsLost == ToolSpec => NoReplyLost
<1>1. ASSUME NEW t, NEW last, NEW least, monitor_flush(t, last, least),
             peer # "reset", open, ~open'
      PROVE  ~buffer_can_read(s'.wb)
  <2>1. ASSUME NEW u, Finish(u, last)
        PROVE  ~buffer_can_read(s'.wb)
    BY <1>1, <2>1 DEF Finish, Stay, monitor_client_close, monitor_commands_should_close
  <2> QED
    BY <1>1, <2>1 DEF monitor_flush
<1>2. ASSUME [ToolNext]_toolVars, peer # "reset", open, ~open'
      PROVE  ~buffer_can_read(s'.wb)
  <2>1. CASE ReadData
    BY <1>1, <1>2, <2>1 DEF ReadData
  <2>2. CASE ReadEof
    BY <1>1, <1>2, <2>2 DEF ReadEof
  <2>3. CASE ReadError
    BY <1>2, <2>3 DEF ReadError
  <2>4. CASE monitor_client_write
    BY <1>1, <1>2, <2>4 DEF monitor_client_write
  <2>5. CASE ClientSend \/ ClientShut \/ ClientReset
    BY <1>2, <2>5 DEF ClientSend, ClientShut, ClientReset
  <2>6. CASE ToolStep
    BY <1>2, <2>6, ToolStepEffect
  <2>7. CASE UNCHANGED toolVars
    BY <1>2, <2>7 DEF toolVars, vars
  <2> QED
    BY <1>2, <2>1, <2>2, <2>3, <2>4, <2>5, <2>6, <2>7 DEF ToolNext, monitor_client_read
<1>3. [ToolNext]_toolVars =>
         [open /\ ~open' /\ peer # "reset" => ~buffer_can_read(s.wb)']_vars
  BY <1>2
<1> QED
  BY <1>3, PTL DEF ToolSpec, NoReplyLost

-----------------------------------------------------------------------------
(***************************************************************************)
(* The dialogue of the client program with the session                     *)
(***************************************************************************)
Tool == [at : {"raw", "greeting", "login", "config", "menu", "quit", "gone"},
         waiting : BOOLEAN, max : Nat, lines : Nat, failed : BOOLEAN,
         got : Nat, left : Nat, sent : Nat]

\* The command a screen waits for, and the lines its answer may have.
AskedBy(screen, max, text) ==
    \/ screen = "login" /\ text \in {<<"AUTH">>, Refused} /\ max = 2
    \/ screen = "config" /\ text = <<"SET">> /\ max = 2
    \/ screen = "menu" /\ text \in {<<"SET">>, Refused} /\ max = 2
    \/ screen = "menu" /\ text = <<"LIST">> /\ max = MaxRespLines
    \/ screen = "quit" /\ text = <<"QUIT">> /\ max = 0

\* The line holds the first j units of the command's text.
Typed(line, text, j) == Len(line) = j /\ \A i \in 1..j : line[i] = text[i]

\* The units after nr of inp are those of the command after the first j.
Coming(inp, nr, text, j) ==
    /\ Len(inp) = nr + (Len(text) + 1 - j)
    /\ \A i \in 1..(Len(text) + 1 - j) : inp[nr + i] = Line(text)[j + i]

\* The server has read j units of the command, and not its end.
AskingFor(text, j) ==
    /\ AskedBy(tool.at, tool.max, text)
    /\ Typed(s.line, text, j)
    /\ Coming(input, nread, text, j)

Asking ==
    /\ s.owed = tool.sent
    /\ tool.got = Len(s.said)
    /\ tool.lines = 0
    /\ ~tool.failed
    /\ \E text \in Texts : \E j \in 0..Len(text) : AskingFor(text, j)

\* The server has answered, and k lines of the answer are left to read: the
\* program accepts that many, and cmd_auth is told what the server did.
Left(v, k) ==
    /\ Owes(s.said, tool.got, v, k)
    /\ tool.max > 0 => tool.lines + k < tool.max
    /\ tool.at = "login" =>
          /\ tool.lines + k = 1
          /\ v = "ok" => s.state = "AUTHENTICATED"
          /\ tool.lines = 1 /\ ~tool.failed => v = "ok"

\* All that the program sent is answered.
Served ==
    /\ s.owed = tool.sent + 1
    /\ nread = Len(input)
    /\ s.line = << >>

Answering == Served /\ \E v \in {"ok", "err"} : \E k \in Nat : Left(v, k)

Idle == Served /\ tool.got = Len(s.said)

\* The server admitted the program to the menu.
Admitted == tool.at \in {"config", "menu", "quit"} => s.state = "AUTHENTICATED"

Live == tool.at \notin {"raw", "gone"}

\* The dialogue: a command on its way, its answer on its way, or neither.
Dialogue ==
    Live =>
       /\ tool.got <= Len(out)
       /\ peer = "open"
       /\ Admitted
       /\ IF tool.waiting THEN Asking \/ Answering ELSE Idle

\* The inductive invariant of the program and its session.
Talk == Inv /\ tool \in Tool /\ (AnswersFit => Dialogue)

\* The session has read a text up to its unit j, and said nothing.
Typing(x, t, r, text, j) ==
    Says(x, r) /\ SameSpeech(t, r) /\ r.state = t.state /\ Typed(r.line, text, j)

\* A unit of a command's text joins the line.
LEMMA TypedMore ==
    ASSUME NEW x \in Seq(Reply), NEW t, Says(x, t), NEW text \in Texts, LineMax >= 3,
           NEW j \in Nat, j < Len(text), Typed(t.line, text, j),
           NEW r, r = process_byte(t, text[j + 1])
    PROVE  Typing(x, t, r, text, j + 1)
<1> DEFINE ch == text[j + 1]
           a == Append(t.line, ch)
<1>1. t \in Shape /\ t.line \in Seq(Units) /\ Len(t.line) = j
  BY DEF Says, Shape, Typed
<1>2. Len(text) \in {1, 2} /\ j + 1 \in 1..Len(text)
  BY TextUnits
<1>3. ch \in Verbs
  BY <1>2, TextUnits
<1>4. ch \in Units /\ ch # "nl"
  BY <1>3 DEF Units, Verbs
<1>5. ~(Len(t.line) >= LineMax)
  BY <1>1, <1>2, MonitorAssumption
<1>6. r = WithLine(t, a)
  BY <1>1, <1>4, <1>5 DEF process_byte, WithLine, Shape
<1>7. a \in Seq(Units) /\ Len(a) = j + 1 /\ a[j + 1] = ch /\ \A i \in 1..j : a[i] = t.line[i]
  <2> HIDE DEF ch
  <2> QED
    BY <1>1, <1>4, AppendProperties
<1> HIDE DEF a
<1>8. Says(x, r) /\ SameSpeech(t, r)
  BY <1>6, <1>7, LineSays
<1>9. r.line = a /\ r.state = t.state
  BY <1>1, <1>6 DEF WithLine, Shape
<1>10. Typed(a, text, j + 1)
  <2>1. \A i \in 1..j : a[i] = text[i]
    BY <1>7 DEF Typed
  <2>2. \A i \in 1..(j + 1) : i \in 1..j \/ i = j + 1
    OBVIOUS
  <2> QED
    BY <1>7, <2>1, <2>2 DEF Typed
<1> QED
  BY <1>8, <1>9, <1>10 DEF Typing

\* A line that holds a whole command is that command.
LEMMA TypedWhole ==
    ASSUME NEW line \in Seq(Units), NEW text \in Texts, Typed(line, text, Len(text))
    PROVE  /\ line = text /\ StripCr(line) = text
           /\ split_line(text) # "none"
           /\ text \in {<<"AUTH">>, Refused} => split_line(text) \in {"AUTH", "other"}
           /\ text # <<"LIST">> => split_line(text) # "LIST"
           /\ text = <<"LIST">> => split_line(text) = "LIST"
<1>1. /\ text \in Seq(Units) /\ Len(text) \in {1, 2}
      /\ \A i \in 1..Len(text) : text[i] \in Verbs
  BY TextUnits
<1>2. line = text
  BY <1>1, SeqEqual DEF Typed
<1>3. text # << >> /\ Last(text) = text[Len(text)]
  <2>0. Len(<< >>) = 0
    OBVIOUS
  <2> DEFINE n == Len(text)
  <2>1. n \in {1, 2}
    BY <1>1
  <2> HIDE DEF n
  <2>2. n # 0
    BY <2>1
  <2>3. text # << >>
    BY <2>0, <2>2 DEF n
  <2>4. Last(text) = text[Len(text)]
    BY Zenon DEF Last
  <2> QED
    BY <2>3, <2>4
<1>4. Len(text) \in 1..Len(text)
  <2> DEFINE n == Len(text)
  <2>1. n \in {1, 2}
    BY <1>1
  <2> HIDE DEF n
  <2>2. n \in 1..n
    BY <2>1
  <2> QED
    BY <2>2 DEF n
<1>5. Last(text) # "cr"
  BY <1>1, <1>3, <1>4 DEF Verbs
<1>6. StripCr(line) = text
  BY <1>2, <1>5 DEF StripCr
<1>7. Len(text) = 1 => split_line(text) = text[1] /\ text[1] \in Verbs
  BY <1>1, <1>3 DEF split_line, Verbs
<1>9. split_line(text) # "none"
  BY <1>1, <1>3 DEF split_line, Verbs
<1>10. CASE text = Refused
  <2>1. Len(text) = 2 /\ text[1] = "AUTH"
    BY <1>10 DEF Refused
  <2>3. split_line(text) = "other"
    BY <1>3, <2>1 DEF split_line
  <2>2. text # <<"LIST">>
    BY <2>1
  <2> QED
    BY <1>2, <1>6, <1>9, <2>2, <2>3
<1>11. ASSUME NEW a \in {"AUTH", "SET", "LIST", "QUIT"}, text = <<a>>
       PROVE  /\ text \in {<<"AUTH">>, Refused} => split_line(text) \in {"AUTH", "other"}
              /\ text # <<"LIST">> => split_line(text) # "LIST"
              /\ text = <<"LIST">> => split_line(text) = "LIST"
  <2>1. Len(text) = 1 /\ text[1] = a
    BY <1>11
  <2>2. text # Refused
    BY <2>1 DEF Refused
  <2>3. split_line(text) = a
    BY <1>7, <2>1
  <2>4. text = <<"AUTH">> => a = "AUTH"
    BY <2>1
  <2>5. text = <<"LIST">> => a = "LIST"
    BY <2>1
  <2>6. a = "LIST" => text = <<"LIST">>
    BY <1>11
  <2> QED
    BY <2>2, <2>3, <2>4, <2>5, <2>6
<1>12. text = Refused \/ \E a \in {"AUTH", "SET", "LIST", "QUIT"} : text = <<a>>
  BY DEF Texts
<1> QED
  BY <1>2, <1>6, <1>9, <1>10, <1>11, <1>12

\* The newline of a command answers it.
LEMMA CommandEnds ==
    ASSUME NEW x \in Seq(Reply), NEW t, Says(x, t), NEW text \in Texts, LineMax >= 3,
           Typed(t.line, text, Len(text)), NEW r, r = process_byte(t, "nl")
    PROVE  Says(x, r) /\ r.line = << >> /\ Replied(t, r, split_line(text))
<1> DEFINE cmd == split_line(text)
           w == dispatch_line(t, text)
<1>1. t \in Shape /\ t.line \in Seq(Units) /\ Len(t.line) = Len(text)
  BY DEF Says, Shape, Typed
<1>2. StripCr(t.line) = text /\ cmd # "none"
  BY <1>1, TypedWhole
<1>3. ~(Len(t.line) >= LineMax)
  <2>1. Len(text) \in {1, 2}
    BY TextUnits
  <2> DEFINE n == Len(t.line)
  <2>2. n \in {1, 2}
    BY <1>1, <2>1
  <2> HIDE DEF n
  <2>3. ~(n >= LineMax)
    BY <2>2, MonitorAssumption
  <2> QED
    BY <2>3 DEF n
<1>4. r = WithLine(w, << >>)
  BY <1>2, <1>3 DEF process_byte, WithLine
<1> HIDE DEF w, cmd
<1>5. Says(x, w) /\ Replied(t, w, cmd)
  BY <1>2, DispatchReplies DEF w, cmd
<1>6. << >> \in Seq(Units)
  OBVIOUS
<1>7. Says(x, r) /\ SameSpeech(w, r)
  BY <1>4, <1>5, <1>6, LineSays
<1>8. r.line = << >> /\ r.state = w.state
  BY <1>4, <1>5 DEF Says, Shape, WithLine
<1>9. r.said = w.said /\ r.owed = w.owed
  BY <1>7 DEF SameSpeech
<1>10. Replied(t, r, cmd)
  BY <1>5, <1>8, <1>9 DEF Replied
<1> QED
  BY <1>7, <1>8, <1>10 DEF cmd

\* A session that has only read part of the text answers as the one before.
LEMMA RepliedSame ==
    ASSUME NEW t, NEW u, NEW r, NEW cmd, SameSpeech(t, u), u.state = t.state,
           Replied(u, r, cmd)
    PROVE  Replied(t, r, cmd)
BY DEF SameSpeech, Replied

\* The n units of data follow the first j of a command.
Part(text, j, data, n) ==
    /\ Len(data) = n
    /\ j + n <= Len(text) + 1
    /\ \A i \in 1..n : data[i] = Line(text)[j + i]

\* However a command is cut into reads: until its end has come the session only
\* holds its first units, and with its end it gives its answer.
LEMMA CommandFed ==
    ASSUME NEW x \in Seq(Reply), NEW t, Says(x, t), NEW text \in Texts, LineMax >= 3,
           NEW j \in 0..Len(text), Typed(t.line, text, j),
           NEW data \in Seq(Units), NEW n, Part(text, j, data, n),
           NEW r, r = monitor_commands_feed(t, data)
    PROVE  /\ j + n <= Len(text) => Typing(x, t, r, text, j + n)
           /\ j + n = Len(text) + 1 =>
                 Says(x, r) /\ r.line = << >> /\ Replied(t, r, split_line(text))
<1> DEFINE m == Len(text)
<1>p. n = Len(data) /\ j + n <= m + 1 /\ \A i \in 1..n : data[i] = Line(text)[j + i]
  BY DEF Part
<1>0. n \in Nat /\ m \in {1, 2} /\ j \in 0..m /\ j + n <= m + 1
  BY <1>p, TextUnits
<1>t. /\ \A i \in 1..m : Line(text)[i] = text[i]
      /\ Line(text)[m + 1] = "nl"
  BY TextUnits
<1>f. PICK f : /\ f[0] = t
               /\ \A i \in 1..Len(data) : f[i] = process_byte(f[i - 1], data[i])
               /\ monitor_commands_feed(t, data) = f[Len(data)]
  <2>1. Len(data) \in Nat
    BY <1>0
  <2> QED
    BY <2>1, FeedRun
<1>1. /\ f[0] = t
      /\ \A i \in 1..n : f[i] = process_byte(f[i - 1], data[i])
      /\ r = f[n]
  BY <1>f, <1>p
<1> HIDE DEF m
<1> DEFINE T == {i \in 0..n : j + i <= m /\ ~Typing(x, t, f[i], text, j + i)}
<1>2. T = {}
  <2> SUFFICES ASSUME T # {}
               PROVE  FALSE
    OBVIOUS
  <2>0. T \subseteq Nat
    BY <1>0
  <2>1. PICK i \in T : \A y \in T : i <= y
    BY <2>0, LeastExists
  <2>2. i # 0
    <3>1. SameSpeech(t, t)
      BY DEF SameSpeech, Says
    <3>2. Typing(x, t, t, text, j)
      BY <3>1 DEF Typing
    <3>3. j + 0 = j
      BY <1>0
    <3> QED
      BY <1>1, <2>1, <3>2, <3>3
  <2>3. /\ i \in 1..n /\ i - 1 \in 0..n /\ ~(i <= i - 1) /\ j + (i - 1) <= m
        /\ j + i \in 1..m /\ j + i <= m
    BY <1>0, <2>1, <2>2
  <2> DEFINE u == f[i - 1]
             l == j + (i - 1)
  <2>4. Typing(x, t, u, text, l)
    BY <2>1, <2>3
  <2>5. l \in Nat /\ l < m /\ l + 1 = j + i
    BY <1>0, <2>3
  <2>6. f[i] = process_byte(u, text[l + 1])
    BY <1>1, <1>p, <1>t, <2>3, <2>5
  <2> HIDE DEF u, l
  <2>7. Says(x, u) /\ Typed(u.line, text, l)
    BY <2>4 DEF Typing
  <2>8. Typing(x, u, f[i], text, l + 1)
    BY <2>5, <2>6, <2>7, TypedMore DEF m
  <2>9. Typing(x, t, f[i], text, j + i)
    BY <2>4, <2>5, <2>8 DEF Typing, SameSpeech
  <2> QED
    BY <2>1, <2>9
<1>3. CASE j + n <= m
  <2>1. n \in 0..n /\ ~(j + n = m + 1)
    BY <1>0, <1>3
  <2>2. Typing(x, t, f[n], text, j + n)
    BY <1>2, <1>3, <2>1
  <2> QED
    BY <1>1, <2>1, <2>2 DEF m
<1>4. CASE j + n = m + 1
  <2>1. n \in 1..n /\ n - 1 \in 0..n /\ j + (n - 1) = m /\ j + (n - 1) <= m /\ ~(j + n <= m)
    BY <1>0, <1>4
  <2> DEFINE u == f[n - 1]
  <2>2. Typing(x, t, u, text, m)
    <3>1. Typing(x, t, u, text, j + (n - 1))
      BY <1>2, <2>1
    <3> QED
      BY <2>1, <3>1
  <2>3. r = process_byte(u, "nl")
    BY <1>1, <1>4, <1>p, <1>t, <2>1
  <2> HIDE DEF u
  <2>4. Says(x, u) /\ Typed(u.line, text, Len(text)) /\ SameSpeech(t, u) /\ u.state = t.state
    BY <2>2 DEF Typing, m
  <2>5. Says(x, r) /\ r.line = << >> /\ Replied(u, r, split_line(text))
    BY <2>3, <2>4, CommandEnds
  <2>6. Replied(t, r, split_line(text))
    BY <2>4, <2>5, RepliedSame
  <2> QED
    BY <2>1, <2>5, <2>6 DEF m
<1>5. j + n <= m \/ j + n = m + 1
  BY <1>0
<1> QED
  BY <1>3, <1>4, <1>5

\* A program that has read all that was said is owed nothing that waits.
LEMMA AllRead ==
    ASSUME Inv, tool \in Tool, tool.got <= Len(out), tool.got = Len(s.said)
    PROVE  s.wb.q = << >> /\ tool.got = Len(out)
<1> DEFINE q == s.wb.q
<1>1. /\ out \o q = s.said /\ out \in Seq(Reply) /\ q \in Seq(Reply)
  BY DEF Inv, Says, Shape
<1> HIDE DEF q
<1>2. Joins(s.said, out, q)
  BY <1>1, JoinedUnits
<1>3. /\ Len(s.said) = Len(out) + Len(q) /\ Len(out) \in Nat /\ Len(q) \in Nat
  BY <1>2 DEF Joins
<1>4. Len(q) = 0 /\ tool.got = Len(out)
  BY <1>3
<1> QED
  BY <1>1, <1>4, EmptySeq DEF q

\* The server's part when the whole command has come: its answer.
LEMMA AnswerBegins ==
    ASSUME Inv, tool \in Tool, AnswersFit, tool.got <= Len(out), Admitted,
           Asking, NEW text \in Texts, AskedBy(tool.at, tool.max, text),
           NEW line \in Seq(Units), Typed(line, text, Len(text)),
           NEW t, Replied(s, t, split_line(text)), t.line = << >>, Flushed(t),
           input' = input, nread' = Len(input), peer' = peer, tool' = tool
    PROVE  Answering' /\ Admitted'
<1> DEFINE cmd == split_line(text)
<1>1. /\ text \in {<<"AUTH">>, Refused} => cmd \in {"AUTH", "other"}
      /\ text # <<"LIST">> => cmd # "LIST"
      /\ text = <<"LIST">> => cmd = "LIST"
  BY TypedWhole
<1>2. s.wb.q = << >> /\ tool.got = Len(s.said) /\ s.owed = tool.sent
      /\ tool.lines = 0 /\ ~tool.failed
  BY AllRead DEF Asking
<1> HIDE DEF cmd
<1>3. PICK v \in {"ok", "err"} : \E n \in Nat :
         /\ n = IF cmd = "LIST" /\ s.state = "AUTHENTICATED" THEN ListLines ELSE 1
         /\ t.owed = s.owed + 1
         /\ t.state \in {s.state, "AUTHENTICATED"}
         /\ cmd \in {"AUTH", "other"} /\ v = "ok" => t.state = "AUTHENTICATED"
         /\ s.wb.q = << >> /\ 2 * n + 1 <= Cap => Owes(t.said, Len(s.said), v, n)
  BY DEF Replied, cmd
<1>4. PICK n \in Nat :
         /\ n = IF cmd = "LIST" /\ s.state = "AUTHENTICATED" THEN ListLines ELSE 1
         /\ t.owed = s.owed + 1
         /\ t.state \in {s.state, "AUTHENTICATED"}
         /\ cmd \in {"AUTH", "other"} /\ v = "ok" => t.state = "AUTHENTICATED"
         /\ s.wb.q = << >> /\ 2 * n + 1 <= Cap => Owes(t.said, Len(s.said), v, n)
  BY <1>3
<1>5. 2 * n + 1 <= Cap
  <2>1. CASE n = ListLines
    BY <2>1 DEF AnswersFit
  <2>2. CASE n = 1
    BY <2>2, MonitorAssumption, CapAssumption
  <2> QED
    BY <1>4, <2>1, <2>2
<1>6. /\ s'.said = t.said /\ s'.state = t.state /\ s'.line = << >> /\ s'.owed = s.owed + 1
  BY <1>4 DEF Flushed
<1>7. Owes(s'.said, tool.got, v, n)
  BY <1>2, <1>4, <1>5, <1>6
<1>8. tool.max > 0 => tool.lines + n < tool.max
  <2>1. CASE text = <<"LIST">> /\ tool.at = "menu" /\ tool.max = MaxRespLines
    <3>1. n = ListLines
      BY <1>1, <1>4, <2>1 DEF Admitted
    <3> QED
      BY <1>2, <2>1, <3>1, ClientAssumption, MonitorAssumption DEF AnswersFit
  <2>2. CASE text # <<"LIST">> /\ tool.max \in {0, 2}
    <3>1. n = 1
      BY <1>1, <1>4, <2>2
    <3> QED
      BY <1>2, <2>2, <3>1
  <2>3. /\ <<"AUTH">> # <<"LIST">> /\ <<"SET">> # <<"LIST">> /\ <<"QUIT">> # <<"LIST">>
    OBVIOUS
  <2>4. Refused # <<"LIST">>
    BY DEF Refused
  <2> QED
    BY <2>1, <2>2, <2>3, <2>4 DEF AskedBy
<1>9. ASSUME tool.at = "login"
      PROVE  /\ tool.lines + n = 1
             /\ v = "ok" => t.state = "AUTHENTICATED"
             /\ ~(tool.lines = 1)
  <2>1. text \in {<<"AUTH">>, Refused}
    BY <1>9 DEF AskedBy
  <2>2. cmd \in {"AUTH", "other"}
    BY <1>1, <2>1
  <2>3. n = 1
    BY <1>4, <2>2
  <2> QED
    BY <1>2, <1>4, <2>2, <2>3
<1>10. Left(v, n)'
  BY <1>6, <1>7, <1>8, <1>9 DEF Left
<1>11. Served'
  BY <1>2, <1>6 DEF Served
<1>12. Admitted'
  BY <1>4, <1>6 DEF Admitted
<1> QED
  BY <1>10, <1>11, <1>12 DEF Answering

\* A read of the server while the program waits.
LEMMA DialogueRead ==
    ASSUME Talk, AnswersFit, LineMax >= 3, Live, ReadData, tool' = tool
    PROVE  Dialogue'
<1>1. /\ Says(out, s) /\ open \in BOOLEAN /\ input \in Seq(Units)
      /\ nread \in 0..Len(input) /\ out \in Seq(Reply) /\ Inv /\ tool \in Tool
  BY DEF Talk, Inv
<1>2. /\ tool.got <= Len(out) /\ peer = "open" /\ Admitted
      /\ IF tool.waiting THEN Asking \/ Answering ELSE Idle
  BY DEF Talk, Dialogue
<1>3. PICK k \in (nread + 1)..Len(input) :
         /\ nread' = k /\ input' = input /\ peer' = peer
         /\ monitor_flush(monitor_commands_feed(s, SubSeq(input, nread + 1, k)), FALSE, 0)
  BY DEF ReadData
<1>4. Asking /\ tool.waiting
  <2>1. ~Served
    BY <1>1, <1>3 DEF Served
  <2> QED
    BY <1>2, <2>1 DEF Answering, Idle
<1>5. PICK text \in Texts : \E j \in 0..Len(text) : AskingFor(text, j)
  BY <1>4 DEF Asking
<1>6. PICK j \in 0..Len(text) : AskingFor(text, j)
  BY <1>5
<1>n. PICK n \in Nat : k = nread + n /\ n > 0
  <2>1. k - nread \in Nat /\ k = nread + (k - nread) /\ k - nread > 0
    BY <1>1, <1>3
  <2> QED
    BY <2>1
<1> DEFINE m == Len(text)
           data == SubSeq(input, nread + 1, k)
           t == monitor_commands_feed(s, data)
<1>7. /\ AskedBy(tool.at, tool.max, text) /\ Typed(s.line, text, j)
      /\ Coming(input, nread, text, j)
  BY <1>6 DEF AskingFor
<1>8. /\ m \in {1, 2} /\ n \in Nat /\ n > 0 /\ j \in 0..m /\ j + n <= m + 1 /\ k = nread + n
      /\ Len(input) = nread + (m + 1 - j) /\ nread \in Nat
  <2>1. Len(input) = nread + (m + 1 - j)
    BY <1>7 DEF Coming
  <2>2. m \in {1, 2}
    BY TextUnits
  <2> HIDE DEF m
  <2> QED
    BY <1>1, <1>3, <1>6, <1>n, <2>1, <2>2 DEF m
<1>9. data \in Seq(Units) /\ Len(data) = n /\ \A i \in 1..n : data[i] = input[nread + i]
  <2>1. nread + 1 \in 1..Len(input) /\ k \in 1..Len(input) /\ k - (nread + 1) + 1 = n
    BY <1>1, <1>3, <1>8
  <2> DEFINE a == nread + 1
  <2>2. \A i \in a..k : input[i] \in Units
    BY <1>1, <1>3, <2>1
  <2>3. a \in Nat /\ a <= k /\ k - a + 1 = n /\ a \in 1..Len(input) /\ k \in 1..Len(input)
    BY <1>8, <2>1
  <2>4. \A i \in 1..n : a + i - 1 = nread + i
    BY <1>8
  <2> HIDE DEF a
  <2>5. SubSeq(input, a, k) \in Seq(Units) /\ Len(SubSeq(input, a, k)) = n
    BY <1>1, <2>2, <2>3, SubSeqProperties
  <2>6. \A i \in 1..n : SubSeq(input, a, k)[i] = input[a + i - 1]
    BY <1>1, <2>3
  <2> QED
    BY <2>4, <2>5, <2>6 DEF a
<1>10. \A i \in 1..n : data[i] = Line(text)[j + i]
  <2>1. \A i \in 1..n : i \in 1..(m + 1 - j)
    BY <1>8
  <2> QED
    BY <1>7, <1>9, <2>1 DEF Coming
<1>11. monitor_flush(t, FALSE, 0)
  BY <1>3
<1>12. Says(out, t)
  <2> HIDE DEF data
  <2> QED
    BY <1>1, <1>9, FeedSays
<1> HIDE DEF data
<1>13. /\ j + n <= Len(text) => Typing(out, s, t, text, j + n)
       /\ j + n = Len(text) + 1 =>
             Says(out, t) /\ t.line = << >> /\ Replied(s, t, split_line(text))
  <2>1. Part(text, j, data, n)
    BY <1>8, <1>9, <1>10 DEF Part
  <2>2. t = monitor_commands_feed(s, data)
    OBVIOUS
  <2>3. data \in Seq(Units) /\ out \in Seq(Reply) /\ Says(out, s) /\ Typed(s.line, text, j)
    BY <1>1, <1>7, <1>9
  <2> HIDE DEF m, t
  <2> QED
    BY <2>1, <2>2, <2>3, CommandFed
<1> HIDE DEF t
<1>14. Flushed(t)
  BY <1>1, <1>11, <1>12, FlushEffect
<1>15. CASE j + n <= m
  <2>1. Typing(out, s, t, text, j + n)
    BY <1>13, <1>15
  <2>2. /\ s'.said = s.said /\ s'.owed = s.owed /\ s'.state = s.state
        /\ Typed(s'.line, text, j + n)
    BY <1>14, <2>1 DEF Flushed, Typing, SameSpeech
  <2>3. Coming(input', nread', text, j + n)
    <3>1. Len(input) = nread + n + (m + 1 - (j + n))
      BY <1>8
    <3>2. \A i \in 1..(m + 1 - (j + n)) : /\ n + i \in 1..(m + 1 - j)
                                          /\ nread + n + i = nread + (n + i)
                                          /\ j + n + i = j + (n + i)
      BY <1>8
    <3>3. \A i \in 1..(m + 1 - j) : input[nread + i] = Line(text)[j + i]
      BY <1>7 DEF Coming
    <3>4. \A i \in 1..(m + 1 - (j + n)) : input[nread + n + i] = Line(text)[j + n + i]
      BY <3>2, <3>3
    <3>5. input' = input /\ nread' = nread + n
      BY <1>3, <1>8
    <3> QED
      BY <3>1, <3>4, <3>5 DEF Coming
  <2>4. j + n \in 0..Len(text)
    BY <1>8, <1>15
  <2>5. AskingFor(text, j + n)'
    BY <1>7, <2>2, <2>3 DEF AskingFor
  <2>6. Asking'
    BY <1>4, <2>2, <2>4, <2>5 DEF Asking
  <2>7. Admitted' /\ tool'.got <= Len(out')
    <3>1. Len(out') >= Len(out) /\ Len(out') \in Nat /\ Len(out) \in Nat
      BY <1>1, <1>14 DEF Flushed
    <3>2. tool.got \in Nat
      BY <1>1 DEF Tool
    <3> QED
      BY <1>2, <2>2, <3>1, <3>2 DEF Admitted
  <2> QED
    BY <1>2, <1>3, <1>4, <2>6, <2>7 DEF Dialogue
<1>16. CASE j + n = m + 1
  <2>1. t.line = << >> /\ Replied(s, t, split_line(text)) /\ nread' = Len(input)
    BY <1>3, <1>8, <1>13, <1>16
  <2>2. text \in Seq(Units) /\ Typed(text, text, Len(text))
    BY TextUnits DEF Typed
  <2>3. Answering' /\ Admitted'
    BY <1>1, <1>2, <1>3, <1>4, <1>7, <1>14, <2>1, <2>2, AnswerBegins
  <2>4. tool'.got <= Len(out')
    <3>1. Len(out') >= Len(out) /\ Len(out') \in Nat /\ Len(out) \in Nat
      BY <1>1, <1>14 DEF Flushed
    <3>2. tool.got \in Nat
      BY <1>1 DEF Tool
    <3> QED
      BY <1>2, <3>1, <3>2
  <2> QED
    BY <1>2, <1>3, <1>4, <2>3, <2>4 DEF Dialogue
<1> QED
  BY <1>8, <1>15, <1>16

\* A write of the server changes nothing that the dialogue depends on.
LEMMA DialogueWrite ==
    ASSUME Talk, AnswersFit, Live, monitor_client_write, tool' = tool
    PROVE  Dialogue'
<1>1. /\ Says(out, s) /\ open \in BOOLEAN /\ out \in Seq(Reply) /\ tool \in Tool
  BY DEF Talk, Inv
<1>2. /\ tool.got <= Len(out) /\ peer = "open" /\ Admitted
      /\ IF tool.waiting THEN Asking \/ Answering ELSE Idle
  BY DEF Talk, Dialogue
<1>3. monitor_flush(s, FALSE, 1) /\ UNCHANGED <<input, nread, peer>>
  BY DEF monitor_client_write
<1>4. Flushed(s)
  BY <1>1, <1>3, FlushEffect
<1>5. /\ s'.said = s.said /\ s'.state = s.state /\ s'.line = s.line /\ s'.owed = s.owed
  BY <1>4 DEF Flushed
<1>6. tool'.got <= Len(out')
  <2>1. Len(out') >= Len(out) /\ Len(out') \in Nat /\ Len(out) \in Nat
    BY <1>1, <1>4 DEF Flushed
  <2>2. tool.got \in Nat
    BY <1>1 DEF Tool
  <2> QED
    BY <1>2, <2>1, <2>2
<1>7. Admitted' /\ peer' = "open"
  BY <1>2, <1>3, <1>5 DEF Admitted
<1>8. ASSUME Asking
      PROVE  Asking'
  BY <1>3, <1>5, <1>8 DEF Asking, AskingFor
<1>9. Served => Served'
  BY <1>3, <1>5 DEF Served
<1>10. ASSUME Answering
       PROVE  Answering'
  BY <1>5, <1>9, <1>10 DEF Answering, Left
<1>11. Idle => Idle'
  BY <1>5, <1>9 DEF Idle
<1> QED
  BY <1>2, <1>6, <1>7, <1>8, <1>10, <1>11 DEF Dialogue

\* The units that the program has not read.
LEMMA UnreadUnits ==
    ASSUME Inv, tool \in Tool, tool.got <= Len(out)
    PROVE  /\ Unread \in Seq(Reply) /\ Len(Unread) = Len(out) - tool.got
           /\ Len(out) \in Nat /\ tool.got \in Nat /\ Len(s.said) >= Len(out)
           /\ Len(s.said) \in Nat
           /\ Unread # << >> => Unread[1] = s.said[tool.got + 1] /\ tool.got + 1 <= Len(out)
<1> DEFINE q == s.wb.q
           g == tool.got
<1>1. /\ out \o q = s.said /\ out \in Seq(Reply) /\ q \in Seq(Reply)
  BY DEF Inv, Says, Shape
<1>2. g \in Nat /\ Len(out) \in Nat /\ g <= Len(out)
  BY <1>1 DEF Tool
<1> HIDE DEF q
<1>3. Joins(s.said, out, q)
  BY <1>1, JoinedUnits
<1>4. /\ Len(s.said) = Len(out) + Len(q) /\ Len(q) \in Nat
      /\ \A i \in 1..Len(out) : s.said[i] = out[i]
  BY <1>3 DEF Joins
<1>5. Len(s.said) >= Len(out) /\ Len(s.said) \in Nat
  BY <1>2, <1>4
<1> DEFINE u == SubSeq(out, g + 1, Len(out))
<1>6. Unread = u
  BY DEF Unread
<1> HIDE DEF g
<1>7. u \in Seq(Reply) /\ Len(u) = Len(out) - g
  <2>1. \A i \in (g + 1)..Len(out) : out[i] \in Reply
    BY <1>1, <1>2
  <2> QED
    BY <1>1, <1>2, <2>1, SubSeqProperties
<1>8. ASSUME u # << >>
      PROVE  u[1] = s.said[g + 1] /\ g + 1 <= Len(out)
  <2> DEFINE n == Len(u)
  <2>0. n # 0
    BY <1>7, <1>8, EmptySeq
  <2>1. g + 1 \in 1..Len(out)
    BY <1>2, <1>7, <2>0
  <2>2. u[1] = out[g + 1]
    BY <1>1, <1>2, <2>1
  <2>3. g + 1 <= Len(out)
    BY <2>1
  <2> HIDE DEF u
  <2> QED
    BY <1>4, <2>1, <2>2, <2>3
<1> QED
  BY <1>2, <1>5, <1>6, <1>7, <1>8 DEF g

\* The call returns to its screen with nothing changed but the screen.
LEMMA ReturnEffect ==
    ASSUME NEW t \in Tool, NEW r, r = Return(t)
    PROVE  /\ r \in Tool /\ ~r.waiting /\ r.got = t.got /\ r.sent = t.sent
           /\ \/ r.at = t.at
              \/ t.at = "greeting" /\ r.at = "login"
              \/ t.at = "login" /\ ~t.failed /\ r.at = "config"
              \/ t.at = "config" /\ r.at = "menu"
<1>1. MaxCommands \in Nat /\ ConfigCount \in Nat
  BY ClientAssumption
<1> DEFINE back == [t EXCEPT !.waiting = FALSE]
<1>2. back \in Tool /\ ~back.waiting /\ back.got = t.got /\ back.sent = t.sent /\ back.at = t.at
  BY DEF Tool
<1> HIDE DEF back
<1>3. CASE t.at = "greeting"
  <2>1. r = [back EXCEPT !.at = "login", !.left = MaxCommands]
    BY <1>3 DEF Return, back
  <2> QED
    BY <1>1, <1>2, <1>3, <2>1 DEF Tool
<1>4. CASE t.at = "login" /\ ~t.failed
  <2>1. r = [back EXCEPT !.at = "config", !.left = ConfigCount]
    BY <1>4 DEF Return, back
  <2> QED
    BY <1>1, <1>2, <1>4, <2>1 DEF Tool
<1>5. CASE t.at = "config" /\ (t.failed \/ t.left = 0)
  <2>1. r = [back EXCEPT !.at = "menu", !.left = MaxCommands]
    BY <1>5 DEF Return, back
  <2> QED
    BY <1>1, <1>2, <1>5, <2>1 DEF Tool
<1>6. CASE ~(t.at = "greeting") /\ ~(t.at = "login" /\ ~t.failed)
           /\ ~(t.at = "config" /\ (t.failed \/ t.left = 0))
  <2>1. r = back
    BY <1>6 DEF Return, back
  <2> QED
    BY <1>2, <2>1
<1> QED
  BY <1>3, <1>4, <1>5, <1>6

\* The program's state after it has read a terminator, or a line.
AtDot == [tool EXCEPT !.got = @ + 1, !.failed = @ \/ (tool.max > 0 /\ tool.lines = 0)]
AtLine == [tool EXCEPT !.got = @ + 2, !.lines = @ + 1,
                       !.failed = @ \/ (tool.lines = 0 /\ Unread[1] = "err")]

\* They are states of the program.
LEMMA AtTyped ==
    ASSUME tool \in Tool
    PROVE  /\ AtDot \in Tool /\ AtDot.got = tool.got + 1 /\ AtDot.at = tool.at
           /\ AtDot.sent = tool.sent /\ (~AtDot.failed => ~tool.failed)
           /\ AtLine \in Tool /\ AtLine.got = tool.got + 2 /\ AtLine.at = tool.at
           /\ AtLine.sent = tool.sent /\ AtLine.lines = tool.lines + 1
           /\ AtLine.max = tool.max /\ AtLine.waiting = tool.waiting
           /\ (tool.lines = 0 /\ Unread[1] = "err" => AtLine.failed)
<1> DEFINE g == tool.got + 1
           h == tool.got + 2
           l == tool.lines + 1
           a == tool.failed \/ (tool.max > 0 /\ tool.lines = 0)
           b == tool.failed \/ (tool.lines = 0 /\ Unread[1] = "err")
<1>1. g \in Nat /\ h \in Nat /\ l \in Nat
  BY DEF Tool
<1>2. tool.failed \in BOOLEAN
  BY DEF Tool
<1>3. a \in BOOLEAN /\ b \in BOOLEAN
  BY <1>2, Zenon
<1>4. (~a => ~tool.failed) /\ (tool.lines = 0 /\ Unread[1] = "err" => b)
  BY Zenon
<1>5. AtDot = [tool EXCEPT !.got = g, !.failed = a]
  BY DEF AtDot, Tool
<1>6. AtLine = [tool EXCEPT !.got = h, !.lines = l, !.failed = b]
  BY DEF AtLine, Tool
<1> HIDE DEF g, h, l, a, b
<1>7. /\ AtDot \in Tool /\ AtDot.got = g /\ AtDot.at = tool.at
      /\ AtDot.sent = tool.sent /\ AtDot.failed = a
  BY <1>1, <1>3, <1>5 DEF Tool
<1>8. /\ AtLine \in Tool /\ AtLine.got = h /\ AtLine.at = tool.at
      /\ AtLine.sent = tool.sent /\ AtLine.lines = l
      /\ AtLine.max = tool.max /\ AtLine.waiting = tool.waiting /\ AtLine.failed = b
  BY <1>1, <1>3, <1>6 DEF Tool
<1> QED
  BY <1>4, <1>7, <1>8 DEF g, h, l

\* One line less of the answer is left.
LEMMA OwesLess ==
    ASSUME NEW y, NEW g \in Nat, NEW v, NEW k \in Nat, k > 0, Owes(y, g, v, k)
    PROVE  y[g + 1] = v /\ Owes(y, g + 2, v, k - 1)
<1>1. /\ Len(y) = g + 2 * k + 1
      /\ \A j \in 1..k : y[g + 2 * j - 1] = v /\ y[g + 2 * j] = "end"
      /\ y[g + 2 * k + 1] = "dot"
  BY DEF Owes
<1>2. g + 2 * k + 1 = g + 2 + 2 * (k - 1) + 1 /\ k - 1 \in Nat
  OBVIOUS
<1>3. 1 \in 1..k /\ g + 2 * 1 - 1 = g + 1
  OBVIOUS
<1>4. \A j \in 1..(k - 1) : /\ j + 1 \in 1..k
                            /\ g + 2 + 2 * j - 1 = g + 2 * (j + 1) - 1
                            /\ g + 2 + 2 * j = g + 2 * (j + 1)
  OBVIOUS
<1>5. \A j \in 1..(k - 1) : y[g + 2 + 2 * j - 1] = v /\ y[g + 2 + 2 * j] = "end"
  BY <1>1, <1>4
<1>6. y[g + 1] = v
  BY <1>1, <1>3
<1>7. Len(y) = g + 2 + 2 * (k - 1) + 1 /\ y[g + 2 + 2 * (k - 1) + 1] = "dot"
  BY <1>1, <1>2
<1> QED
  BY <1>5, <1>6, <1>7 DEF Owes

\* The program reads a line, or the terminator and returns to its screen.
LEMMA DialogueResponse ==
    ASSUME Talk, AnswersFit, Live, read_response
    PROVE  Dialogue'
<1>1. Inv /\ tool \in Tool
  BY DEF Talk
<1>2. /\ tool.got <= Len(out) /\ peer = "open" /\ Admitted
      /\ IF tool.waiting THEN Asking \/ Answering ELSE Idle
  BY DEF Talk, Dialogue
<1>3. /\ tool.waiting /\ Unread # << >> /\ (Unread[1] = "dot" \/ Len(Unread) > 1)
      /\ tool' = IF Unread[1] = "dot" THEN Return(AtDot)
                 ELSE IF AnswerFull(AtLine.max, AtLine.lines) THEN Return(AtLine) ELSE AtLine
  BY DEF read_response, LineArrived, AtDot, AtLine
<1>4. UNCHANGED <<s, input, nread, peer, out>>
  BY DEF read_response, vars
<1> DEFINE g == tool.got
           y == s.said
<1>5. /\ Len(Unread) = Len(out) - g /\ Len(out) \in Nat /\ g \in Nat
      /\ Len(y) >= Len(out) /\ Len(y) \in Nat
  BY <1>1, <1>2, UnreadUnits
<1>6. Unread[1] = y[g + 1] /\ g + 1 <= Len(out)
  BY <1>1, <1>2, <1>3, UnreadUnits
<1>7. Answering
  <2>1. ~Asking
    BY <1>5, <1>6 DEF Asking
  <2> QED
    BY <1>2, <1>3, <2>1
<1>8. Served
  BY <1>7 DEF Answering
<1>9. PICK v \in {"ok", "err"} : \E k \in Nat : Left(v, k)
  BY <1>7 DEF Answering
<1>10. PICK k \in Nat : Left(v, k)
  BY <1>9
<1>11. /\ Owes(y, g, v, k)
       /\ tool.max > 0 => tool.lines + k < tool.max
       /\ tool.at = "login" =>
             /\ tool.lines + k = 1
             /\ v = "ok" => s.state = "AUTHENTICATED"
             /\ tool.lines = 1 /\ ~tool.failed => v = "ok"
  BY <1>10 DEF Left
<1>n. tool.lines \in Nat /\ tool.max \in Nat
  BY <1>1 DEF Tool
<1> HIDE DEF g, y
<1>12. CASE k = 0
  <2>1. Len(y) = g + 1 /\ y[g + 1] = "dot"
    <3>1. g + 2 * 0 + 1 = g + 1
      BY <1>5
    <3> QED
      BY <1>11, <1>12, <3>1 DEF Owes
  <2>2. tool' = Return(AtDot)
    BY <1>3, <1>6, <2>1
  <2>3. /\ AtDot \in Tool /\ AtDot.got = g + 1 /\ AtDot.at = tool.at
        /\ AtDot.sent = tool.sent /\ (~AtDot.failed => ~tool.failed)
    BY <1>1, AtTyped DEF g
  <2> DEFINE r == tool'
             t == AtDot
  <2> HIDE DEF r, t
  <2>4. /\ ~r.waiting /\ r.got = g + 1 /\ r.sent = tool.sent
        /\ \/ r.at = tool.at
           \/ tool.at = "greeting" /\ r.at = "login"
           \/ tool.at = "login" /\ ~tool.failed /\ r.at = "config"
           \/ tool.at = "config" /\ r.at = "menu"
    <3>1. t \in Tool /\ r = Return(t)
      BY <2>2, <2>3 DEF r, t
    <3>2. /\ ~r.waiting /\ r.got = t.got /\ r.sent = t.sent
          /\ \/ r.at = t.at
             \/ t.at = "greeting" /\ r.at = "login"
             \/ t.at = "login" /\ ~t.failed /\ r.at = "config"
             \/ t.at = "config" /\ r.at = "menu"
      BY <3>1, ReturnEffect
    <3> QED
      BY <2>3, <3>2 DEF t
  <2>5. tool.at = "login" /\ ~tool.failed => s.state = "AUTHENTICATED"
    <3>1. tool.at = "login" => tool.lines = 1
      BY <1>11, <1>12, <1>n
    <3> QED
      BY <1>11, <3>1
  <2>6. r.at \in {"config", "menu", "quit"} => s.state = "AUTHENTICATED"
    BY <1>2, <2>4, <2>5 DEF Admitted
  <2>7. Served' /\ tool'.got = Len(s'.said)
    BY <1>4, <1>8, <2>1, <2>4 DEF Served, r, y
  <2>8. Admitted' /\ tool'.got <= Len(out') /\ ~tool'.waiting /\ peer' = "open"
    BY <1>2, <1>4, <1>6, <2>4, <2>6 DEF Admitted, r
  <2> QED
    BY <2>7, <2>8 DEF Dialogue, Idle
<1>13. CASE k # 0
  <2>0. k > 0 /\ k - 1 \in Nat
    BY <1>13
  <2>1. y[g + 1] = v /\ Owes(y, g + 2, v, k - 1)
    BY <1>5, <1>11, <2>0, OwesLess
  <2>2. Unread[1] = v /\ v # "dot"
    BY <1>6, <2>1
  <2>3. Len(Unread) > 1
    BY <1>3, <2>2
  <2>4. g + 2 <= Len(out)
    BY <1>5, <2>3
  <2> DEFINE t == AtLine
  <2>5. /\ t.got = g + 2 /\ t.at = tool.at
        /\ t.sent = tool.sent /\ t.lines = tool.lines + 1
        /\ t.max = tool.max /\ t.waiting = tool.waiting
        /\ (tool.lines = 0 /\ v = "err" => t.failed)
    BY <1>1, <2>2, AtTyped DEF g
  <2> HIDE DEF t
  <2>6. ~AnswerFull(t.max, t.lines)
    BY <1>11, <1>n, <2>0, <2>5 DEF AnswerFull
  <2>7. tool' = t
    BY <1>3, <2>2, <2>6 DEF t
  <2>8. t.max > 0 => t.lines + (k - 1) < t.max
    BY <1>11, <1>n, <2>0, <2>5
  <2>9. ASSUME tool.at = "login"
        PROVE  /\ t.lines + (k - 1) = 1
               /\ t.lines = 1 /\ ~t.failed => v = "ok"
    <3>1. t.lines + (k - 1) = 1
      BY <1>11, <1>n, <2>0, <2>5, <2>9
    <3>2. t.lines = 1 => tool.lines = 0
      BY <1>n, <2>5
    <3> QED
      BY <2>5, <3>1, <3>2
  <2>10. Left(v, k - 1)'
    BY <1>4, <1>11, <2>1, <2>5, <2>7, <2>8, <2>9 DEF Left, y
  <2>11. Served'
    BY <1>4, <1>8, <2>5, <2>7 DEF Served
  <2>12. Admitted' /\ tool'.got <= Len(out') /\ tool'.waiting /\ peer' = "open"
    BY <1>2, <1>3, <1>4, <2>4, <2>5, <2>7 DEF Admitted
  <2> QED
    BY <2>0, <2>10, <2>11, <2>12 DEF Dialogue, Answering
<1> QED
  BY <1>12, <1>13

\* What a command does to the program's state.
LEMMA CommandTool ==
    ASSUME tool \in Tool, NEW text, NEW max \in Nat,
           NEW screen \in {"raw", "greeting", "login", "config", "menu", "quit", "gone"},
           Command(text, screen, max)
    PROVE  /\ tool' \in Tool /\ tool'.at = screen /\ tool'.waiting /\ tool'.max = max
           /\ tool'.lines = 0 /\ ~tool'.failed /\ tool'.sent = tool.sent + 1
           /\ tool'.got = tool.got
<1> DEFINE n == tool.sent + 1
           l == IF tool.left = 0 THEN 0 ELSE tool.left - 1
<1>1. n \in Nat /\ l \in Nat
  BY DEF Tool
<1>2. tool' = [tool EXCEPT !.at = screen, !.waiting = TRUE, !.max = max,
                            !.lines = 0, !.failed = FALSE, !.sent = n, !.left = l]
  BY DEF Command, Tool
<1> HIDE DEF n, l
<1>3. /\ tool' \in Tool /\ tool'.at = screen /\ tool'.waiting = TRUE /\ tool'.max = max
      /\ tool'.lines = 0 /\ tool'.failed = FALSE /\ tool'.sent = n
      /\ tool'.got = tool.got
  BY <1>1, <1>2 DEF Tool
<1> QED
  BY <1>3 DEF n

\* A command sent while nothing is owed.
LEMMA DialogueCommand ==
    ASSUME Talk, AnswersFit, Live, ~tool.waiting, NEW text \in Texts, NEW max \in Nat,
           NEW screen \in {"login", "config", "menu", "quit"}, AskedBy(screen, max, text),
           screen = "login" \/ s.state = "AUTHENTICATED", Command(text, screen, max)
    PROVE  Dialogue'
<1>1. Inv /\ tool \in Tool
  BY DEF Talk
<1>2. tool.got <= Len(out) /\ peer = "open" /\ Idle
  BY DEF Talk, Dialogue
<1>3. /\ tool'.at = screen /\ tool'.waiting /\ tool'.max = max
      /\ tool'.lines = 0 /\ ~tool'.failed /\ tool'.sent = tool.sent + 1
      /\ tool'.got = tool.got
  BY <1>1, CommandTool
<1>4. input' = input \o Line(text) /\ UNCHANGED <<s, nread, peer, out>>
  BY DEF Command
<1>5. s.owed = tool.sent + 1 /\ nread = Len(input) /\ s.line = << >> /\ tool.got = Len(s.said)
  BY <1>2 DEF Idle, Served
<1>6. AskingFor(text, 0)'
  <2>1. Typed(s.line, text, 0)
    BY <1>5 DEF Typed
  <2> DEFINE e == Line(text)
             z == input \o e
  <2>2. input \in Seq(Units) /\ e \in Seq(Units) /\ Len(e) = Len(text) + 1 /\ Len(text) \in Nat
    BY <1>1, TextUnits DEF Inv
  <2> HIDE DEF e
  <2>3. Joins(z, input, e)
    BY <2>2, JoinedUnits
  <2> HIDE DEF z
  <2>4. Coming(z, Len(input), text, 0)
    <3>1. Len(text) + 1 - 0 = Len(text) + 1 /\ \A i \in 1..(Len(text) + 1) : 0 + i = i
      BY <2>2
    <3>2. Len(z) = Len(input) + (Len(text) + 1)
      BY <2>2, <2>3 DEF Joins
    <3>3. \A i \in 1..(Len(text) + 1) : z[Len(input) + i] = e[i]
      BY <2>2, <2>3 DEF Joins
    <3> QED
      BY <3>1, <3>2, <3>3 DEF Coming, e
  <2>5. input' = z
    BY <1>4 DEF z, e
  <2>6. Coming(input', nread', text, 0)
    BY <1>4, <1>5, <2>4, <2>5
  <2> QED
    BY <1>3, <1>4, <2>1, <2>6 DEF AskingFor
<1>7. 0 \in 0..Len(text)
  BY TextUnits
<1>8. Asking'
  BY <1>3, <1>4, <1>5, <1>6, <1>7 DEF Asking
<1>9. Admitted' /\ tool'.got <= Len(out') /\ peer' = "open"
  BY <1>2, <1>3, <1>4 DEF Admitted
<1> QED
  BY <1>3, <1>8, <1>9 DEF Dialogue

\* What leaving does to the program's state.
LEMMA CloseTool ==
    ASSUME tool \in Tool, Close
    PROVE  tool' \in Tool /\ tool'.at = "gone"
BY DEF Close, Tool

\* A step of the program.
LEMMA ToolTalks ==
    ASSUME Talk, LineMax >= 3, ToolStep
    PROVE  tool' \in Tool /\ (AnswersFit => Dialogue')
<1>1. tool \in Tool /\ MaxRespLines \in Nat /\ 2 \in Nat /\ 0 \in Nat
  BY ClientAssumption DEF Talk
<1>t. {<<"AUTH">>, Refused, <<"SET">>, <<"LIST">>, <<"QUIT">>} \subseteq Texts
  BY DEF Texts
<1>2. CASE read_response
  <2>1. tool' \in {Return(AtDot), Return(AtLine), AtLine}
    BY <1>2 DEF read_response, AtDot, AtLine
  <2>2. AtDot \in Tool /\ AtLine \in Tool
    BY <1>1, AtTyped
  <2>3. Return(AtDot) \in Tool
    BY <2>2, ReturnEffect
  <2>4. Return(AtLine) \in Tool
    BY <2>2, ReturnEffect
  <2>5. tool' \in Tool
    BY <2>1, <2>2, <2>3, <2>4
  <2>6. CASE Live
    BY <1>2, <2>5, <2>6, DialogueResponse
  <2>7. CASE ~Live
    <3>1. AtDot.at = tool.at /\ AtLine.at = tool.at
      BY <1>1, AtTyped
    <3>2. Return(AtDot).at = tool.at
      BY <2>2, <2>7, <3>1, ReturnEffect DEF Live
    <3>3. Return(AtLine).at = tool.at
      BY <2>2, <2>7, <3>1, ReturnEffect DEF Live
    <3>4. ~Live'
      BY <2>1, <2>7, <3>1, <3>2, <3>3 DEF Live
    <3> QED
      BY <2>5, <3>4 DEF Dialogue
  <2> QED
    BY <2>6, <2>7
<1>3. CASE Close
  <2>1. tool' \in Tool /\ tool'.at = "gone"
    BY <1>1, <1>3, CloseTool
  <2> QED
    BY <2>1 DEF Dialogue, Live
<1>4. ASSUME NEW screen \in {"login", "config", "menu", "quit"},
             At(screen) \/ (At("menu") /\ screen = "quit"),
             NEW text \in Texts, NEW max \in Nat,
             AskedBy(screen, max, text), Command(text, screen, max)
      PROVE  tool' \in Tool /\ (AnswersFit => Dialogue')
  <2>1. tool' \in Tool
    BY <1>1, <1>4, CommandTool
  <2>2. ~tool.waiting /\ Live
    BY <1>4 DEF At, Live
  <2>3. AnswersFit => screen = "login" \/ s.state = "AUTHENTICATED"
    BY <1>4, <2>2 DEF Talk, Dialogue, Admitted, At
  <2>4. AnswersFit => Dialogue'
    BY <1>4, <2>2, <2>3, DialogueCommand
  <2> QED
    BY <2>1, <2>4
<1>5. CASE screen_login
  <2>1. CASE Close
    BY <1>3, <2>1
  <2>2. ASSUME NEW text \in {<<"AUTH">>, Refused}, cmd_simple(text)
        PROVE  tool' \in Tool /\ (AnswersFit => Dialogue')
    <3>1. Command(text, "login", 2) /\ At("login")
      BY <1>5, <2>2 DEF screen_login, cmd_simple, At
    <3>2. AskedBy("login", 2, text) /\ text \in Texts
      BY <1>t DEF AskedBy
    <3> QED
      BY <1>1, <1>4, <3>1, <3>2
  <2> QED
    BY <1>5, <2>1, <2>2 DEF screen_login
<1>6. CASE fetch_config_values
  <2>1. Command(<<"SET">>, "config", 2) /\ At("config")
    BY <1>6 DEF fetch_config_values, cmd_config_get, cmd_simple, At
  <2>2. AskedBy("config", 2, <<"SET">>) /\ <<"SET">> \in Texts
    BY <1>t DEF AskedBy
  <2> QED
    BY <1>1, <1>4, <2>1, <2>2
<1>7. CASE screen_main_menu
  <2>0. At("menu") /\ tool.at = "menu"
    BY <1>7 DEF screen_main_menu, At
  <2>1. CASE screen_list
    <3>1. Command(<<"LIST">>, "menu", MaxRespLines)
      BY <2>0, <2>1 DEF screen_list, cmd_list
    <3>2. AskedBy("menu", MaxRespLines, <<"LIST">>) /\ <<"LIST">> \in Texts
      BY <1>t DEF AskedBy
    <3> QED
      BY <1>1, <1>4, <2>0, <3>1, <3>2
  <2>2. CASE screen_change
    <3>1. PICK text \in {<<"SET">>, Refused} : Command(text, "menu", 2)
      BY <2>0, <2>2 DEF screen_change, cmd_simple
    <3>2. AskedBy("menu", 2, text) /\ text \in Texts
      BY <1>t DEF AskedBy
    <3> QED
      BY <1>1, <1>4, <2>0, <3>1, <3>2
  <2>3. CASE cmd_quit
    <3>1. Command(<<"QUIT">>, "quit", 0)
      BY <2>3 DEF cmd_quit
    <3>2. AskedBy("quit", 0, <<"QUIT">>) /\ <<"QUIT">> \in Texts
      BY <1>t DEF AskedBy
    <3> QED
      BY <1>1, <1>4, <2>0, <3>1, <3>2
  <2> QED
    BY <1>7, <2>1, <2>2, <2>3 DEF screen_main_menu
<1>8. CASE Disconnect \/ sigint_handler
  BY <1>3, <1>8 DEF Disconnect, sigint_handler
<1> QED
  BY <1>2, <1>5, <1>6, <1>7, <1>8 DEF ToolStep

\* Every step of the session and of its client keeps the dialogue.
LEMMA StepTalk == ASSUME LineMax >= 3 PROVE Talk /\ [ToolNext]_toolVars => Talk'
<1> SUFFICES ASSUME Talk, [ToolNext]_toolVars
             PROVE  Talk'
  OBVIOUS
<1>1. Inv'
  BY StepInv DEF Talk
<1>2. tool \in Tool
  BY DEF Talk
<1>3. CASE tool' = tool /\ ~Live
  BY <1>1, <1>2, <1>3 DEF Talk, Dialogue, Live
<1>4. CASE (monitor_client_read \/ monitor_client_write) /\ UNCHANGED tool /\ Live
  <2>1. ASSUME AnswersFit
        PROVE  Dialogue'
    <3>1. peer = "open"
      BY <1>4, <2>1 DEF Talk, Dialogue
    <3>2. ~ReadEof /\ ~ReadError
      BY <3>1 DEF ReadEof, ReadError
    <3>3. CASE ReadData
      BY <1>4, <2>1, <3>3, DialogueRead
    <3>4. CASE monitor_client_write
      BY <1>4, <2>1, <3>4, DialogueWrite
    <3> QED
      BY <1>4, <3>2, <3>3, <3>4 DEF monitor_client_read
  <2> QED
    BY <1>1, <1>2, <1>4, <2>1 DEF Talk
<1>5. CASE ToolStep
  BY <1>1, <1>5, ToolTalks DEF Talk
<1>6. CASE UNCHANGED toolVars
  BY <1>1, <1>2, <1>6 DEF toolVars, vars, Talk, Dialogue, Live, Admitted, Asking, AskingFor,
                          Answering, Left, Idle, Served
<1> QED
  BY <1>3, <1>4, <1>5, <1>6 DEF ToolNext, Live

\* The program starts with the greeting on its way.
LEMMA InitTalk == ToolInit => Talk
<1> SUFFICES ASSUME ToolInit
             PROVE  Talk
  OBVIOUS
<1>1. /\ Inv /\ s.owed = 1 /\ Owes(s.said, 0, "ok", 1) /\ s.line = << >>
      /\ tool \in {Raw, Connected}
  BY InitInv DEF ToolInit
<1>2. input = << >> /\ nread = 0 /\ peer = "open" /\ out = << >>
  BY DEF ToolInit, Init
<1>3. Raw \in Tool /\ Connected \in Tool
  BY DEF Raw, Connected, Tool
<1>4. CASE tool = Raw
  BY <1>1, <1>3, <1>4 DEF Talk, Dialogue, Live, Raw
<1>5. CASE tool = Connected
  <2>1. /\ tool.at = "greeting" /\ tool.waiting /\ tool.max = 0 /\ tool.got = 0
        /\ tool.sent = 0
    BY <1>5 DEF Connected, Raw
  <2>2. Served
    BY <1>1, <1>2, <2>1 DEF Served
  <2>3. Left("ok", 1)
    BY <1>1, <2>1 DEF Left
  <2>4. Answering
    BY <2>2, <2>3 DEF Answering
  <2>5. tool.got <= Len(out) /\ Admitted
    BY <1>2, <2>1 DEF Admitted
  <2> QED
    BY <1>1, <1>2, <1>3, <1>5, <2>1, <2>4, <2>5 DEF Talk, Dialogue
<1> QED
  BY <1>1, <1>4, <1>5

\* Where the longest answer fits the session's buffer and the program's array,
\* and a command the line (MONITOR_LINE_MAX), no command is shown the answer of
\* another, and only a program that the server authenticated reaches the menu.
THEOREM AlwaysInSync == ASSUME LineMax >= 3 PROVE ToolSpec => []InSync
<1>1. Talk => InSync
  <2> SUFFICES ASSUME Talk, AnswersFit, Live, ~tool.waiting
               PROVE  /\ nread = Len(input)
                      /\ s.owed = tool.sent + 1
                      /\ ~buffer_can_read(s.wb)
                      /\ tool.got = Len(out)
                      /\ tool.at \in {"config", "menu"} => s.state = "AUTHENTICATED"
    BY DEF InSync, Live
  <2>1. Idle /\ Admitted /\ tool.got <= Len(out) /\ Inv /\ tool \in Tool
    BY DEF Talk, Dialogue
  <2>2. nread = Len(input) /\ s.owed = tool.sent + 1 /\ tool.got = Len(s.said)
    BY <2>1 DEF Idle, Served
  <2>3. s.wb.q = << >> /\ tool.got = Len(out)
    BY <2>1, <2>2, AllRead
  <2> QED
    BY <2>1, <2>2, <2>3 DEF Admitted, buffer_can_read
<1> QED
  BY <1>1, InitTalk, StepTalk, PTL DEF ToolSpec

-----------------------------------------------------------------------------
(***************************************************************************)
(* The commands that run                                                   *)
(***************************************************************************)
\* Of the first n units of x the line that has no newline yet starts behind p.
Begun(x, p, n) ==
    /\ p \in 0..n
    /\ p = 0 \/ x[p] = "nl"
    /\ \A i \in (p + 1)..n : x[i] # "nl"

\* line holds the units of x behind p and up to n.
Holds(line, x, p, n) ==
    /\ line \in Seq(Units)
    /\ Len(line) = n - p
    /\ \A i \in 1..(n - p) : line[i] = x[p + i]

\* t has done what the lines that end in the first n places of x ask for.
Heard(x, n, t) ==
    /\ t.state = "AUTHENTICATED" <=> Authenticated(x, n + 1)
    /\ InOrder(t.ran, x, Runs(x, n))

\* t has read n units of x, and keeps the line that they leave without end.
Reading(x, n, t) ==
    /\ \E p \in 0..n : Begun(x, p, n) /\ Holds(t.line, x, p, n)
    /\ Heard(x, n, t)

\* The end of the input has been read too, and has ended the last line.
EndRead ==
    /\ nread = Len(input)
    /\ peer # "open"
    /\ s.line = << >>
    /\ Heard(input, nread + 1, s)

\* Why a session ended.
Ended ==
    \/ peer = "reset"
    \/ s.close_after_flush
    \/ nread = Len(input) /\ peer # "open" /\ s.line = << >>

\* The inductive invariant behind CommandsExact and HalfCloseServed.  Nothing
\* is sent on a connection whose client has closed its side.
Work ==
    /\ Inv
    /\ tool \in Tool
    /\ Live => peer = "open"
    /\ LinesBelow(input, nread, LineMax) => Reading(input, nread, s) \/ EndRead
    /\ ~open => Ended

\* The line that ends behind n is the one that began there.
LEMMA LineFound ==
    ASSUME NEW x, NEW n \in Nat, NEW p, Begun(x, p, n), NEW line, Holds(line, x, p, n)
    PROVE  LineTo(x, n + 1) = line
<1> DEFINE P == {j \in 0..n : j = 0 \/ x[j] = "nl"}
           w == SubSeq(x, p + 1, n)
<1>1. /\ p \in 0..n /\ (p = 0 \/ x[p] = "nl") /\ \A i \in (p + 1)..n : x[i] # "nl"
      /\ line \in Seq(Units) /\ Len(line) = n - p
      /\ \A i \in 1..(n - p) : line[i] = x[p + i]
  BY DEF Begun, Holds
<1>2. p \in P
  BY <1>1
<1>3. \A j \in P : p >= j
  <2>1. SUFFICES ASSUME NEW j \in P, ~(p >= j) PROVE FALSE
    OBVIOUS
  <2>2. j \in (p + 1)..n /\ j # 0
    BY <1>1, <2>1
  <2> QED
    BY <1>1, <2>1, <2>2
<1>4. \A j \in P : j \in Nat
  OBVIOUS
<1>5. (n + 1) - 1 = n
  OBVIOUS
<1>6. LineTo(x, n + 1) = SubSeq(x, Max(P) + 1, n)
  BY <1>5 DEF LineTo
<1> HIDE DEF P
<1>7. Max(P) = p
  <2>1. \A q \in P : (\A j \in P : q >= j) => q = p
    BY <1>2, <1>3, <1>4
  <2> QED
    BY <1>2, <1>3, <2>1 DEF Max
<1>8. \A i \in (p + 1)..n : x[i] \in Units
  <2>1. ASSUME NEW i \in (p + 1)..n PROVE x[i] \in Units
    <3>1. i - p \in 1..(n - p) /\ p + (i - p) = i
      BY <1>1
    <3>2. line[i - p] = x[i]
      BY <1>1, <3>1
    <3>3. line[i - p] \in Units
      BY <1>1, <3>1
    <3> QED
      BY <3>2, <3>3
  <2> QED
    BY <2>1
<1>9. /\ w \in Seq(Units)
      /\ Len(w) = IF p + 1 <= n THEN n - (p + 1) + 1 ELSE 0
      /\ \A i \in 1..(n - (p + 1) + 1) : w[i] = x[(p + 1) + i - 1]
  BY <1>1, <1>8, SubSeqProperties
<1> HIDE DEF w
<1>10. Len(w) = Len(line) /\ \A i \in 1..Len(w) : w[i] = line[i]
  <2>1. Len(w) = n - p /\ n - (p + 1) + 1 = n - p
    BY <1>1, <1>9
  <2>2. \A i \in 1..(n - p) : (p + 1) + i - 1 = p + i
    BY <1>1
  <2> QED
    BY <1>1, <1>9, <2>1, <2>2
<1>11. w = line
  BY <1>1, <1>9, <1>10, SeqEqual
<1> QED
  BY <1>6, <1>7, <1>11 DEF w

\* Some line is open behind every place.
LEMMA SomeBegun ==
    ASSUME NEW x, NEW n \in Nat
    PROVE  \E p \in 0..n : Begun(x, p, n)
<1> DEFINE T == {k \in 0..n : n - k = 0 \/ x[n - k] = "nl"}
<1>1. T \subseteq Nat
  OBVIOUS
<1>2. T # {}
  <2>1. n \in T
    OBVIOUS
  <2> QED
    BY <2>1
<1>3. PICK k \in T : \A y \in T : k <= y
  <2> HIDE DEF T
  <2> QED
    BY <1>1, <1>2, LeastExists
<1> DEFINE p == n - k
<1>4. p \in 0..n /\ (p = 0 \/ x[p] = "nl")
  OBVIOUS
<1>5. ASSUME NEW i \in (p + 1)..n, x[i] = "nl"
      PROVE  FALSE
  <2> DEFINE m == n - i
  <2>1. m \in 0..n /\ m < k /\ n - m = i
    BY <1>4
  <2>2. m \in T
    BY <1>5, <2>1
  <2> HIDE DEF m, T
  <2>3. k <= m /\ k \in Nat /\ m \in Nat
    BY <1>1, <1>3, <2>2
  <2> QED
    BY <2>1, <2>3
<1> QED
  BY <1>4, <1>5 DEF Begun

\* x and y have the same first n units.
Agree(x, y, n) ==
    /\ x \in Seq(Units) /\ y \in Seq(Units)
    /\ n <= Len(x) /\ n <= Len(y)
    /\ \A i \in 1..n : x[i] = y[i]

\* The first units decide where their lines end and which commands they are.
LEMMA SameLines ==
    ASSUME NEW x, NEW y, NEW n \in Nat, Agree(x, y, n), NEW i \in 1..n
    PROVE  /\ Ends(x, i) <=> Ends(y, i)
           /\ CommandAt(x, i) = CommandAt(y, i)
<1>1. /\ x \in Seq(Units) /\ y \in Seq(Units) /\ Len(x) \in Nat /\ Len(y) \in Nat
      /\ n <= Len(x) /\ n <= Len(y) /\ \A j \in 1..n : x[j] = y[j]
  BY LenProperties DEF Agree
<1>2. ~(i > Len(x)) /\ ~(i > Len(y)) /\ x[i] = y[i]
  BY <1>1
<1> DEFINE m == i - 1
<1>3. m \in Nat /\ m + 1 = i /\ m <= n
  OBVIOUS
<1> HIDE DEF m
<1>4. PICK p \in 0..m : Begun(x, p, m)
  BY <1>3, SomeBegun
<1> DEFINE w == SubSeq(x, p + 1, m)
<1>5. \A j \in (p + 1)..m : j \in 1..n /\ j \in 1..Len(x)
  BY <1>1, <1>3
<1>6. \A j \in (p + 1)..m : x[j] \in Units
  BY <1>1, <1>5
<1>7. /\ w \in Seq(Units)
      /\ Len(w) = IF p + 1 <= m THEN m - (p + 1) + 1 ELSE 0
      /\ \A j \in 1..(m - (p + 1) + 1) : w[j] = x[(p + 1) + j - 1]
  BY <1>3, <1>6, SubSeqProperties
<1> HIDE DEF w
<1>8. Holds(w, x, p, m)
  <2>1. Len(w) = m - p /\ m - (p + 1) + 1 = m - p
    BY <1>3, <1>7
  <2>2. \A j \in 1..(m - p) : (p + 1) + j - 1 = p + j
    BY <1>3
  <2> QED
    BY <1>7, <2>1, <2>2 DEF Holds
<1>9. Begun(y, p, m)
  <2>1. p = 0 \/ p \in 1..n
    BY <1>3
  <2> QED
    BY <1>1, <1>4, <1>5, <2>1 DEF Begun
<1>10. Holds(w, y, p, m)
  <2>1. \A j \in 1..(m - p) : p + j \in 1..n
    BY <1>3
  <2> QED
    BY <1>1, <1>8, <2>1 DEF Holds
<1>11. LineTo(x, i) = w /\ LineTo(y, i) = w
  BY <1>3, <1>4, <1>8, <1>9, <1>10, LineFound
<1> QED
  BY <1>2, <1>11 DEF Ends, CommandAt

\* What the first units have asked for does not depend on what follows them.
LEMMA HeardSame ==
    ASSUME NEW x, NEW y, NEW n \in Nat, Agree(x, y, n), NEW t, Heard(x, n, t)
    PROVE  Heard(y, n, t)
<1>1. \A i \in 1..n : (Ends(x, i) <=> Ends(y, i)) /\ CommandAt(x, i) = CommandAt(y, i)
  BY SameLines
<1>2. (n + 1) - 1 = n
  OBVIOUS
<1>3. Authenticated(x, n + 1) <=> Authenticated(y, n + 1)
  BY <1>1, <1>2 DEF Authenticated
<1>4. ASSUME NEW i \in 1..n
      PROVE  Authenticated(x, i) <=> Authenticated(y, i)
  <2>1. \A j \in 1..(i - 1) : j \in 1..n
    OBVIOUS
  <2> QED
    BY <1>1, <2>1 DEF Authenticated
<1>5. Runs(x, n) = Runs(y, n)
  BY <1>1, <1>4 DEF Runs
<1> DEFINE R == Runs(x, n)
<1>6. R \subseteq 1..n
  BY DEF Runs
<1> HIDE DEF R
<1>7. InOrder(t.ran, x, R) => InOrder(t.ran, y, R)
  BY <1>1, <1>6 DEF InOrder
<1> QED
  BY <1>3, <1>5, <1>7 DEF Heard, R

\* Nor does the line that is kept.
LEMMA ReadingSame ==
    ASSUME NEW x, NEW y, NEW n \in Nat, Agree(x, y, n), NEW t, Reading(x, n, t)
    PROVE  Reading(y, n, t)
<1>1. PICK p \in 0..n : Begun(x, p, n) /\ Holds(t.line, x, p, n)
  BY DEF Reading
<1>2. \A i \in 1..n : x[i] = y[i]
  BY DEF Agree
<1>3. Begun(y, p, n)
  <2>1. p = 0 \/ p \in 1..n
    OBVIOUS
  <2>2. \A i \in (p + 1)..n : i \in 1..n
    OBVIOUS
  <2> QED
    BY <1>1, <1>2, <2>1, <2>2 DEF Begun
<1>4. Holds(t.line, y, p, n)
  <2>1. \A i \in 1..(n - p) : p + i \in 1..n
    OBVIOUS
  <2> QED
    BY <1>1, <1>2, <2>1 DEF Holds
<1>5. Heard(y, n, t)
  BY HeardSame DEF Reading
<1> QED
  BY <1>3, <1>4, <1>5 DEF Reading

\* A command that runs comes behind those that ran.
LEMMA OneMore ==
    ASSUME NEW ran \in Seq(Verbs), NEW x, NEW n \in Nat, NEW R, R \subseteq 1..n,
           InOrder(ran, x, R), NEW c \in Verbs, c = CommandAt(x, n + 1)
    PROVE  InOrder(Append(ran, c), x, R \cup {n + 1})
<1> DEFINE Q == R \cup {n + 1}
           a == Append(ran, c)
           k == Cardinality(R)
<1>0. IsFiniteSet(1..n)
  BY FS_Interval
<1>1. IsFiniteSet(R) /\ k \in Nat
  BY <1>0, FS_Subset, FS_CardinalityType
<1>2. n + 1 \notin R
  OBVIOUS
<1>3. Cardinality(Q) = k + 1
  BY <1>1, <1>2, FS_AddElement
<1>4. Len(ran) = k /\ \A i \in R : ran[Cardinality({j \in R : j <= i})] = CommandAt(x, i)
  BY DEF InOrder
<1>5. Len(a) = k + 1 /\ a[k + 1] = c /\ \A i \in 1..k : a[i] = ran[i]
  BY <1>4, AppendProperties
<1>6. ASSUME NEW i \in R
      PROVE  a[Cardinality({j \in Q : j <= i})] = CommandAt(x, i)
  <2> DEFINE B == {j \in R : j <= i}
  <2>1. {j \in Q : j <= i} = B
    OBVIOUS
  <2>2. B \in SUBSET R /\ i \in B
    OBVIOUS
  <2> HIDE DEF B
  <2>3. IsFiniteSet(B) /\ Cardinality(B) <= k
    BY <1>1, <2>2, FS_Subset
  <2>4. Cardinality(B) \in Nat /\ Cardinality(B) # 0
    BY <2>2, <2>3, FS_CardinalityType, FS_EmptySet
  <2>5. Cardinality(B) \in 1..k
    BY <1>1, <2>3, <2>4
  <2>6. a[Cardinality(B)] = ran[Cardinality(B)]
    BY <1>5, <2>5
  <2> QED
    BY <1>4, <2>1, <2>6 DEF B
<1>7. a[Cardinality({j \in Q : j <= n + 1})] = CommandAt(x, n + 1)
  <2>1. \A j \in Q : j <= n + 1
    OBVIOUS
  <2> HIDE DEF Q
  <2>2. {j \in Q : j <= n + 1} = Q
    BY <2>1
  <2> QED
    BY <1>3, <1>5, <2>2
<1> HIDE DEF a, k
<1>8. Len(a) = Cardinality(Q)
  BY <1>3, <1>5
<1> QED
  BY <1>6, <1>7, <1>8 DEF InOrder, a

\* r is t after the line whose command is cmd.
Obeys(t, r, cmd) ==
    /\ r.state = IF cmd = "AUTH" THEN "AUTHENTICATED" ELSE t.state
    /\ r.ran = IF t.state = "AUTHENTICATED" /\ cmd \in {"LIST", "SET", "QUIT"}
               THEN Append(t.ran, cmd) ELSE t.ran

\* No line ends at the next place.
LEMMA HeardOn ==
    ASSUME NEW x, NEW n \in Nat, NEW t, Heard(x, n, t),
           ~Ends(x, n + 1) \/ CommandAt(x, n + 1) = "none"
    PROVE  Heard(x, n + 1, t)
<1>1. (n + 1) - 1 = n /\ (n + 1) + 1 - 1 = n + 1 /\ 1..(n + 1) = 1..n \cup {n + 1}
  OBVIOUS
<1>2. Authenticated(x, (n + 1) + 1) <=> Authenticated(x, n + 1)
  BY <1>1 DEF Authenticated
<1>3. Runs(x, n + 1) = Runs(x, n)
  BY <1>1 DEF Runs
<1> QED
  BY <1>2, <1>3 DEF Heard

\* A line ends at the next place.
LEMMA HeardMore ==
    ASSUME NEW x, NEW n \in Nat, NEW t \in Shape, Heard(x, n, t), Ends(x, n + 1),
           NEW cmd, cmd = CommandAt(x, n + 1), NEW r, Obeys(t, r, cmd)
    PROVE  Heard(x, n + 1, r)
<1> DEFINE R == Runs(x, n)
<1>1. (n + 1) - 1 = n /\ (n + 1) + 1 - 1 = n + 1 /\ 1..(n + 1) = 1..n \cup {n + 1}
  OBVIOUS
<1>2. Authenticated(x, (n + 1) + 1) <=> Authenticated(x, n + 1) \/ cmd = "AUTH"
  BY <1>1 DEF Authenticated
<1>3. Runs(x, n + 1) = IF cmd \in {"LIST", "SET", "QUIT"} /\ Authenticated(x, n + 1)
                       THEN R \cup {n + 1} ELSE R
  <2>1. CASE cmd \in {"LIST", "SET", "QUIT"} /\ Authenticated(x, n + 1)
    BY <1>1, <2>1 DEF Runs
  <2>2. CASE ~(cmd \in {"LIST", "SET", "QUIT"} /\ Authenticated(x, n + 1))
    BY <1>1, <2>2 DEF Runs
  <2> QED
    BY <2>1, <2>2
<1>4. R \subseteq 1..n
  BY DEF Runs
<1>5. /\ t.state = "AUTHENTICATED" <=> Authenticated(x, n + 1)
      /\ InOrder(t.ran, x, R)
      /\ t.ran \in Seq(Verbs)
  BY DEF Heard, Shape
<1>6. r.state = "AUTHENTICATED" <=> Authenticated(x, (n + 1) + 1)
  BY <1>2, <1>5 DEF Obeys
<1> HIDE DEF R
<1>7. InOrder(r.ran, x, Runs(x, n + 1))
  <2>1. CASE cmd \in {"LIST", "SET", "QUIT"} /\ Authenticated(x, n + 1)
    <3>1. r.ran = Append(t.ran, cmd) /\ Runs(x, n + 1) = R \cup {n + 1}
      BY <1>3, <1>5, <2>1 DEF Obeys
    <3>2. cmd \in Verbs
      BY <2>1 DEF Verbs
    <3>3. InOrder(Append(t.ran, cmd), x, R \cup {n + 1})
      BY <1>4, <1>5, <3>2, OneMore
    <3> QED
      BY <3>1, <3>3
  <2>2. CASE ~(cmd \in {"LIST", "SET", "QUIT"} /\ Authenticated(x, n + 1))
    BY <1>3, <1>5, <2>2 DEF Obeys
  <2> QED
    BY <2>1, <2>2
<1> QED
  BY <1>6, <1>7 DEF Heard

\* A line does what its command says: AUTH admits, and only to a session that
\* is admitted do the others run.
LEMMA DispatchObeys ==
    ASSUME NEW x \in Seq(Reply), NEW t, Says(x, t), NEW line,
           NEW cmd, cmd = split_line(line), NEW r, r = dispatch_line(t, line)
    PROVE  Obeys(t, r, cmd)
<1>0. t \in Shape /\ ListLines \in Nat
  BY MonitorAssumption DEF Says
<1>1. t.ran \in Seq(Verbs) /\ t.state \in {"AWAIT_AUTH", "AUTHENTICATED"}
  BY <1>0 DEF Shape
<1>2. ASSUME NEW u, SameSpeech(t, u), NEW v \in {"ok", "err"}, NEW n \in Nat, r = Answer(u, v, n)
      PROVE  r.state = u.state /\ r.ran = u.ran
  <2>1. Says(x, u)
    BY <1>2, SpeechKept
  <2>2. Answers(u, r, v, n)
    BY <1>2, <2>1, AnswerEffect
  <2> QED
    BY <2>2 DEF Answers
<1>3. CASE cmd = "none"
  BY <1>3 DEF dispatch_line, Obeys
<1>4. CASE t.state = "AWAIT_AUTH" /\ cmd = "AUTH"
  <2> DEFINE u == [t EXCEPT !.state = "AUTHENTICATED"]
  <2>1. r = Answer(u, "ok", 1)
    BY <1>4 DEF dispatch_line, handle_auth
  <2>2. SameSpeech(t, u) /\ u.state = "AUTHENTICATED" /\ u.ran = t.ran
    BY <1>0 DEF SameSpeech, Shape
  <2> HIDE DEF u
  <2>3. r.state = u.state /\ r.ran = u.ran
    BY <1>2, <2>1, <2>2
  <2> QED
    BY <1>4, <2>2, <2>3 DEF Obeys
<1>5. CASE t.state = "AUTHENTICATED" /\ cmd \in {"LIST", "SET", "QUIT"}
  <2> DEFINE a == Append(t.ran, cmd)
             u == [t EXCEPT !.ran = a]
             w == [t EXCEPT !.ran = a, !.close_after_flush = TRUE]
  <2>1. a \in Seq(Verbs)
    BY <1>1, <1>5 DEF Verbs
  <2>2. /\ cmd = "LIST" => r = Answer(u, "ok", ListLines)
        /\ cmd = "SET" => r = Answer(u, "ok", 1)
        /\ cmd = "QUIT" => r = Answer(w, "ok", 1)
    BY <1>0, <1>5 DEF dispatch_line, handle_list, handle_one, handle_quit, Shape
  <2> HIDE DEF a
  <2>3. /\ SameSpeech(t, u) /\ SameSpeech(t, w) /\ u.state = t.state /\ w.state = t.state
        /\ u.ran = a /\ w.ran = a
    BY <1>0, <2>1 DEF SameSpeech, Shape
  <2> HIDE DEF u, w
  <2>4. r.state = t.state /\ r.ran = a
    BY <1>0, <1>2, <1>5, <2>2, <2>3
  <2> QED
    BY <1>5, <2>4 DEF Obeys, a
<1>6. CASE /\ cmd # "none"
           /\ ~(t.state = "AWAIT_AUTH" /\ cmd = "AUTH")
           /\ ~(t.state = "AUTHENTICATED" /\ cmd \in {"LIST", "SET", "QUIT"})
  <2>1. r = Answer(t, "err", 1)
    BY <1>6 DEF dispatch_line
  <2>2. SameSpeech(t, t)
    BY <1>0 DEF SameSpeech
  <2>3. r.state = t.state /\ r.ran = t.ran
    BY <1>2, <2>1, <2>2
  <2>4. cmd = "AUTH" => t.state = "AUTHENTICATED"
    BY <1>1, <1>6
  <2> QED
    BY <1>6, <2>3, <2>4 DEF Obeys
<1> QED
  BY <1>3, <1>4, <1>5, <1>6

\* Ending the line changes neither.
LEMMA LineObeys ==
    ASSUME NEW x \in Seq(Reply), NEW t, Says(x, t), NEW line,
           NEW cmd, cmd = split_line(line), NEW w, w = dispatch_line(t, line),
           NEW r, r = WithLine(w, << >>)
    PROVE  Obeys(t, r, cmd) /\ r.line = << >>
<1>1. Obeys(t, w, cmd)
  BY DispatchObeys
<1>2. w \in Shape
  BY DispatchSays DEF Says
<1>3. r.state = w.state /\ r.ran = w.ran /\ r.line = << >>
  BY <1>2 DEF WithLine, Shape
<1> QED
  BY <1>1, <1>3 DEF Obeys

\* Where every LineMax units have a newline no line that is kept is full.
LEMMA LineHasRoom ==
    ASSUME NEW x, NEW m \in Nat, LinesBelow(x, m, LineMax), NEW n \in 0..m,
           NEW p, Begun(x, p, n), NEW line, Holds(line, x, p, n)
    PROVE  ~(Len(line) >= LineMax)
<1>1. LineMax \in Nat /\ LineMax # 0
  BY MonitorAssumption
<1>2. p \in 0..n /\ Len(line) = n - p /\ \A i \in (p + 1)..n : x[i] # "nl"
  BY DEF Begun, Holds
<1>3. SUFFICES ASSUME Len(line) >= LineMax PROVE FALSE
  OBVIOUS
<1>4. p \in 0..(m - LineMax)
  BY <1>1, <1>2, <1>3
<1>5. PICK j \in 1..LineMax : x[p + j] = "nl"
  BY <1>4 DEF LinesBelow
<1>6. p + j \in (p + 1)..n
  BY <1>1, <1>2, <1>3
<1> QED
  BY <1>2, <1>5, <1>6

\* A unit is read: it is kept, or it ends the line and the command is obeyed.
LEMMA ByteReads ==
    ASSUME NEW x \in Seq(Units), NEW m \in 0..Len(x), LinesBelow(x, m, LineMax),
           NEW n \in Nat, n < m, NEW z \in Seq(Reply), NEW t, Says(z, t),
           Reading(x, n, t), NEW r, r = process_byte(t, x[n + 1])
    PROVE  Reading(x, n + 1, r)
<1>0. /\ t \in Shape /\ t.line \in Seq(Units)
      /\ Len(x) \in Nat /\ m \in Nat /\ n \in 0..m /\ n + 1 \in 1..Len(x)
  BY LenProperties DEF Says, Shape
<1>1. PICK p \in 0..n : Begun(x, p, n) /\ Holds(t.line, x, p, n)
  BY DEF Reading
<1>2. Heard(x, n, t)
  BY DEF Reading
<1>3. ~(Len(t.line) >= LineMax)
  BY <1>0, <1>1, LineHasRoom
<1>4. LineTo(x, n + 1) = t.line
  BY <1>1, LineFound
<1> DEFINE u == x[n + 1]
<1>5. u \in Units /\ ~(n + 1 > Len(x))
  BY <1>0
<1>6. CASE u = "nl"
  <2> DEFINE w == dispatch_line(t, StripCr(t.line))
             cmd == split_line(StripCr(t.line))
  <2>1. r = WithLine(w, << >>)
    BY <1>3, <1>6 DEF process_byte, WithLine
  <2>2. CommandAt(x, n + 1) = cmd /\ Ends(x, n + 1)
    BY <1>4, <1>5, <1>6 DEF CommandAt, Ends
  <2> HIDE DEF w, cmd
  <2>3. Obeys(t, r, cmd) /\ r.line = << >>
    BY <2>1, LineObeys DEF w, cmd
  <2>4. Heard(x, n + 1, r)
    BY <1>0, <1>2, <2>2, <2>3, HeardMore
  <2>5. Begun(x, n + 1, n + 1)
    BY <1>6 DEF Begun
  <2>6. Holds(r.line, x, n + 1, n + 1)
    BY <2>3 DEF Holds
  <2>7. n + 1 \in 0..(n + 1)
    OBVIOUS
  <2> QED
    BY <2>4, <2>5, <2>6, <2>7 DEF Reading
<1>7. CASE u # "nl"
  <2> DEFINE a == Append(t.line, u)
  <2>1. r = WithLine(t, a)
    BY <1>0, <1>3, <1>7 DEF process_byte, WithLine, Shape
  <2>2. ~Ends(x, n + 1)
    BY <1>5, <1>7 DEF Ends
  <2>3. Heard(x, n + 1, t)
    BY <1>2, <2>2, HeardOn
  <2>4. /\ a \in Seq(Units) /\ Len(a) = Len(t.line) + 1
        /\ \A i \in 1..Len(t.line) : a[i] = t.line[i]
        /\ a[Len(t.line) + 1] = u
    BY <1>0, <1>5, AppendProperties
  <2> HIDE DEF a
  <2>5. r.line = a /\ r.state = t.state /\ r.ran = t.ran
    BY <1>0, <2>1 DEF WithLine, Shape
  <2>6. Heard(x, n + 1, r)
    BY <2>3, <2>5 DEF Heard
  <2>7. Begun(x, p, n + 1)
    <3>1. \A i \in (p + 1)..(n + 1) : i \in (p + 1)..n \/ i = n + 1
      OBVIOUS
    <3>2. \A i \in (p + 1)..(n + 1) : x[i] # "nl"
      BY <1>1, <1>7, <3>1 DEF Begun
    <3>3. p \in 0..(n + 1) /\ (p = 0 \/ x[p] = "nl")
      BY <1>1 DEF Begun
    <3> QED
      BY <3>2, <3>3 DEF Begun
  <2>8. Holds(r.line, x, p, n + 1)
    <3>1. Len(t.line) = n - p /\ \A i \in 1..(n - p) : t.line[i] = x[p + i]
      BY <1>1 DEF Holds
    <3>2. Len(a) = (n + 1) - p
      BY <2>4, <3>1
    <3>3. ASSUME NEW i \in 1..((n + 1) - p)
          PROVE  a[i] = x[p + i]
      <4>1. CASE i \in 1..(n - p)
        BY <2>4, <3>1, <4>1
      <4>2. CASE ~(i \in 1..(n - p))
        <5>1. i = (n - p) + 1 /\ p + i = n + 1
          BY <4>2
        <5> QED
          BY <2>4, <3>1, <5>1
      <4> QED
        BY <4>1, <4>2
    <3> QED
      BY <2>4, <2>5, <3>2, <3>3 DEF Holds
  <2>9. p \in 0..(n + 1)
    OBVIOUS
  <2> QED
    BY <2>6, <2>7, <2>8, <2>9 DEF Reading
<1> QED
  BY <1>6, <1>7

\* A shorter part of the input has no longer lines.
LEMMA FewerLines ==
    ASSUME NEW x, NEW k \in Nat, LinesBelow(x, k, LineMax), NEW n \in 0..k
    PROVE  LinesBelow(x, n, LineMax)
<1>1. LineMax \in Nat
  BY MonitorAssumption
<1>2. \A i \in 0..(n - LineMax) : i \in 0..(k - LineMax)
  BY <1>1
<1> QED
  BY <1>2 DEF LinesBelow

\* Reading looks at the line, the state and the commands that ran.
LEMMA ReadingKept ==
    ASSUME NEW x, NEW n, NEW t, Reading(x, n, t), NEW r,
           r.line = t.line, r.state = t.state, r.ran = t.ran
    PROVE  Reading(x, n, r)
BY DEF Reading, Heard

\* The sessions that a read of n units goes through.
Feeds(f, t, data, n) ==
    /\ f[0] = t
    /\ \A i \in 1..n : f[i] = process_byte(f[i - 1], data[i])
    /\ monitor_commands_feed(t, data) = f[n]

\* There are such sessions.
LEMMA FeedIs ==
    ASSUME NEW t, NEW data, NEW n \in Nat, Len(data) = n
    PROVE  \E f : Feeds(f, t, data, n)
<1>1. Len(data) \in Nat
  OBVIOUS
<1> DEFINE m == Len(data)
<1>2. m \in Nat /\ m = n
  BY <1>1
<1> HIDE DEF m
<1>3. \E f : /\ f[0] = t
             /\ \A i \in 1..m : f[i] = process_byte(f[i - 1], data[i])
             /\ monitor_commands_feed(t, data) = f[m]
  BY <1>1, FeedRun DEF m
<1> QED
  BY <1>2, <1>3 DEF Feeds

\* A whole read, wherever it was cut.
LEMMA FeedReads ==
    ASSUME NEW x \in Seq(Units), NEW n \in Nat, NEW k \in (n + 1)..Len(x),
           LinesBelow(x, k, LineMax), NEW z \in Seq(Reply), NEW t, Says(z, t),
           Reading(x, n, t), NEW r, r = monitor_commands_feed(t, SubSeq(x, n + 1, k))
    PROVE  Reading(x, k, r)
<1> DEFINE data == SubSeq(x, n + 1, k)
           d == k - n
<1>0. Len(x) \in Nat /\ k \in 0..Len(x) /\ d \in Nat /\ n + d = k
  BY LenProperties
<1>1. \A i \in (n + 1)..k : x[i] \in Units
  <2>1. \A i \in (n + 1)..k : i \in 1..Len(x)
    BY <1>0
  <2> QED
    BY <2>1
<1>2. /\ data \in Seq(Units) /\ Len(data) = d
      /\ \A i \in 1..d : data[i] = x[n + i]
  <2>1. /\ data \in Seq(Units)
        /\ Len(data) = IF n + 1 <= k THEN k - (n + 1) + 1 ELSE 0
        /\ \A i \in 1..(k - (n + 1) + 1) : data[i] = x[(n + 1) + i - 1]
    BY <1>0, <1>1, SubSeqProperties
  <2> HIDE DEF data
  <2>2. k - (n + 1) + 1 = d /\ n + 1 <= k
    BY <1>0
  <2>3. \A i \in 1..d : (n + 1) + i - 1 = n + i
    BY <1>0
  <2> QED
    BY <2>1, <2>2, <2>3
<1> HIDE DEF data, d
<1>f. PICK f : Feeds(f, t, data, d)
  BY <1>0, <1>2, FeedIs
<1>3. /\ f[0] = t
      /\ \A i \in 1..d : f[i] = process_byte(f[i - 1], data[i])
      /\ monitor_commands_feed(t, data) = f[d]
  BY <1>f DEF Feeds
<1> DEFINE Good(i) == Says(z, f[i]) /\ Reading(x, n + i, f[i])
           T == {i \in 0..d : ~Good(i)}
<1>4. T = {}
  <2> SUFFICES ASSUME T # {}
               PROVE  FALSE
    OBVIOUS
  <2>0. T \subseteq Nat
    BY <1>0
  <2>1. PICK i \in T : \A y \in T : i <= y
    <3> HIDE DEF T
    <3> QED
      BY <2>0, LeastExists
  <2>2. Good(0)
    BY <1>3
  <2>3. i # 0 /\ i \in 1..d
    BY <1>0, <2>1, <2>2
  <2> DEFINE j == i - 1
  <2>4. j \in 0..d /\ ~(i <= j) /\ j \in Nat /\ n + j \in Nat /\ n + j < k /\ (n + j) + 1 = n + i
    BY <1>0, <2>3
  <2>5. f[i] = process_byte(f[j], x[(n + j) + 1])
    BY <1>2, <1>3, <2>3, <2>4
  <2> HIDE DEF j
  <2>6. Says(z, f[j]) /\ Reading(x, n + j, f[j])
    BY <2>1, <2>4
  <2>7. x[(n + j) + 1] \in Units
    BY <1>0, <1>1, <2>4
  <2>8. Says(z, f[i])
    BY <2>5, <2>6, <2>7, ByteSays
  <2>9. Reading(x, (n + j) + 1, f[i])
    BY <1>0, <2>4, <2>5, <2>6, ByteReads
  <2> QED
    BY <2>1, <2>4, <2>8, <2>9
<1>5. Good(d)
  BY <1>0, <1>4
<1> QED
  BY <1>0, <1>3, <1>5 DEF data

\* The end of the input ends the last line.
LEMMA EofReads ==
    ASSUME NEW x \in Seq(Units), NEW z \in Seq(Reply), NEW t, Says(z, t),
           NEW n, n = Len(x), Reading(x, n, t),
           NEW r, r = monitor_commands_flush_on_eof(t)
    PROVE  Heard(x, n + 1, r)
<1> DEFINE w == dispatch_line(t, t.line)
           cmd == split_line(t.line)
<1>1. r = WithLine(w, << >>)
  BY DEF monitor_commands_flush_on_eof, WithLine
<1>2. n \in Nat /\ n + 1 > Len(x) /\ t \in Shape
  BY LenProperties DEF Says
<1>3. PICK p \in 0..n : Begun(x, p, n) /\ Holds(t.line, x, p, n)
  BY DEF Reading
<1>4. LineTo(x, n + 1) = t.line
  BY <1>2, <1>3, LineFound
<1>5. Ends(x, n + 1) /\ CommandAt(x, n + 1) = cmd
  BY <1>2, <1>4 DEF Ends, CommandAt
<1> HIDE DEF w, cmd
<1>6. Obeys(t, r, cmd)
  BY <1>1, LineObeys DEF w, cmd
<1>7. Heard(x, n, t)
  BY DEF Reading
<1> QED
  BY <1>2, <1>5, <1>6, <1>7, HeardMore

\* Read again, it changes nothing.
LEMMA EofAgain ==
    ASSUME NEW z \in Seq(Reply), NEW t, Says(z, t),
           NEW r, r = monitor_commands_flush_on_eof(t)
    PROVE  r.line = << >> /\ (t.line = << >> => r.state = t.state /\ r.ran = t.ran)
<1> DEFINE w == dispatch_line(t, t.line)
           cmd == split_line(t.line)
<1>1. r = WithLine(w, << >>)
  BY DEF monitor_commands_flush_on_eof, WithLine
<1>2. t.line = << >> => cmd = "none"
  BY DEF split_line
<1> HIDE DEF w, cmd
<1>3. Obeys(t, r, cmd) /\ r.line = << >>
  BY <1>1, LineObeys DEF w, cmd
<1> QED
  BY <1>2, <1>3 DEF Obeys

\* A flush closes a connection that works after QUIT, or at the input's end.
LEMMA FlushCloses ==
    ASSUME NEW t \in Shape, NEW last \in BOOLEAN, NEW least, monitor_flush(t, last, least),
           open, ~open', peer # "reset"
    PROVE  t.close_after_flush \/ last
<1>1. ASSUME NEW u, u.close_after_flush = t.close_after_flush, Finish(u, last)
      PROVE  t.close_after_flush \/ last
  BY <1>1 DEF Finish, Stay, monitor_commands_should_close
<1>2. CASE Finish(t, last)
  BY <1>1, <1>2
<1>3. ASSUME NEW n, Finish(IF n = 0 THEN t
                    ELSE [t EXCEPT !.wb = buffer_compact(buffer_read_adv(@, n))], last)
      PROVE  t.close_after_flush \/ last
  <2> DEFINE b == buffer_compact(buffer_read_adv(t.wb, n))
             u == [t EXCEPT !.wb = b]
  <2>1. Finish(t, last) \/ Finish(u, last)
    BY <1>3
  <2> HIDE DEF b
  <2>2. u.close_after_flush = t.close_after_flush
    BY DEF Shape
  <2> HIDE DEF u
  <2> QED
    BY <1>1, <1>2, <2>1, <2>2
<1> QED
  BY <1>2, <1>3 DEF monitor_flush

\* A handler of the server.
LEMMA WorkServer ==
    ASSUME Work, monitor_client_read \/ monitor_client_write, tool' = tool
    PROVE  Work'
<1>1. /\ Says(out, s) /\ open \in BOOLEAN /\ input \in Seq(Units)
      /\ nread \in 0..Len(input) /\ out \in Seq(Reply) /\ s \in Shape
      /\ Len(input) \in Nat /\ nread \in Nat
  BY LenProperties DEF Work, Inv, Says
<1>2. Inv' /\ tool' \in Tool
  BY ServerStep DEF Work
<1>3. open /\ input' = input /\ peer' = peer
  BY DEF monitor_client_read, monitor_client_write, ReadData, ReadEof, ReadError, Event
<1>4. Live' => peer' = "open"
  BY <1>3 DEF Work, Live
<1>5. LinesBelow(input, nread, LineMax) => Reading(input, nread, s) \/ EndRead
  BY DEF Work
<1> SUFFICES /\ LinesBelow(input, nread', LineMax) => Reading(input, nread', s') \/ EndRead'
             /\ ~open' => Ended'
  BY <1>2, <1>3, <1>4 DEF Work
<1>6. CASE ReadData
  <2>1. PICK k \in (nread + 1)..Len(input) :
           /\ nread' = k
           /\ monitor_flush(monitor_commands_feed(s, SubSeq(input, nread + 1, k)), FALSE, 0)
    BY <1>6 DEF ReadData
  <2> DEFINE data == SubSeq(input, nread + 1, k)
             t == monitor_commands_feed(s, data)
  <2>2. data \in Seq(Units)
    <3>1. nread + 1 \in Int /\ k \in Int
      BY <1>1
    <3>2. \A i \in (nread + 1)..k : i \in 1..Len(input)
      BY <1>1
    <3>3. \A i \in (nread + 1)..k : input[i] \in Units
      BY <1>1, <3>2
    <3> QED
      BY <3>1, <3>3, SubSeqProperties
  <2>3. monitor_flush(t, FALSE, 0)
    BY <2>1
  <2>4. ASSUME LinesBelow(input, k, LineMax)
        PROVE  Reading(input, k, t)
    <3>1. k \in Nat /\ nread \in 0..k /\ nread # Len(input)
      BY <1>1
    <3>2. LinesBelow(input, nread, LineMax)
      BY <2>4, <3>1, FewerLines
    <3>3. Reading(input, nread, s)
      BY <1>5, <3>1, <3>2 DEF EndRead
    <3> QED
      BY <1>1, <2>4, <3>3, FeedReads
  <2> HIDE DEF data
  <2>5. Says(out, t)
    BY <1>1, <2>2, FeedSays
  <2> HIDE DEF t
  <2>6. Flushed(t) /\ t \in Shape
    BY <1>1, <2>3, <2>5, FlushEffect DEF Says
  <2>7. /\ s'.line = t.line /\ s'.state = t.state /\ s'.ran = t.ran
        /\ s'.close_after_flush = t.close_after_flush
    BY <2>6 DEF Flushed
  <2>8. ASSUME LinesBelow(input, nread', LineMax)
        PROVE  Reading(input, nread', s')
    <3>1. Reading(input, k, t)
      BY <2>1, <2>4, <2>8
    <3> DEFINE r == s'
    <3>2. r.line = t.line /\ r.state = t.state /\ r.ran = t.ran
      BY <2>7
    <3> HIDE DEF r
    <3>3. Reading(input, k, r)
      BY <3>1, <3>2, ReadingKept
    <3> QED
      BY <2>1, <3>3 DEF r
  <2>9. ~open' => t.close_after_flush
    BY <1>3, <1>6, <2>3, <2>6, FlushCloses DEF ReadData
  <2> QED
    BY <2>7, <2>8, <2>9 DEF Ended
<1>7. CASE ReadEof
  <2> DEFINE t == monitor_commands_flush_on_eof(s)
  <2>1. monitor_flush(t, TRUE, 0) /\ nread' = nread /\ nread = Len(input) /\ peer = "shut"
    BY <1>7 DEF ReadEof
  <2>2. Says(out, t)
    BY <1>1, EofSays
  <2>3. t.line = << >> /\ (s.line = << >> => t.state = s.state /\ t.ran = s.ran)
    BY <1>1, EofAgain
  <2>4. ASSUME LinesBelow(input, nread, LineMax)
        PROVE  Heard(input, nread + 1, t)
    <3>1. CASE Reading(input, nread, s)
      BY <1>1, <2>1, <3>1, EofReads
    <3>2. CASE EndRead
      BY <2>3, <3>2 DEF EndRead, Heard
    <3> QED
      BY <1>5, <2>4, <3>1, <3>2
  <2> HIDE DEF t
  <2>5. Flushed(t)
    BY <1>1, <2>1, <2>2, FlushEffect
  <2>6. s'.line = << >> /\ s'.state = t.state /\ s'.ran = t.ran
    BY <2>3, <2>5 DEF Flushed
  <2>7. ASSUME LinesBelow(input, nread', LineMax)
        PROVE  EndRead'
    <3>1. Heard(input, nread + 1, t)
      BY <2>1, <2>4, <2>7
    <3>2. Heard(input, nread + 1, s')
      BY <2>6, <3>1 DEF Heard
    <3> QED
      BY <1>3, <2>1, <2>6, <3>2 DEF EndRead
  <2>8. Ended'
    BY <1>3, <2>1, <2>6 DEF Ended
  <2> QED
    BY <2>7, <2>8
<1>8. CASE ReadError
  <2>1. s' = s /\ nread' = nread /\ peer = "reset"
    BY <1>8 DEF ReadError, monitor_client_close
  <2> QED
    BY <1>3, <1>5, <2>1 DEF EndRead, Ended
<1>9. CASE monitor_client_write
  <2>1. monitor_flush(s, FALSE, 1) /\ nread' = nread
    BY <1>9 DEF monitor_client_write
  <2>2. Flushed(s)
    BY <1>1, <2>1, FlushEffect
  <2>3. /\ s'.line = s.line /\ s'.state = s.state /\ s'.ran = s.ran
        /\ s'.close_after_flush = s.close_after_flush
    BY <2>2 DEF Flushed
  <2>4. Reading(input, nread, s) => Reading(input, nread, s')
    BY <2>3 DEF Reading, Heard
  <2>5. EndRead => EndRead'
    BY <1>3, <2>1, <2>3 DEF EndRead, Heard
  <2>6. ~open' /\ peer # "reset" => s.close_after_flush
    BY <1>1, <1>3, <2>1, FlushCloses
  <2> QED
    BY <1>3, <1>5, <2>1, <2>3, <2>4, <2>5, <2>6 DEF Ended
<1> QED
  BY <1>6, <1>7, <1>8, <1>9 DEF monitor_client_read

\* What a client may do: it sends only while its side is open.
ClientMoves ==
    /\ UNCHANGED <<s, open, nread, out>>
    /\ peer' = peer \/ peer = "open" \/ peer' = "reset"
    /\ input' = input \/ (peer = "open" /\ \E y \in Seq(Units) : input' = input \o y)

\* Input that is still to be read changes nothing of what was.
LEMMA WorkClient ==
    ASSUME Work, ClientMoves, tool' \in Tool, Live' => peer' = "open"
    PROVE  Work'
<1>1. /\ input \in Seq(Units) /\ nread \in Nat /\ nread <= Len(input) /\ Len(input) \in Nat
  BY LenProperties DEF Work, Inv
<1>2. s' = s /\ open' = open /\ nread' = nread /\ out' = out
  BY DEF ClientMoves
<1>3. Inv'
  BY ClientStep DEF ClientMoves, Work
<1>4. CASE input' = input
  <2>1. EndRead => EndRead'
    BY <1>2, <1>4 DEF EndRead, ClientMoves
  <2>2. Ended => Ended'
    BY <1>2, <1>4 DEF Ended, ClientMoves
  <2> QED
    BY <1>2, <1>3, <1>4, <2>1, <2>2 DEF Work
<1>5. ASSUME NEW y \in Seq(Units), peer = "open", input' = input \o y
      PROVE  Work'
  <2> DEFINE x == input \o y
  <2>1. Joins(x, input, y) /\ x \in Seq(Units)
    BY <1>1, JoinedUnits
  <2> HIDE DEF x
  <2>2. Agree(input, x, nread) /\ Agree(x, input, nread)
    <3>1. nread <= Len(x)
      BY <1>1, <2>1 DEF Joins
    <3>2. \A i \in 1..nread : i \in 1..Len(input)
      BY <1>1
    <3>3. \A i \in 1..nread : input[i] = x[i]
      BY <2>1, <3>2 DEF Joins
    <3> QED
      BY <1>1, <2>1, <3>1, <3>3 DEF Agree
  <2>3. LinesBelow(x, nread, LineMax) => LinesBelow(input, nread, LineMax)
    <3>1. LineMax \in Nat
      BY MonitorAssumption
    <3>2. \A i \in 0..(nread - LineMax) : \A j \in 1..LineMax : i + j \in 1..nread
      BY <1>1, <3>1
    <3> QED
      BY <2>2, <3>2 DEF LinesBelow, Agree
  <2>4. Reading(input, nread, s) => Reading(x, nread, s)
    BY <1>1, <2>2, ReadingSame
  <2>5. ~EndRead
    BY <1>5 DEF EndRead
  <2>6. Ended => Ended'
    BY <1>2, <1>5 DEF Ended
  <2>7. input' = x
    BY <1>5 DEF x
  <2> QED
    BY <1>2, <1>3, <2>3, <2>4, <2>5, <2>6, <2>7 DEF Work
<1> QED
  BY <1>4, <1>5 DEF ClientMoves

\* The program's steps are such steps: it sends from a screen, and closes once.
LEMMA ToolMoves ==
    ASSUME Work, ToolStep
    PROVE  ClientMoves /\ tool' \in Tool /\ (Live' => peer' = "open")
<1>1. tool \in Tool /\ MaxRespLines \in Nat /\ (Live => peer = "open")
  BY ClientAssumption DEF Work
<1>2. CASE read_response
  <2>1. tool' \in {Return(AtDot), Return(AtLine), AtLine} /\ UNCHANGED vars
    BY <1>2 DEF read_response, AtDot, AtLine
  <2>2. AtDot \in Tool /\ AtLine \in Tool /\ AtDot.at = tool.at /\ AtLine.at = tool.at
    BY <1>1, AtTyped
  <2>3. Return(AtDot) \in Tool /\ (~Live => Return(AtDot).at = tool.at)
    BY <2>2, ReturnEffect DEF Live
  <2>4. Return(AtLine) \in Tool /\ (~Live => Return(AtLine).at = tool.at)
    BY <2>2, ReturnEffect DEF Live
  <2>5. tool' \in Tool /\ (~Live => ~Live')
    BY <2>1, <2>2, <2>3, <2>4 DEF Live
  <2> QED
    BY <1>1, <2>1, <2>5 DEF ClientMoves, vars
<1>3. CASE Close /\ Live
  <2>1. tool' \in Tool /\ ~Live'
    BY <1>1, <1>3, CloseTool DEF Live
  <2> QED
    BY <1>1, <1>3, <2>1 DEF ClientMoves, Close
<1>4. ASSUME NEW screen \in {"login", "config", "menu", "quit"}, Live,
             NEW text \in Texts, NEW max \in Nat, Command(text, screen, max)
      PROVE  ClientMoves /\ tool' \in Tool /\ (Live' => peer' = "open")
  <2>1. tool' \in Tool
    BY <1>1, <1>4, CommandTool
  <2>2. UNCHANGED <<s, open, nread, out, peer>> /\ \E y \in Seq(Units) : input' = input \o y
    BY <1>4, CommandStep
  <2> QED
    BY <1>1, <1>4, <2>1, <2>2 DEF ClientMoves
<1>5. CASE screen_login
  <2>1. tool.at = "login" /\ Live
    BY <1>5 DEF screen_login, At, Live
  <2>2. ASSUME NEW text \in {<<"AUTH">>, Refused}, cmd_simple(text)
        PROVE  Command(text, "login", 2) /\ text \in Texts
    BY <2>1, <2>2 DEF cmd_simple, Texts
  <2> QED
    BY <1>3, <1>4, <1>5, <2>1, <2>2 DEF screen_login
<1>6. CASE fetch_config_values
  <2>1. Command(<<"SET">>, "config", 2) /\ Live /\ <<"SET">> \in Texts
    BY <1>6 DEF fetch_config_values, cmd_config_get, cmd_simple, At, Live, Texts
  <2> QED
    BY <1>4, <2>1
<1>7. CASE screen_main_menu
  <2>0. Live /\ tool.at = "menu"
    BY <1>7 DEF screen_main_menu, At, Live
  <2>1. CASE screen_list
    <3>1. Command(<<"LIST">>, "menu", MaxRespLines) /\ <<"LIST">> \in Texts
      BY <2>0, <2>1 DEF screen_list, cmd_list, Texts
    <3> QED
      BY <1>1, <1>4, <2>0, <3>1
  <2>2. CASE screen_change
    <3>1. PICK text \in {<<"SET">>, Refused} : Command(text, "menu", 2)
      BY <2>0, <2>2 DEF screen_change, cmd_simple
    <3>2. text \in Texts
      BY DEF Texts
    <3> QED
      BY <1>4, <2>0, <3>1, <3>2
  <2>3. CASE cmd_quit
    <3>1. Command(<<"QUIT">>, "quit", 0) /\ <<"QUIT">> \in Texts
      BY <2>3 DEF cmd_quit, Texts
    <3> QED
      BY <1>4, <2>0, <3>1
  <2> QED
    BY <1>7, <2>1, <2>2, <2>3 DEF screen_main_menu
<1>8. CASE Disconnect \/ sigint_handler
  BY <1>3, <1>8 DEF Disconnect, sigint_handler, At, Live
<1> QED
  BY <1>2, <1>5, <1>6, <1>7, <1>8 DEF ToolStep

\* Nothing has been read, and nothing has run.
LEMMA InitWork == ToolInit => Work
<1> SUFFICES ASSUME ToolInit
             PROVE  Work
  OBVIOUS
<1>1. Inv /\ s.line = << >> /\ tool \in {Raw, Connected}
  BY InitInv DEF ToolInit
<1>2. /\ input = << >> /\ nread = 0 /\ peer = "open" /\ open = TRUE
      /\ s = monitor_commands_queue_greeting(monitor_commands_session_init)
  BY DEF ToolInit, Init
<1>3. s.state = "AWAIT_AUTH" /\ s.ran = << >>
  <2> DEFINE t == monitor_commands_session_init
  <2>1. /\ t \in Shape /\ t.wb.q = << >> /\ t.wb.off = 0 /\ t.said = << >>
        /\ t.state = "AWAIT_AUTH" /\ t.ran = << >>
    BY DEF monitor_commands_session_init, buffer_init, Shape
  <2>2. << >> \in Seq(Reply) /\ Len(<< >>) = 0 /\ << >> \o << >> = << >>
    OBVIOUS
  <2>3. s = Answer(t, "ok", 1)
    BY <1>2 DEF monitor_commands_queue_greeting
  <2> HIDE DEF t
  <2>4. Says(<< >>, t)
    BY <2>1, <2>2, CapAssumption DEF Says
  <2>5. Answers(t, s, "ok", 1)
    BY <2>2, <2>3, <2>4, AnswerEffect
  <2> QED
    BY <2>1, <2>5 DEF Answers
<1>4. Raw \in Tool /\ Connected \in Tool
  BY DEF Raw, Connected, Tool
<1>5. Heard(input, 0, s)
  <2>1. 1..0 = {} /\ 1..((0 + 1) - 1) = {}
    OBVIOUS
  <2>2. ~Authenticated(input, 0 + 1)
    BY <2>1 DEF Authenticated
  <2>3. Runs(input, 0) = {}
    BY <2>1 DEF Runs
  <2>4. InOrder(s.ran, input, {})
    <3>1. Cardinality({}) = 0
      BY FS_EmptySet
    <3>2. Len(<< >>) = 0
      OBVIOUS
    <3> QED
      BY <1>3, <3>1, <3>2 DEF InOrder
  <2> QED
    BY <1>3, <2>2, <2>3, <2>4 DEF Heard
<1>6. Begun(input, 0, 0) /\ Holds(s.line, input, 0, 0)
  BY <1>1 DEF Begun, Holds
<1>7. Reading(input, nread, s)
  BY <1>2, <1>5, <1>6 DEF Reading
<1> QED
  BY <1>1, <1>2, <1>4, <1>7 DEF Work

\* Every step of the session and of its client keeps it.
LEMMA StepWork == Work /\ [ToolNext]_toolVars => Work'
<1> SUFFICES ASSUME Work, [ToolNext]_toolVars
             PROVE  Work'
  OBVIOUS
<1>1. tool \in Tool /\ (Live => peer = "open") /\ input \in Seq(Units)
  BY DEF Work, Inv
<1>2. CASE (monitor_client_read \/ monitor_client_write) /\ UNCHANGED tool
  BY <1>2, WorkServer
<1>3. CASE tool.at = "raw" /\ ClientSend /\ UNCHANGED tool
  <2>1. PICK u \in Units : input' = Append(input, u)
    BY <1>3 DEF ClientSend
  <2>2. Append(input, u) = input \o <<u>> /\ <<u>> \in Seq(Units)
    BY <1>1, AppendIsConcat
  <2>3. ClientMoves
    BY <1>3, <2>1, <2>2 DEF ClientMoves, ClientSend
  <2> QED
    BY <1>1, <1>3, <2>3, WorkClient DEF ClientSend, Live
<1>4. CASE tool.at \in {"raw", "gone"} /\ (ClientShut \/ ClientReset) /\ UNCHANGED tool
  <2>1. ClientMoves
    BY <1>4 DEF ClientMoves, ClientShut, ClientReset
  <2> QED
    BY <1>1, <1>4, <2>1, WorkClient DEF Live
<1>5. CASE ToolStep
  BY <1>5, ToolMoves, WorkClient
<1>6. CASE UNCHANGED toolVars
  <2>1. ClientMoves /\ tool' = tool /\ peer' = peer
    BY <1>6 DEF ClientMoves, toolVars, vars
  <2> QED
    BY <1>1, <2>1, WorkClient DEF Live
<1> QED
  BY <1>2, <1>3, <1>4, <1>5, <1>6 DEF ToolNext

\* The commands that ran are those of the lines read, in both of its cases.
LEMMA WorkExact == Work => CommandsExact
<1> SUFFICES ASSUME Work, LinesBelow(input, nread, LineMax)
             PROVE  InOrder(s.ran, input,
                            Runs(input, IF s.line = << >> THEN nread + 1 ELSE nread))
  BY DEF CommandsExact
<1>1. nread \in Nat /\ s \in Shape
  BY DEF Work, Inv, Says
<1>2. CASE EndRead
  BY <1>2 DEF EndRead, Heard
<1>3. CASE Reading(input, nread, s)
  <2>1. CASE s.line # << >>
    BY <1>3, <2>1 DEF Reading, Heard
  <2>2. CASE s.line = << >>
    <3>1. PICK p \in 0..nread : Begun(input, p, nread) /\ Holds(s.line, input, p, nread)
      BY <1>3 DEF Reading
    <3>2. LineTo(input, nread + 1) = << >>
      BY <1>1, <2>2, <3>1, LineFound
    <3>3. CommandAt(input, nread + 1) = "none"
      BY <3>2 DEF CommandAt, StripCr, split_line
    <3>4. Heard(input, nread + 1, s)
      BY <1>1, <1>3, <3>3, HeardOn DEF Reading
    <3> QED
      BY <2>2, <3>4 DEF Heard
  <2> QED
    BY <2>1, <2>2
<1> QED
  BY <1>2, <1>3 DEF Work

\* However the client's input is cut into reads, the commands that ran are
\* those of the lines read so far, in order, behind the AUTH that admitted
\* them, where no line is as long as the session's limit.
THEOREM CommandsAreExact == ToolSpec => []CommandsExact
BY InitWork, StepWork, WorkExact, PTL DEF ToolSpec

\* A session that ends without QUIT and without an error has run every command
\* it was sent, a last line without newline included.
THEOREM HalfCloseIsServed == ToolSpec => []HalfCloseServed
<1>1. Work => HalfCloseServed
  <2> SUFFICES ASSUME Work, ~open, peer # "reset", ~s.close_after_flush,
                      LinesBelow(input, Len(input), LineMax)
               PROVE  /\ nread = Len(input)
                      /\ InOrder(s.ran, input, Runs(input, Len(input) + 1))
    BY DEF HalfCloseServed
  <2>1. nread = Len(input) /\ s.line = << >>
    BY DEF Work, Ended
  <2>2. CommandsExact
    BY WorkExact
  <2> QED
    BY <2>1, <2>2 DEF CommandsExact
<1> QED
  BY <1>1, InitWork, StepWork, PTL DEF ToolSpec
=============================================================================
