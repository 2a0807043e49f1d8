------------------------- MODULE BufferMemory_proofs -------------------------
(***************************************************************************)
(* Proof that the memory of buffer.c behaves as module Buffer says, for    *)
(* every capacity and every byte alphabet.                                 *)
(***************************************************************************)
EXTENDS BufferMemory, SequenceTheorems, TLAPS

\* A chunk is a sequence of at most Cap bytes.
LEMMA ChunkIsSeq ==
    ASSUME NEW d \in Chunks
    PROVE  d \in Seq(Bytes) /\ Len(d) \in 1..Cap
<1>1. PICK n \in 1..Cap : d \in [1..n -> Bytes]
  BY DEF Chunks
<1>2. n \in Nat
  BY <1>1, CapAssumption
<1> QED
  BY <1>1, <1>2

\* The pointers stay ordered inside the array.
LEMMA NextType == TypeOK /\ [Next]_vars => TypeOK'
<1> SUFFICES ASSUME TypeOK, [Next]_vars
             PROVE  TypeOK'
  OBVIOUS
<1> USE CapAssumption
<1>1. Cap \in Nat /\ write \in Nat /\ read \in Nat /\ read <= write /\ write <= Cap
  BY DEF TypeOK
<1>2. ASSUME NEW d \in Chunks, Fill(d)
      PROVE  TypeOK'
  <2>1. d \in Seq(Bytes) /\ Len(d) \in Nat
    BY ChunkIsSeq
  <2>2. write' \in 0..Cap /\ read' \in 0..write'
    BY <1>1, <1>2, <2>1 DEF Fill, available
  <2>3. \A a \in 1..Cap :
           a \in (write + 1)..(write + Len(d)) => d[a - write] \in Bytes
    <3> SUFFICES ASSUME NEW a \in 1..Cap, a \in (write + 1)..(write + Len(d))
                 PROVE  d[a - write] \in Bytes
      OBVIOUS
    <3>1. a - write \in 1..Len(d)
      BY <1>1, <2>1
    <3> QED
      BY <2>1, <3>1
  <2>4. mem' \in [1..Cap -> Bytes]
    BY <1>2, <2>3 DEF Fill, TypeOK
  <2> QED
    BY <2>2, <2>4 DEF TypeOK
<1>3. ASSUME NEW r \in read..write, CompactFrom(r)
      PROVE  TypeOK'
  <2>1. CASE r = 0
    BY <1>1, <1>3, <2>1 DEF CompactFrom, TypeOK
  <2>2. CASE r # 0 /\ r = write
    BY <1>1, <1>3, <2>2 DEF CompactFrom, TypeOK
  <2>3. CASE r # 0 /\ r # write
    <3>1. mem' = memmove(r, write - r) /\ read' = 0 /\ write' = write - r
      BY <1>3, <2>3 DEF CompactFrom
    <3>2. \A a \in 1..Cap : a <= write - r => mem[r + a] \in Bytes
      <4> SUFFICES ASSUME NEW a \in 1..Cap, a <= write - r
                   PROVE  mem[r + a] \in Bytes
        OBVIOUS
      <4>1. r + a \in 1..Cap
        BY <1>1
      <4> QED
        BY <4>1 DEF TypeOK
    <3>3. mem' \in [1..Cap -> Bytes]
      BY <3>1, <3>2 DEF memmove, TypeOK
    <3> QED
      BY <1>1, <3>1, <3>3 DEF TypeOK
  <2> QED
    BY <2>1, <2>2, <2>3
<1>4. ASSUME NEW n \in 1..Cap, Drain(n)
      PROVE  TypeOK'
  <2>1. read + n \in read..write
    BY <1>1, <1>4 DEF Drain, pending
  <2>2. CASE read + n = write
    BY <1>3, <1>4, <2>1, <2>2 DEF Drain
  <2>3. CASE read + n # write
    BY <1>1, <1>4, <2>1, <2>3 DEF Drain, TypeOK
  <2> QED
    BY <2>2, <2>3
<1>5. CASE Compact
  <2>1. read \in read..write
    BY <1>1
  <2> QED
    BY <1>3, <1>5, <2>1 DEF Compact
<1>6. CASE Reset
  BY <1>1, <1>6 DEF Reset, TypeOK
<1>7. CASE UNCHANGED vars
  BY <1>7 DEF vars, TypeOK
<1> QED
  BY <1>2, <1>4, <1>5, <1>6, <1>7 DEF Next

\* The assertions of buffer.c hold in every reachable state.
THEOREM TypeCorrect == Spec => []TypeOK
<1>1. Init => TypeOK
  BY CapAssumption DEF Init, TypeOK
<1> QED
  BY <1>1, NextType, PTL DEF Spec

\* What lies between two ordered pointers is a sequence of bytes.
LEMMA RegionIsSeq ==
    ASSUME NEW m \in [1..Cap -> Bytes], NEW w \in 0..Cap, NEW r \in 0..w
    PROVE  /\ [i \in 1..(w - r) |-> m[r + i]] \in Seq(Bytes)
           /\ Len([i \in 1..(w - r) |-> m[r + i]]) = w - r
           /\ \A j \in 1..(w - r) : [i \in 1..(w - r) |-> m[r + i]][j] = m[r + j]
<1>1. Cap \in Nat /\ w - r \in Nat /\ r \in Nat /\ w \in Nat /\ w <= Cap
  BY CapAssumption
<1>2. \A i \in 1..(w - r) : m[r + i] \in Bytes
  <2> SUFFICES ASSUME NEW i \in 1..(w - r)
               PROVE  m[r + i] \in Bytes
    OBVIOUS
  <2>1. r + i \in 1..Cap
    BY <1>1
  <2> QED
    BY <2>1
<1>3. [i \in 1..(w - r) |-> m[r + i]] \in [1..(w - r) -> Bytes]
  BY <1>2
<1> QED
  BY <1>1, <1>3

\* In particular the contents, before and after a step.
LEMMA ContentsIsSeq ==
    ASSUME TypeOK
    PROVE  /\ contents \in Seq(Bytes)
           /\ Len(contents) = write - read
           /\ \A i \in 1..(write - read) : contents[i] = mem[read + i]
  BY RegionIsSeq DEF TypeOK, contents

\* Fill appends.
LEMMA FillAppends ==
    ASSUME TypeOK, TypeOK', NEW d \in Chunks, Fill(d)
    PROVE  b' = buffer_write_adv(b, d)
<1> USE CapAssumption
<1>1. /\ Cap \in Nat /\ write \in Nat /\ read \in Nat
      /\ read <= write /\ write <= Cap
  BY DEF TypeOK
<1>2. d \in Seq(Bytes) /\ Len(d) \in Nat
  BY ChunkIsSeq
<1>3. read' = read /\ write' = write + Len(d) /\ write + Len(d) <= Cap
  BY <1>1, <1>2 DEF Fill, available
<1>4. /\ contents \in Seq(Bytes) /\ Len(contents) = write - read
      /\ \A i \in 1..(write - read) : contents[i] = mem[read + i]
  BY ContentsIsSeq
<1>5. /\ contents' \in Seq(Bytes) /\ Len(contents') = write' - read'
      /\ \A i \in 1..(write' - read') : contents'[i] = mem'[read' + i]
  BY RegionIsSeq DEF TypeOK, contents
<1>6. contents' = contents \o d
  <2>1. /\ contents \o d \in Seq(Bytes)
        /\ Len(contents \o d) = write - read + Len(d)
        /\ \A i \in 1..Len(contents) + Len(d) :
              (contents \o d)[i] = IF i <= Len(contents) THEN contents[i]
                                   ELSE d[i - Len(contents)]
    BY <1>2, <1>4, ConcatProperties
  <2>2. Len(contents') = Len(contents \o d)
    BY <1>1, <1>2, <1>3, <1>5, <2>1
  <2>3. ASSUME NEW i \in 1..Len(contents')
        PROVE  contents'[i] = (contents \o d)[i]
    <3>1. i \in Nat /\ i >= 1 /\ i <= write - read + Len(d) /\ read + i \in 1..Cap
      BY <1>1, <1>2, <1>3, <1>5
    <3>2. contents'[i] = mem'[read + i]
      BY <1>3, <1>5, <2>3
    <3>3. CASE i <= write - read
      <4>1. read + i \notin (write + 1)..(write + Len(d))
        BY <1>1, <1>2, <3>1, <3>3
      <4>2. mem'[read + i] = mem[read + i]
        BY <3>1, <4>1 DEF Fill
      <4> QED
        BY <1>1, <1>2, <1>4, <2>1, <3>1, <3>2, <3>3, <4>2
    <3>4. CASE ~(i <= write - read)
      <4>1. /\ read + i \in (write + 1)..(write + Len(d))
            /\ (read + i) - write = i - (write - read)
        BY <1>1, <1>2, <3>1, <3>4
      <4>2. mem'[read + i] = d[(read + i) - write]
        BY <3>1, <4>1 DEF Fill
      <4> QED
        BY <1>1, <1>2, <1>4, <2>1, <3>1, <3>2, <3>4, <4>1, <4>2
    <3> QED
      BY <3>3, <3>4
  <2> QED
    BY <1>5, <2>1, <2>2, <2>3, SeqEqual
<1> QED
  BY <1>3, <1>6 DEF b, buffer_write_adv

\* Moving the bytes from r on to the front leaves them as the contents.
LEMMA CompactKeeps ==
    ASSUME TypeOK, TypeOK', NEW r \in read..write, CompactFrom(r)
    PROVE  /\ read' = 0
           /\ write' = write - r
           /\ contents' = [i \in 1..(write - r) |-> mem[r + i]]
<1> USE CapAssumption
<1>1. /\ Cap \in Nat /\ write \in Nat /\ read \in Nat /\ r \in Nat
      /\ read <= r /\ r <= write /\ write <= Cap
  BY DEF TypeOK
<1>2. read' = 0 /\ write' = write - r
  BY <1>1 DEF CompactFrom
<1>3. \A i \in 1..(write - r) : mem'[i] = mem[r + i]
  <2> SUFFICES ASSUME NEW i \in 1..(write - r)
               PROVE  mem'[i] = mem[r + i]
    OBVIOUS
  <2>1. CASE r = 0
    BY <1>1, <2>1 DEF CompactFrom
  <2>2. CASE r # 0
    <3>1. r # write
      BY <1>1
    <3>2. mem' = memmove(r, write - r)
      BY <2>2, <3>1 DEF CompactFrom
    <3>3. i \in 1..Cap /\ i <= write - r
      BY <1>1
    <3> QED
      BY <3>2, <3>3 DEF memmove
  <2> QED
    BY <2>1, <2>2
<1>4. contents' = [i \in 1..(write - r) |-> mem'[i]]
  <2>1. contents' = [i \in 1..(write' - read') |-> mem'[read' + i]]
    BY DEF contents
  <2>2. write' - read' = write - r
    BY <1>1, <1>2
  <2>3. \A i \in 1..(write - r) : read' + i = i
    BY <1>1, <1>2
  <2> QED
    BY <2>1, <2>2, <2>3
<1> QED
  BY <1>2, <1>3, <1>4

\* Drain removes from the front.
LEMMA DrainRemoves ==
    ASSUME TypeOK, TypeOK', NEW n \in 1..Cap, Drain(n)
    PROVE  b' = buffer_read_adv(b, n)
<1> USE CapAssumption
<1> DEFINE rest == SubSeq(contents, n + 1, Len(contents))
<1>1. /\ Cap \in Nat /\ write \in Nat /\ read \in Nat /\ n \in Nat /\ n >= 1
      /\ read + n <= write /\ write <= Cap
  BY DEF TypeOK, Drain, pending
<1>2. /\ contents \in Seq(Bytes) /\ Len(contents) = write - read
      /\ \A i \in 1..(write - read) : contents[i] = mem[read + i]
  BY ContentsIsSeq
<1>3. /\ rest \in Seq(Bytes)
      /\ Len(rest) = write - (read + n)
      /\ \A i \in 1..(write - (read + n)) : rest[i] = mem[(read + n) + i]
  <2>1. n + 1 \in 1..(Len(contents) + 1) /\ Len(contents) \in 0..Len(contents)
    BY <1>1, <1>2
  <2>2. /\ rest \in Seq(Bytes)
        /\ Len(rest) = IF n + 1 <= Len(contents) THEN Len(contents) - (n + 1) + 1 ELSE 0
        /\ \A i \in 1..(Len(contents) - (n + 1) + 1) :
              rest[i] = contents[(n + 1) + i - 1]
    BY <1>1, <1>2, <2>1
  <2>3. Len(rest) = write - (read + n)
    BY <1>1, <1>2, <2>2
  <2>4. \A i \in 1..(write - (read + n)) : rest[i] = mem[(read + n) + i]
    <3> SUFFICES ASSUME NEW i \in 1..(write - (read + n))
                 PROVE  rest[i] = mem[(read + n) + i]
      OBVIOUS
    <3>1. /\ i \in 1..(Len(contents) - (n + 1) + 1)
          /\ (n + 1) + i - 1 = n + i
          /\ n + i \in 1..(write - read)
          /\ read + (n + i) = (read + n) + i
      BY <1>1, <1>2
    <3>2. rest[i] = contents[n + i]
      BY <2>2, <3>1
    <3> QED
      BY <1>2, <3>1, <3>2
  <2> QED
    BY <2>2, <2>3, <2>4
<1>4. rest = [i \in 1..(write - (read + n)) |-> mem[(read + n) + i]]
  BY <1>3
<1> HIDE DEF rest
<1>5. rest = << >> <=> read + n = write
  <2>1. rest = << >> => Len(rest) = 0
    BY EmptySeq
  <2>2. rest # << >> => Len(rest) # 0
    BY <1>3, EmptySeq
  <2>3. Len(rest) = 0 <=> read + n = write
    BY <1>1, <1>3
  <2> QED
    BY <2>1, <2>2, <2>3
<1>6. buffer_read_adv(b, n) =
        [q |-> rest, off |-> IF rest = << >> THEN 0 ELSE read + n]
  BY DEF buffer_read_adv, b, rest
<1>7. CASE read + n = write
  <2>1. CompactFrom(read + n)
    BY <1>7 DEF Drain
  <2>2. read + n \in read..write
    BY <1>1
  <2>3. read' = 0 /\ contents' = [i \in 1..(write - (read + n)) |-> mem[(read + n) + i]]
    BY <2>1, <2>2, CompactKeeps
  <2> QED
    BY <1>4, <1>5, <1>6, <1>7, <2>3 DEF b
<1>8. CASE read + n # write
  <2>1. read' = read + n /\ mem' = mem /\ write' = write
    BY <1>8 DEF Drain
  <2>2. contents' = [i \in 1..(write - (read + n)) |-> mem[(read + n) + i]]
    BY <2>1 DEF contents
  <2> QED
    BY <1>4, <1>5, <1>6, <1>8, <2>1, <2>2 DEF b
<1> QED
  BY <1>7, <1>8

\* Compact keeps the contents and reclaims what lies before them.
LEMMA CompactReclaims ==
    ASSUME TypeOK, TypeOK', Compact
    PROVE  b' = buffer_compact(b)
<1>1. read \in read..write
  BY CapAssumption DEF TypeOK
<1>2. read' = 0 /\ contents' = [i \in 1..(write - read) |-> mem[read + i]]
  BY <1>1, CompactKeeps DEF Compact
<1>3. contents' = contents
  BY <1>2 DEF contents
<1> QED
  BY <1>2, <1>3 DEF b, buffer_compact

\* Reset empties the buffer.
LEMMA ResetEmpties ==
    ASSUME Reset
    PROVE  b' = buffer_init
<1>1. read' = 0 /\ write' = 0
  BY DEF Reset
<1>2. contents' = << >>
  BY <1>1 DEF contents
<1> QED
  BY <1>1, <1>2 DEF b, buffer_init

\* Every call does to the memory what Buffer's operator does to the queue.
THEOREM MemoryAgrees == Spec => Agrees
<1> DEFINE A ==
      /\ \A d \in Chunks : Fill(d) => b' = buffer_write_adv(b, d)
      /\ \A n \in 1..Cap : Drain(n) => b' = buffer_read_adv(b, n)
      /\ Compact => b' = buffer_compact(b)
      /\ Reset => b' = buffer_init
<1>1. TypeOK /\ TypeOK' => A
  BY FillAppends, DrainRemoves, CompactReclaims, ResetEmpties
<1>2. TypeOK /\ TypeOK' => [A]_vars
  BY <1>1
<1> HIDE DEF A
<1>3. Spec => [][A]_vars
  BY <1>2, TypeCorrect, PTL DEF Spec
<1> QED
  BY <1>3 DEF A, Agrees

\* The pointers report the room and the bytes Buffer says there are.
THEOREM RoomAlwaysAgrees == Spec => []RoomAgrees
<1>1. TypeOK => RoomAgrees
  <2> SUFFICES ASSUME TypeOK
               PROVE  RoomAgrees
    OBVIOUS
  <2> USE CapAssumption
  <2>1. /\ Cap \in Nat /\ write \in Nat /\ read \in Nat
        /\ read <= write /\ write <= Cap
    BY DEF TypeOK
  <2>2. /\ contents \in Seq(Bytes) /\ Len(contents) = write - read
        /\ \A i \in 1..(write - read) : contents[i] = mem[read + i]
    BY ContentsIsSeq
  <2>3. available = buffer_space(b) /\ pending = Len(b.q)
    BY <2>1, <2>2 DEF available, pending, buffer_space, b
  <2>4. ASSUME NEW n \in 0..pending
        PROVE  buffer_peek(b, n) = [i \in 1..n |-> mem[read + i]]
    <3>1. n \in Nat /\ n <= write - read
      BY <2>1 DEF pending
    <3>2. buffer_peek(b, n) = [i \in 1..n |-> contents[i]]
      BY <2>2, <3>1 DEF buffer_peek, b
    <3>3. \A i \in 1..n : contents[i] = mem[read + i]
      BY <2>1, <2>2, <3>1
    <3> QED
      BY <3>2, <3>3
  <2> QED
    BY <2>3, <2>4 DEF RoomAgrees
<1> QED
  BY <1>1, TypeCorrect, PTL
=============================================================================
