---------------------------- MODULE BufferMemory ----------------------------
(***************************************************************************)
(* The buffer of src/shared/buffer.c as it is in memory: an array of Cap   *)
(* bytes and two pointers into it, read and write (offsets from data;      *)
(* limit is Cap).  Every call a user of the buffer makes is an action.     *)
(*                                                                         *)
(* Module Buffer describes the same calls as operators on a queue; its     *)
(* operators are what the session models use.  Agrees states that the      *)
(* memory behaves as they say.                                             *)
(***************************************************************************)
EXTENDS Buffer

CONSTANT Bytes            \* byte values

VARIABLES mem, read, write

vars == <<mem, read, write>>

Init ==
    /\ mem \in [1..Cap -> Bytes]      \* the backing store is not cleared
    /\ read = 0
    /\ write = 0

-----------------------------------------------------------------------------
available == Cap - write

pending == write - read

\* read() or memcpy() puts d at the pointer buffer_write_ptr returned, then
\* buffer_write_adv.  buffer_write is the case Len(d) = 1.
Fill(d) ==
    /\ Len(d) <= available
    /\ mem' = [a \in 1..Cap |->
                 IF a \in (write + 1)..(write + Len(d)) THEN d[a - write]
                 ELSE mem[a]]
    /\ write' = write + Len(d)
    /\ UNCHANGED read

\* Mutant (Agrees): the last byte is not moved.
memmove_OneShort(from, n) ==
    [a \in 1..Cap |-> IF a < n THEN mem[from + a] ELSE mem[a]]

\* memmove(data, from, n): the regions may overlap and are copied as a whole.
memmove(from, n) == [a \in 1..Cap |-> IF a <= n THEN mem[from + a] ELSE mem[a]]

\* buffer_compact with the pointers at r and write.
CompactFrom(r) ==
    IF r = 0 THEN read' = r /\ UNCHANGED <<mem, write>>
    ELSE IF r = write THEN read' = 0 /\ write' = 0 /\ UNCHANGED mem
    ELSE /\ mem' = memmove(r, write - r)
         /\ read' = 0
         /\ write' = write - r

Compact == CompactFrom(read)

\* buffer_read_adv.  buffer_read is the case n = 1.
Drain(n) ==
    /\ n <= pending
    /\ IF read + n = write
         THEN CompactFrom(read + n)
         ELSE read' = read + n /\ UNCHANGED <<mem, write>>

Reset == read' = 0 /\ write' = 0 /\ UNCHANGED mem

Chunks == UNION {[1..n -> Bytes] : n \in 1..Cap}

Next ==
    \/ \E d \in Chunks : Fill(d)
    \/ \E n \in 1..Cap : Drain(n)
    \/ Compact
    \/ Reset

Spec == Init /\ [][Next]_vars

-----------------------------------------------------------------------------
\* The buffer as Buffer sees it.
contents == [i \in 1..(write - read) |-> mem[read + i]]

b == [q |-> contents, off |-> read]

\* The pointers stay ordered inside the array: the assertions of buffer.c.
TypeOK ==
    /\ mem \in [1..Cap -> Bytes]
    /\ write \in 0..Cap
    /\ read \in 0..write

\* Between the pointers lies exactly what was written and not yet read, in
\* order, wherever compactions have moved it: each call does to the memory
\* what the operator of Buffer with its name does to the queue.
Agrees ==
    [][/\ \A d \in Chunks : Fill(d) => b' = buffer_write_adv(b, d)
       /\ \A n \in 1..Cap : Drain(n) => b' = buffer_read_adv(b, n)
       /\ Compact => b' = buffer_compact(b)
       /\ Reset => b' = buffer_init]_vars

\* buffer_write_ptr and buffer_read_ptr report the room and the bytes that
\* Buffer says there are.
RoomAgrees ==
    /\ available = buffer_space(b)
    /\ pending = Len(b.q)
    /\ \A n \in 0..pending :
          buffer_peek(b, n) = [i \in 1..n |-> mem[read + i]]
=============================================================================
