------------------------------- MODULE Buffer -------------------------------
(***************************************************************************)
(* The byte buffer of src/shared/buffer.c, seen by its callers.            *)
(*                                                                         *)
(*   data             read              write            limit             *)
(*    |<---- off ----->|<---- Len(q) ---->|<--- space ---->|               *)
(*                                                                         *)
(* q is what lies between the read and the write pointer, off the bytes in *)
(* front of it that were read and not reclaimed yet.  Writing is possible  *)
(* only behind q: space in front of it comes back with a compaction.       *)
(* BufferMemory models the memory and the pointers and implements this.    *)
(***************************************************************************)
EXTENDS Integers, Sequences

CONSTANT Cap          \* bytes of backing store (CONFIG io_buffer_size)

ASSUME CapAssumption == Cap \in Nat \ {0}

buffer_init == [q |-> << >>, off |-> 0]

\* What buffer_write_ptr reports as available.
buffer_space(b) == Cap - (b.off + Len(b.q))

buffer_can_write(b) == buffer_space(b) > 0

buffer_can_read(b) == b.q # << >>

\* Bytes d stored at the write pointer, then buffer_write_adv(b, Len(d)).
buffer_write_adv(b, d) == [q |-> b.q \o d, off |-> b.off]

\* The n oldest bytes: what a write() of n bytes from the read pointer sends.
buffer_peek(b, n) == SubSeq(b.q, 1, n)

buffer_compact(b) == [q |-> b.q, off |-> 0]

\* Reading the last byte compacts at once.
buffer_read_adv(b, n) ==
    LET rest == SubSeq(b.q, n + 1, Len(b.q))
    IN  [q |-> rest, off |-> IF rest = << >> THEN 0 ELSE b.off + n]

Buffers(V) == {b \in [q : Seq(V), off : 0..Cap] : b.off + Len(b.q) <= Cap}
=============================================================================
