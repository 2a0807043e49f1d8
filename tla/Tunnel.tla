------------------------------- MODULE Tunnel -------------------------------
(***************************************************************************)
(* What a SOCKS session promises its two ends.  A client is heard, is told *)
(* once whether it has a tunnel, and through the tunnel the two streams go *)
(* in order and without gaps until the session is over.  A client that was *)
(* refused has nothing relayed.                                            *)
(*                                                                         *)
(* The bytes of a stream are numbered; the client's first ones are the     *)
(* handshake, which the proxy keeps for itself.                            *)
(***************************************************************************)
EXTENDS Naturals, Sequences

VARIABLES
    first,        \* bytes of the handshake
    verdict,      \* what the client was told
    up,           \* what the origin has received
    down,         \* what the client has received of the origin
    over          \* the session has ended

vars == <<first, verdict, up, down, over>>

Init ==
    /\ first = 0
    /\ verdict = "none"
    /\ up = << >>
    /\ down = << >>
    /\ over = FALSE

\* The n bytes of a stream behind the first lo.
Stream(lo, n) == [i \in 1..n |-> lo + i]

Hear ==
    /\ ~over
    /\ verdict = "none"
    /\ first' = first + 1
    /\ UNCHANGED <<verdict, up, down, over>>

\* A session may end with the very answer.
Admit ==
    /\ ~over
    /\ verdict = "none"
    /\ verdict' = "ok"
    /\ over' \in BOOLEAN
    /\ UNCHANGED <<first, up, down>>

\* With the last byte of a request, or later.
Refuse ==
    /\ ~over
    /\ verdict = "none"
    /\ first' \in {first, first + 1}
    /\ verdict' = "no"
    /\ over' \in BOOLEAN
    /\ UNCHANGED <<up, down>>

Relay ==
    /\ ~over
    /\ verdict = "ok"
    /\ Len(up') >= Len(up) /\ up' = Stream(first, Len(up'))
    /\ Len(down') >= Len(down) /\ down' = Stream(0, Len(down'))
    /\ UNCHANGED <<first, verdict, over>>

End ==
    /\ ~over
    /\ over' = TRUE
    /\ UNCHANGED <<first, verdict, up, down>>

\* The next client.
Accept == over /\ Init'

Next == Hear \/ Admit \/ Refuse \/ Relay \/ End \/ Accept

Spec == Init /\ [][Next]_vars
=============================================================================
