--------------------------- MODULE ConnectionLimit ---------------------------
(***************************************************************************)
(* What the store promises about CONFIG max_connections: at most limit     *)
(* sessions at a time, a session refused only when that many are open, and *)
(* a limit that never drops below the sessions already open.               *)
(***************************************************************************)
EXTENDS Integers, FiniteSets

CONSTANT LimitMax          \* largest value the limit may be set to

VARIABLES open, limit, answer

vars == <<open, limit, answer>>

Ids == Nat \ {0}

Init ==
    /\ open = {}
    /\ limit \in 1..LimitMax
    /\ answer = 0

\* A new session gets an identifier no open session has.
Admit ==
    /\ Cardinality(open) < limit
    /\ answer' \in Ids \ open
    /\ open' = open \cup {answer'}
    /\ UNCHANGED limit

\* 0 is the refusal.
Refuse ==
    /\ Cardinality(open) >= limit
    /\ answer' = 0
    /\ UNCHANGED <<open, limit>>

Leave ==
    /\ \E id \in open : open' = open \ {id}
    /\ UNCHANGED <<limit, answer>>

SetLimit ==
    /\ \E l \in 1..LimitMax : Cardinality(open) <= l /\ limit' = l
    /\ UNCHANGED <<open, answer>>

Next == Admit \/ Refuse \/ Leave \/ SetLimit

Spec == Init /\ [][Next]_vars
=============================================================================
