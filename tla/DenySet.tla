------------------------------ MODULE DenySet ------------------------------
(***************************************************************************)
(* What the deny rules promise: a set of host names and a set of           *)
(* addresses.  A command answers whether it changed them.                  *)
(***************************************************************************)
CONSTANTS Texts, Addr, NoAddr

VARIABLES denied, answer

\* The rule a text stands for: an address can be written in several ways.
HostKeys(t) == IF Addr[t] = NoAddr THEN {t} ELSE {}
AddrKeys(t) == IF Addr[t] = NoAddr THEN {} ELSE {Addr[t]}

Init ==
    /\ denied = [host |-> {}, addr |-> {}]
    /\ answer = "none"

DenyHost(t) ==
    LET new == HostKeys(t) \ denied.host
    IN  /\ denied' = [denied EXCEPT !.host = @ \cup new]
        /\ answer' = IF new = {} THEN "ERR" ELSE "OK"

DenyIp(t) ==
    LET new == AddrKeys(t) \ denied.addr
    IN  /\ denied' = [denied EXCEPT !.addr = @ \cup new]
        /\ answer' = IF new = {} THEN "ERR" ELSE "OK"

Undeny(t) ==
    LET old == (HostKeys(t) \cap denied.host) \cup (AddrKeys(t) \cap denied.addr)
    IN  /\ denied' = [host |-> denied.host \ HostKeys(t),
                      addr |-> denied.addr \ AddrKeys(t)]
        /\ answer' = IF old = {} THEN "ERR" ELSE "OK"

Next == \E t \in Texts : DenyHost(t) \/ DenyIp(t) \/ Undeny(t)

Spec == Init /\ [][Next]_<<denied, answer>>
=============================================================================
