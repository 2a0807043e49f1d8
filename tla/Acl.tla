-------------------------------- MODULE Acl --------------------------------
(***************************************************************************)
(* The deny rules of the store (src/server/monitor/store.c): two singly    *)
(* linked lists with a pointer to the last rule, changed by the DENY_HOST, *)
(* DENY_IP and UNDENY commands and searched on every CONNECT.              *)
(***************************************************************************)
EXTENDS Integers, FiniteSets

CONSTANTS
    Rules,        \* addresses of struct acl_rule
    NULL,
    Texts,        \* arguments of the commands
    Addr,         \* Addr[t]: the address inet_pton reads in t, or NoAddr
    NoAddr

ASSUME AclAssumption ==
    /\ IsFiniteSet(Rules)
    /\ NULL \notin Rules
    /\ NULL \notin Texts
    /\ DOMAIN Addr = Texts
    /\ \A t \in Texts : Addr[t] \notin Texts \cup {NULL}

Kinds == {"host", "addr"}
Addresses == {Addr[t] : t \in Texts} \ {NoAddr}
Names == {t \in Texts : Addr[t] = NoAddr}

VARIABLES
    first,        \* denied_hosts, denied_addresses
    last,         \* last_denied_host, last_denied_addr
    next,
    key,          \* rule->host or rule->ip; NULL in a freed rule
    answer        \* of the last command

vars == <<first, last, next, key, answer>>

Init ==
    /\ first = [k \in Kinds |-> NULL]
    /\ last = [k \in Kinds |-> NULL]
    /\ next = [r \in Rules |-> NULL]
    /\ key = [r \in Rules |-> NULL]
    /\ answer = "none"

-----------------------------------------------------------------------------
\* Walk(k)[i] is the rule a loop over list k is at after i rules.
Walk(k) ==
    LET w[i \in 0..Cardinality(Rules)] ==
          IF i = 0 THEN first[k]
          ELSE IF w[i - 1] = NULL THEN NULL ELSE next[w[i - 1]]
    IN  w

Chain(k) == {Walk(k)[i] : i \in DOMAIN Walk(k)} \ {NULL}

\* host_rule_match compares texts, ip_rule_match addresses.
Match(k, r, t) ==
    IF k = "host" THEN key[r] = t ELSE Addr[t] # NoAddr /\ key[r] = Addr[t]

\* is_host_denied, is_ip_denied.
is_denied(k, t) == \E r \in Chain(k) : Match(k, r, t)

\* add_host_rule, add_ip_rule: behind the last rule.
add_rule(k, r) ==
    IF last[k] = NULL
      THEN /\ first' = [first EXCEPT ![k] = r]
           /\ last' = [last EXCEPT ![k] = r]
           /\ next' = [next EXCEPT ![r] = NULL]
      ELSE /\ next' = [next EXCEPT ![last[k]] = r, ![r] = NULL]
           /\ last' = [last EXCEPT ![k] = r]
           /\ UNCHANGED first

\* calloc returns a free rule.  A text that is an address is refused.
store_deny_host(t) ==
    \E r \in Rules :
       /\ key[r] = NULL
       /\ ~is_denied("host", t)
       /\ Addr[t] = NoAddr
       /\ add_rule("host", r)
       /\ key' = [key EXCEPT ![r] = t]
       /\ answer' = "OK"

\* Mutant (ImplementsSet): a rule that is there already is added again.
store_deny_ip_Twice(t) ==
    \E r \in Rules :
       /\ key[r] = NULL
       /\ Addr[t] # NoAddr
       /\ add_rule("addr", r)
       /\ key' = [key EXCEPT ![r] = Addr[t]]
       /\ answer' = "OK"

store_deny_ip(t) ==
    \E r \in Rules :
       /\ key[r] = NULL
       /\ ~is_denied("addr", t)
       /\ Addr[t] # NoAddr
       /\ add_rule("addr", r)
       /\ key' = [key EXCEPT ![r] = Addr[t]]
       /\ answer' = "OK"

\* store_undeny_host, store_undeny_ip: the first match is unlinked and freed.
store_undeny(k, t) ==
    \E i \in DOMAIN Walk(k) :
       LET r == Walk(k)[i]
           previous == IF i = 0 THEN NULL ELSE Walk(k)[i - 1]
       IN  /\ r # NULL /\ Match(k, r, t)
           /\ \A j \in 0..(i - 1) : ~Match(k, Walk(k)[j], t)
           /\ IF i = 0 THEN first' = [first EXCEPT ![k] = next[r]] /\ UNCHANGED next
                       ELSE next' = [next EXCEPT ![previous] = next[r]] /\ UNCHANGED first
           /\ last' = IF last[k] = r THEN [last EXCEPT ![k] = previous] ELSE last
           /\ key' = [key EXCEPT ![r] = NULL]
           /\ answer' = "OK"

Refused ==
    /\ answer' = "ERR"
    /\ UNCHANGED <<first, last, next, key>>

-----------------------------------------------------------------------------
handle_deny_host(t) ==
    \/ store_deny_host(t)
    \/ (is_denied("host", t) \/ Addr[t] # NoAddr) /\ Refused

handle_deny_ip(t) ==
    \/ store_deny_ip(t)
    \/ (is_denied("addr", t) \/ Addr[t] = NoAddr) /\ Refused

\* The address list is tried only when no host rule matched.
handle_undeny(t) ==
    \/ store_undeny("host", t)
    \/ ~is_denied("host", t) /\ store_undeny("addr", t)
    \/ ~is_denied("host", t) /\ ~is_denied("addr", t) /\ Refused

Next ==
    \E t \in Texts : handle_deny_host(t) \/ handle_deny_ip(t) \/ handle_undeny(t)

Spec == Init /\ [][Next]_vars

-----------------------------------------------------------------------------
Denied == [host |-> {key[r] : r \in Chain("host")},
           addr |-> {key[r] : r \in Chain("addr")}]

Set == INSTANCE DenySet WITH denied <- Denied

\* The lists are the two sets: each command changes them, and answers, as it
\* would on sets of names and addresses.
ImplementsSet == Set!Spec
=============================================================================
