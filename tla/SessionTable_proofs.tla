------------------------- MODULE SessionTable_proofs -------------------------
(***************************************************************************)
(* Proofs about SessionTable, for every cap, every ring size and any       *)
(* number of sessions: the types, the cap, that the table implements       *)
(* ConnectionLimit, and that the log follows the sessions.                 *)
(***************************************************************************)
EXTENDS SessionTable, FiniteSetTheorems, SequenceTheorems, TLAPS

\* A live session is counted once: what links the counter, which
\* store_session_begin trusts, to the sessions ConnectionLimit speaks of.
HeldCounted == IsFiniteSet(held) /\ Cardinality(held) = metrics.concurrent

\* The part of the inductive invariant that is about slots and sessions.
SlotInv == SlotsCoverCap /\ CapRespected /\ SlotsMatchSessions /\ HeldCounted

-----------------------------------------------------------------------------
(***************************************************************************)
(* One slot is written                                                     *)
(***************************************************************************)

\* The slots in use are finitely many.
LEMMA ActiveFinite ==
    ASSUME sessions \in Seq(Node)
    PROVE  IsFiniteSet(Active) /\ Active \subseteq 1..Len(sessions)
<1>1. IsFiniteSet(1..Len(sessions))
  BY FS_Interval
<1>2. Active \subseteq 1..Len(sessions)
  BY DEF Active
<1> QED
  BY <1>1, <1>2, FS_Subset

\* Writing slot i changes no other slot, and whether i is in use is what the
\* new node says.
LEMMA SlotWritten ==
    ASSUME sessions \in Seq(Node), NEW i \in DOMAIN sessions, NEW n \in Node,
           sessions' = [sessions EXCEPT ![i] = n]
    PROVE  /\ sessions' \in Seq(Node)
           /\ Len(sessions') = Len(sessions)
           /\ DOMAIN sessions' = DOMAIN sessions
           /\ sessions'[i] = n
           /\ \A j \in DOMAIN sessions \ {i} : sessions'[j] = sessions[j]
           /\ n.active => Active' = Active \cup {i}
           /\ ~n.active => Active' = Active \ {i}
<1>1. /\ sessions' \in Seq(Node)
      /\ Len(sessions') = Len(sessions)
      /\ sessions'[i] = n
      /\ \A j \in 1..Len(sessions) \ {i} : sessions'[j] = sessions[j]
  BY ExceptSeq
<1>2. DOMAIN sessions = 1..Len(sessions) /\ DOMAIN sessions' = 1..Len(sessions)
  BY <1>1
<1>3. /\ n.active => Active' = Active \cup {i}
      /\ ~n.active => Active' = Active \ {i}
  BY <1>1, <1>2 DEF Active
<1> QED
  BY <1>1, <1>2, <1>3

\* A call that updates a live session and keeps its identifier.
Updates(i) ==
    /\ i \in Active
    /\ \E n \in Node : /\ n.active
                       /\ n.id = sessions[i].id
                       /\ sessions' = [sessions EXCEPT ![i] = n]
    /\ metrics'.concurrent = metrics.concurrent
    /\ UNCHANGED <<sessions_cap, next_session_id, held>>

\* set_user, set_phase, set_dest and add_bytes leave slots and sessions paired.
LEMMA UpdateKeepsSlots ==
    ASSUME TypeOK, SlotInv, NEW i, Updates(i)
    PROVE  SlotInv'
<1>1. i \in DOMAIN sessions /\ sessions[i].active
  BY DEF Updates, Active
<1>2. PICK n \in Node : /\ n.active
                        /\ n.id = sessions[i].id
                        /\ sessions' = [sessions EXCEPT ![i] = n]
  BY DEF Updates
<1>3. /\ Len(sessions') = Len(sessions)
      /\ sessions'[i] = n
      /\ \A j \in DOMAIN sessions \ {i} : sessions'[j] = sessions[j]
      /\ Active' = Active \cup {i}
  BY <1>1, <1>2, SlotWritten DEF TypeOK
<1>4. Active' = Active
  BY <1>3 DEF Updates
<1>5. \A j \in Active : sessions'[j].id = sessions[j].id
  BY <1>2, <1>3 DEF Active
<1>6. SlotsCoverCap'
  BY <1>3 DEF SlotInv, SlotsCoverCap, Updates
<1>7. CapRespected'
  BY <1>4 DEF SlotInv, CapRespected, Updates
<1>8. SlotsMatchSessions'
  BY <1>4, <1>5 DEF SlotInv, SlotsMatchSessions, Updates
<1>9. HeldCounted'
  BY DEF SlotInv, HeldCounted, Updates
<1> QED
  BY <1>6, <1>7, <1>8, <1>9 DEF SlotInv

\* A call that ends session id and releases its slot.
Releases(i, id) ==
    /\ IsNode(i, id)
    /\ store_session_remove(i)
    /\ held' = held \ {id}
    /\ UNCHANGED <<sessions_cap, next_session_id>>

\* store_session_remove clears one flag and decrements the counter.
LEMMA RemoveEffect ==
    ASSUME TypeOK, CapRespected, NEW i \in Active, store_session_remove(i)
    PROVE  /\ sessions' \in Seq(Node)
           /\ Len(sessions') = Len(sessions)
           /\ DOMAIN sessions' = DOMAIN sessions
           /\ Active' = Active \ {i}
           /\ \A j \in Active \ {i} : sessions'[j] = sessions[j]
           /\ Cardinality(Active') = Cardinality(Active) - 1
           /\ metrics.concurrent > 0
           /\ metrics'.concurrent = metrics.concurrent - 1
           /\ metrics' \in [total : Nat, concurrent : Nat, bytes_up : Nat,
                            bytes_down : Nat]
<1> DEFINE n == [sessions[i] EXCEPT !.active = FALSE]
<1>1. i \in DOMAIN sessions
  BY DEF Active
<1>2. sessions[i] \in Node
  BY <1>1 DEF TypeOK
<1>3. n \in Node /\ ~n.active
  BY <1>2 DEF Node
<1>4. sessions' = [sessions EXCEPT ![i] = n]
  BY DEF store_session_remove
<1> HIDE DEF n
<1>5. /\ sessions' \in Seq(Node)
      /\ Len(sessions') = Len(sessions)
      /\ DOMAIN sessions' = DOMAIN sessions
      /\ \A j \in DOMAIN sessions \ {i} : sessions'[j] = sessions[j]
      /\ Active' = Active \ {i}
  BY <1>1, <1>3, <1>4, SlotWritten DEF TypeOK
<1>6. Cardinality(Active') = Cardinality(Active) - 1 /\ Cardinality(Active') \in Nat
  BY <1>5, ActiveFinite, FS_RemoveElement, FS_CardinalityType DEF TypeOK
<1>7. metrics.concurrent \in Nat /\ metrics.concurrent > 0
  BY <1>6 DEF CapRespected, TypeOK
<1>8. metrics' \in [total : Nat, concurrent : Nat, bytes_up : Nat,
                    bytes_down : Nat]
      /\ metrics'.concurrent = metrics.concurrent - 1
  BY <1>7, SMTT(30) DEF store_session_remove, TypeOK
<1>9. \A j \in Active \ {i} : sessions'[j] = sessions[j]
  BY <1>5 DEF Active
<1> QED
  BY <1>5, <1>6, <1>7, <1>8, <1>9

\* mark_failed, end and mark_ttl_expired release exactly one slot.
LEMMA ReleaseKeepsSlots ==
    ASSUME TypeOK, SlotInv, NEW i, NEW id \in held, Releases(i, id)
    PROVE  SlotInv'
<1>1. i \in Active /\ sessions[i].id = id
  BY DEF Releases, IsNode
<1>2. /\ Len(sessions') = Len(sessions)
      /\ Active' = Active \ {i}
      /\ \A j \in Active \ {i} : sessions'[j] = sessions[j]
      /\ Cardinality(Active') = Cardinality(Active) - 1
      /\ metrics'.concurrent = metrics.concurrent - 1
  BY <1>1, RemoveEffect DEF Releases, SlotInv
<1>3. SlotsCoverCap'
  BY <1>2 DEF SlotInv, SlotsCoverCap, Releases
<1>4. CapRespected'
  BY <1>2 DEF SlotInv, CapRespected, Releases, TypeOK
<1>5. SlotsMatchSessions'
  <2>1. held' = {sessions'[j].id : j \in Active'}
    BY <1>1, <1>2 DEF SlotInv, SlotsMatchSessions, Releases
  <2> QED
    BY <1>2, <2>1, ZenonT(60) DEF SlotInv, SlotsMatchSessions, Releases
<1>6. HeldCounted'
  <2>1. IsFiniteSet(held \ {id}) /\ Cardinality(held \ {id}) = Cardinality(held) - 1
    BY FS_RemoveElement DEF SlotInv, HeldCounted
  <2> QED
    BY <1>2, <2>1 DEF SlotInv, HeldCounted, Releases
<1> QED
  BY <1>3, <1>4, <1>5, <1>6 DEF SlotInv

\* store_session_begin takes a free slot and an identifier nobody holds.
LEMMA BeginKeepsSlots ==
    ASSUME TypeOK, SlotInv, store_session_begin_admits
    PROVE  /\ SlotInv'
           /\ sessions' \in Seq(Node)
           /\ next_session_id \notin held
<1> DEFINE n == [ZeroNode EXCEPT !.active = TRUE, !.id = next_session_id]
<1>1. n \in Node /\ n.active /\ n.id = next_session_id
  BY DEF ZeroNode, Node, Phases, TypeOK
<1>2. PICK i \in DOMAIN sessions \ Active : sessions' = [sessions EXCEPT ![i] = n]
  BY DEF store_session_begin_admits, IsFirstFree
<1> HIDE DEF n
<1>3. /\ sessions' \in Seq(Node)
      /\ Len(sessions') = Len(sessions)
      /\ sessions'[i] = n
      /\ \A j \in DOMAIN sessions \ {i} : sessions'[j] = sessions[j]
      /\ Active' = Active \cup {i}
  BY <1>1, <1>2, SlotWritten DEF TypeOK
<1>4. \A j \in Active : sessions'[j].id = sessions[j].id
  BY <1>2, <1>3 DEF Active
<1>5. sessions'[i].id = next_session_id
  BY <1>1, <1>3
<1>6. next_session_id \in Nat /\ \A id \in held : id \in 1..(next_session_id - 1)
  BY DEF SlotInv, SlotsMatchSessions, TypeOK
<1>7. next_session_id \notin held
  BY <1>6
<1>8. /\ metrics'.concurrent = metrics.concurrent + 1
      /\ metrics.concurrent \in Nat
  BY DEF store_session_begin_admits, TypeOK
<1>9. SlotsCoverCap'
  BY <1>3 DEF SlotInv, SlotsCoverCap, store_session_begin_admits
<1>10. CapRespected'
  <2>1. Cardinality(Active \cup {i}) = Cardinality(Active) + 1
    BY <1>2, ActiveFinite, FS_AddElement DEF TypeOK
  <2> QED
    BY <1>3, <1>8, <2>1
       DEF SlotInv, CapRespected, store_session_begin_admits, TypeOK
<1>11. SlotsMatchSessions'
  <2>1. held' = {sessions'[j].id : j \in Active'}
    BY <1>3, <1>4, <1>5
       DEF SlotInv, SlotsMatchSessions, store_session_begin_admits
  <2>2. \A j \in Active : sessions[j].id # next_session_id
    BY <1>7 DEF SlotInv, SlotsMatchSessions
  <2>3. \A j, k \in Active' : sessions'[j].id = sessions'[k].id => j = k
    BY <1>3, <1>4, <1>5, <2>2 DEF SlotInv, SlotsMatchSessions
  <2>4. \A j \in Active : sessions[j].id \in 1..next_session_id
    BY <1>6 DEF SlotInv, SlotsMatchSessions
  <2>5. next_session_id' - 1 = next_session_id /\ next_session_id \in 1..next_session_id
    <3>1. next_session_id' = next_session_id + 1
      BY DEF store_session_begin_admits
    <3>2. next_session_id \in Nat \ {0}
      BY DEF TypeOK
    <3> QED
      BY <3>1, <3>2
  <2>6. \A j \in Active' : sessions'[j].id \in 1..(next_session_id' - 1)
    BY <1>3, <1>4, <1>5, <2>4, <2>5
  <2> QED
    BY <2>1, <2>3, <2>6 DEF SlotsMatchSessions
<1>12. HeldCounted'
  <2>1. /\ IsFiniteSet(held \cup {next_session_id})
        /\ Cardinality(held \cup {next_session_id}) = Cardinality(held) + 1
    BY <1>7, FS_AddElement DEF SlotInv, HeldCounted
  <2> QED
    BY <1>8, <2>1 DEF SlotInv, HeldCounted, store_session_begin_admits
<1> QED
  BY <1>3, <1>7, <1>9, <1>10, <1>11, <1>12 DEF SlotInv

\* store_config_set keeps every session in its slot and covers the new cap.
LEMMA ConfigKeepsSlots ==
    ASSUME TypeOK, SlotInv, NEW value \in 1..CapMax, store_config_set(value)
    PROVE  SlotInv' /\ sessions' \in Seq(Node)
<1>1. value \in Nat /\ sessions_cap \in Nat /\ Len(sessions) \in Nat
  BY TableAssumption DEF TypeOK
<1>2. CASE value > sessions_cap
  <2> DEFINE size == IF value > Len(sessions) THEN value ELSE Len(sessions)
             new(i) == IF i <= Len(sessions) THEN sessions[i] ELSE ZeroNode
  <2>1. size \in Nat /\ size >= value /\ size >= Len(sessions)
    BY <1>1
  <2>2. sessions' = [i \in 1..size |-> new(i)]
    BY <1>2 DEF store_config_set, store_grow_sessions_slots
  <2>3. \A i \in 1..size : new(i) \in Node
    <3>1. ZeroNode \in Node
      BY DEF ZeroNode, Node, Phases
    <3>2. \A i \in 1..Len(sessions) : sessions[i] \in Node
      BY DEF TypeOK
    <3> QED
      BY <1>1, <2>1, <3>1, <3>2
  <2>4. sessions' \in [1..size -> Node]
    BY <2>2, <2>3
  <2>5. sessions' \in Seq(Node) /\ Len(sessions') = size /\ DOMAIN sessions' = 1..size
    BY <2>1, <2>4
  <2>6. DOMAIN sessions = 1..Len(sessions)
    BY DEF TypeOK
  <2>7. \A i \in DOMAIN sessions : i \in DOMAIN sessions' /\ sessions'[i] = sessions[i]
    BY <1>1, <2>1, <2>2, <2>5, <2>6
  <2>8. \A i \in DOMAIN sessions' \ DOMAIN sessions : ~sessions'[i].active
    BY <1>1, <2>1, <2>2, <2>5, <2>6 DEF ZeroNode
  <2>9. Active' = Active
    BY <2>7, <2>8 DEF Active
  <2>10. \A i \in Active : sessions'[i] = sessions[i]
    BY <2>7 DEF Active
  <2> HIDE DEF size, new
  <2>11. SlotsCoverCap'
    BY <1>1, <2>1, <2>5 DEF SlotsCoverCap, store_config_set
  <2>12. CapRespected'
    BY <2>9 DEF SlotInv, CapRespected, store_config_set, TypeOK
  <2>13. SlotsMatchSessions'
    BY <2>9, <2>10 DEF SlotInv, SlotsMatchSessions, store_config_set
  <2> QED
    BY <2>5, <2>11, <2>12, <2>13 DEF SlotInv, HeldCounted, store_config_set
<1>3. CASE ~(value > sessions_cap)
  <2>1. sessions' = sessions /\ Active' = Active
    BY <1>3 DEF store_config_set, Active
  <2>2. SlotsCoverCap'
    BY <1>1, <1>3, <2>1 DEF SlotInv, SlotsCoverCap, store_config_set
  <2>3. CapRespected'
    BY <2>1 DEF SlotInv, CapRespected, store_config_set, TypeOK
  <2> QED
    BY <2>1, <2>2, <2>3
       DEF SlotInv, SlotsMatchSessions, HeldCounted, store_config_set, TypeOK
<1> QED
  BY <1>2, <1>3

-----------------------------------------------------------------------------
(***************************************************************************)
(* The ring                                                                *)
(***************************************************************************)

\* The ring is well formed: it fits its array and the head is inside it.
RingOK ==
    /\ log \in Seq(Entry)
    /\ Len(log) <= LogCapacity
    /\ log_head \in 0..(LogCapacity - 1)
    /\ next_log_id \in Nat \ {0}

\* store_log_append writes inside the array, also when the head wraps.
LEMMA AppendKeepsRing ==
    ASSUME RingOK, NEW state \in LogStates, store_log_append(state)
    PROVE  RingOK'
<1> DEFINE entry == [id |-> next_log_id, state |-> state,
                     bytes_up |-> 0, bytes_down |-> 0]
<1>1. entry \in Entry
  BY DEF Entry, RingOK
<1>2. next_log_id' \in Nat \ {0}
  BY DEF store_log_append, RingOK
<1>3. CASE Len(log) < LogCapacity
  <2>1. log' = Append(log, entry) /\ log_head' = log_head
    BY <1>3 DEF store_log_append
  <2>2. log' \in Seq(Entry) /\ Len(log') = Len(log) + 1
    BY <1>1, <2>1 DEF RingOK
  <2> QED
    BY <1>2, <1>3, <2>1, <2>2, TableAssumption DEF RingOK
<1>4. CASE ~(Len(log) < LogCapacity)
  <2>1. log_head + 1 \in 1..Len(log)
    BY <1>4, TableAssumption DEF RingOK
  <2>2. /\ log' = [log EXCEPT ![log_head + 1] = entry]
        /\ log_head' = (log_head + 1) % LogCapacity
    BY <1>4 DEF store_log_append
  <2>3. log' \in Seq(Entry) /\ Len(log') = Len(log)
    BY <1>1, <2>1, <2>2, ExceptSeq DEF RingOK
  <2>4. log_head' \in 0..(LogCapacity - 1)
    BY <2>2, TableAssumption DEF RingOK
  <2> QED
    BY <1>2, <2>3, <2>4 DEF RingOK
<1> QED
  BY <1>3, <1>4

\* store_log_update changes entries in place.
LEMMA UpdateKeepsRing ==
    ASSUME RingOK, NEW log_id, NEW state \in LogStates, NEW up \in Nat,
           NEW down \in Nat, store_log_update(log_id, state, up, down)
    PROVE  RingOK'
<1> DEFINE new(i) == IF log_id # STORE_LOG_INVALID /\ log[i].id = log_id
                       THEN [log[i] EXCEPT !.state = state, !.bytes_up = up,
                                           !.bytes_down = down]
                       ELSE log[i]
<1>1. Len(log) \in Nat /\ DOMAIN log = 1..Len(log)
  BY DEF RingOK
<1>2. \A i \in 1..Len(log) : log[i] \in Entry
  BY DEF RingOK
<1>3. \A e \in Entry : [e EXCEPT !.state = state, !.bytes_up = up,
                                 !.bytes_down = down] \in Entry
  BY DEF Entry
<1>4. \A i \in 1..Len(log) : new(i) \in Entry
  BY <1>2, <1>3
<1>5. log' = [i \in 1..Len(log) |-> new(i)]
  BY <1>1 DEF store_log_update
<1>6. log' \in [1..Len(log) -> Entry]
  BY <1>4, <1>5
<1> HIDE DEF new
<1>7. log' \in Seq(Entry) /\ Len(log') = Len(log)
  BY <1>1, <1>6
<1> QED
  BY <1>7 DEF RingOK, store_log_update

-----------------------------------------------------------------------------
(***************************************************************************)
(* The invariant                                                           *)
(***************************************************************************)

\* The inductive invariant.  HeldCounted says in terms of held what
\* CapRespected says of the slots; TypeOK carries the ring.
Inv == TypeOK /\ SlotInv

\* The part of TypeOK that is not about the ring or the slots.
Scalars ==
    /\ sessions_cap \in 1..CapMax
    /\ metrics \in [total : Nat, concurrent : Nat, bytes_up : Nat, bytes_down : Nat]
    /\ next_session_id \in Nat \ {0}
    /\ held \subseteq Nat
    /\ answer \in Nat

\* TypeOK in the three parts the actions change.
LEMMA TypeParts == TypeOK <=> sessions \in Seq(Node) /\ RingOK /\ Scalars
  BY DEF TypeOK, RingOK, Scalars

\* The same of the next state.
LEMMA TypePartsNext == (sessions \in Seq(Node))' /\ RingOK' /\ Scalars' => TypeOK'
  BY DEF TypeOK, RingOK, Scalars

\* A fresh store satisfies the invariant.
LEMMA InitInv == Init => Inv
<1> SUFFICES ASSUME Init
             PROVE  Inv
  OBVIOUS
<1> USE TableAssumption DEF Init, store_create
<1>1. ZeroNode \in Node
  BY DEF ZeroNode, Node, Phases
<1>2. CapDefault \in Nat
  OBVIOUS
<1>3. sessions \in [1..CapDefault -> Node]
  BY <1>1
<1>4. sessions \in Seq(Node) /\ Len(sessions) = CapDefault
      /\ DOMAIN sessions = 1..CapDefault
  BY <1>2, <1>3
<1>5. RingOK
  BY DEF RingOK
<1>6. Scalars
  BY DEF Scalars, STORE_SESSION_INVALID
<1>7. TypeOK
  BY <1>4, <1>5, <1>6, TypeParts
<1>8. Active = {}
  BY <1>4 DEF Active, ZeroNode
<1>9. SlotsCoverCap
  BY <1>2, <1>4 DEF SlotsCoverCap
<1>10. Cardinality({}) = 0 /\ IsFiniteSet({})
  BY FS_EmptySet
<1>11. CapRespected
  BY <1>2, <1>8, <1>10 DEF CapRespected
<1>12. SlotsMatchSessions
  BY <1>8 DEF SlotsMatchSessions
<1>13. HeldCounted
  BY <1>10 DEF HeldCounted
<1> QED
  BY <1>7, <1>9, <1>11, <1>12, <1>13 DEF Inv, SlotInv

\* The calls that update a live session.
LEMMA UpdatesKeepInv ==
    ASSUME Inv, NEW i, Updates(i), RingOK', UNCHANGED answer,
           metrics' \in [total : Nat, concurrent : Nat, bytes_up : Nat,
                         bytes_down : Nat]
    PROVE  Inv'
<1>1. SlotInv'
  BY UpdateKeepsSlots DEF Inv
<1>2. i \in DOMAIN sessions /\ sessions \in Seq(Node)
  BY DEF Updates, Active, Inv, TypeOK
<1>3. sessions' \in Seq(Node)
  BY <1>2, SlotWritten DEF Updates
<1>4. Scalars'
  BY DEF Scalars, Updates, Inv, TypeOK
<1> QED
  BY <1>1, <1>3, <1>4, TypePartsNext DEF Inv

\* The calls that end a session.
LEMMA ReleasesKeepInv ==
    ASSUME Inv, NEW i, NEW id \in held, Releases(i, id), RingOK',
           UNCHANGED answer
    PROVE  Inv'
<1>1. SlotInv'
  BY ReleaseKeepsSlots DEF Inv
<1>2. i \in Active
  BY DEF Releases, IsNode
<1>3. /\ sessions' \in Seq(Node)
      /\ metrics' \in [total : Nat, concurrent : Nat, bytes_up : Nat,
                       bytes_down : Nat]
  BY <1>2, RemoveEffect DEF Releases, Inv, SlotInv
<1>4. Scalars'
  BY <1>3 DEF Scalars, Releases, Inv, TypeOK
<1> QED
  BY <1>1, <1>3, <1>4, TypePartsNext DEF Inv

\* Every call of the store preserves the invariant.
LEMMA NextInv == Inv /\ [Next]_vars => Inv'
<1> SUFFICES ASSUME Inv, [Next]_vars
             PROVE  Inv'
  OBVIOUS
<1>1. /\ TypeOK /\ SlotInv /\ RingOK /\ Scalars
      /\ sessions \in Seq(Node) /\ DOMAIN sessions = 1..Len(sessions)
      /\ \A i \in DOMAIN sessions : sessions[i] \in Node
      /\ metrics.concurrent \in Nat
  <2>1. TypeOK /\ SlotInv
    BY DEF Inv
  <2>2. RingOK /\ Scalars
    BY <2>1, TypeParts
  <2> QED
    BY <2>1, <2>2 DEF TypeOK
<1>2. CASE store_session_begin_admits
  <2>1. SlotInv' /\ sessions' \in Seq(Node)
    BY <1>1, <1>2, BeginKeepsSlots
  <2>2. RingOK'
    BY <1>1, <1>2 DEF RingOK, store_session_begin_admits, ringVars
  <2>3. Scalars'
    <3>1. metrics' \in [total : Nat, concurrent : Nat, bytes_up : Nat,
                        bytes_down : Nat]
      <4>1. /\ metrics \in [total : Nat, concurrent : Nat, bytes_up : Nat,
                            bytes_down : Nat]
            /\ metrics.total + 1 \in Nat
            /\ metrics.concurrent + 1 \in Nat
        BY <1>1 DEF Scalars
      <4>2. metrics' = [metrics EXCEPT !.total = metrics.total + 1,
                                       !.concurrent = metrics.concurrent + 1]
        BY <1>2 DEF store_session_begin_admits
      <4> QED
        BY <4>1, <4>2
    <3>2. /\ next_session_id \in Nat \ {0} /\ next_session_id' = next_session_id + 1
          /\ held \subseteq Nat /\ held' = held \cup {next_session_id}
          /\ answer' = next_session_id
          /\ sessions_cap' = sessions_cap /\ sessions_cap \in 1..CapMax
      BY <1>1, <1>2 DEF Scalars, store_session_begin_admits
    <3>3. next_session_id' \in Nat \ {0}
      BY <3>2
    <3> QED
      BY <3>1, <3>2, <3>3 DEF Scalars
  <2> QED
    BY <2>1, <2>2, <2>3, TypePartsNext DEF Inv
<1>3. CASE store_session_begin_refuses
  <2>1. Active' = Active
    BY <1>3 DEF store_session_begin_refuses, Active
  <2>2. SlotInv'
    BY <1>1, <1>3, <2>1
       DEF SlotInv, SlotsCoverCap, CapRespected, SlotsMatchSessions,
           HeldCounted, store_session_begin_refuses
  <2>3. TypeOK'
    BY <1>1, <1>3
       DEF TypeOK, store_session_begin_refuses, ringVars, STORE_SESSION_INVALID
  <2> QED
    BY <2>2, <2>3 DEF Inv
<1>4. ASSUME NEW id \in held, store_session_set_user(id)
      PROVE  Inv'
  <2>1. PICK i \in DOMAIN sessions :
           IsNode(i, id) /\ sessions' = [sessions EXCEPT ![i].username = TRUE]
    BY <1>4 DEF store_session_set_user
  <2> DEFINE n == [sessions[i] EXCEPT !.username = TRUE]
  <2>2. n \in Node /\ n.active = sessions[i].active /\ n.id = sessions[i].id
    BY <1>1, <2>1 DEF Node
  <2>3. sessions' = [sessions EXCEPT ![i] = n]
    BY <2>1
  <2> HIDE DEF n
  <2>4. Updates(i)
    BY <1>4, <2>1, <2>2, <2>3 DEF Updates, IsNode, Active, store_session_set_user
  <2>5. RingOK' /\ UNCHANGED <<answer, metrics>>
    BY <1>1, <1>4 DEF RingOK, store_session_set_user, ringVars
  <2> QED
    BY <1>1, <2>4, <2>5, UpdatesKeepInv DEF Scalars
<1>5. ASSUME NEW id \in held, store_session_set_phase(id)
      PROVE  Inv'
  <2>1. PICK i \in DOMAIN sessions, p \in {"AUTH", "CONNECTING"} :
           IsNode(i, id) /\ sessions' = [sessions EXCEPT ![i].phase = p]
    BY <1>5 DEF store_session_set_phase
  <2> DEFINE n == [sessions[i] EXCEPT !.phase = p]
  <2>2. n \in Node /\ n.active = sessions[i].active /\ n.id = sessions[i].id
    BY <1>1, <2>1 DEF Node, Phases
  <2>3. sessions' = [sessions EXCEPT ![i] = n]
    BY <2>1
  <2> HIDE DEF n
  <2>4. Updates(i)
    BY <1>5, <2>1, <2>2, <2>3 DEF Updates, IsNode, Active, store_session_set_phase
  <2>5. RingOK' /\ UNCHANGED <<answer, metrics>>
    BY <1>1, <1>5 DEF RingOK, store_session_set_phase, ringVars
  <2> QED
    BY <1>1, <2>4, <2>5, UpdatesKeepInv DEF Scalars
<1>6. ASSUME NEW id \in held, store_session_set_dest(id)
      PROVE  Inv'
  <2>1. PICK i \in DOMAIN sessions :
           /\ IsNode(i, id)
           /\ IF sessions[i].username
                THEN /\ store_log_append("CONNECTED")
                     /\ sessions' = [sessions EXCEPT ![i].host = TRUE,
                                        ![i].phase = "RELAY",
                                        ![i].log_id = next_log_id]
                ELSE /\ UNCHANGED ringVars
                     /\ sessions' = [sessions EXCEPT ![i].host = TRUE,
                                        ![i].phase = "RELAY"]
    BY <1>6 DEF store_session_set_dest
  <2>2. UNCHANGED <<answer, metrics, sessions_cap, next_session_id, held>>
    BY <1>6 DEF store_session_set_dest
  <2>3. CASE sessions[i].username
    <3> DEFINE n == [sessions[i] EXCEPT !.host = TRUE, !.phase = "RELAY",
                                        !.log_id = next_log_id]
    <3>1. n \in Node /\ n.active = sessions[i].active /\ n.id = sessions[i].id
      BY <1>1, <2>1 DEF Node, Phases, RingOK
    <3>2. sessions' = [sessions EXCEPT ![i] = n]
      BY <2>1, <2>3
    <3> HIDE DEF n
    <3>3. Updates(i)
      BY <2>1, <2>2, <3>1, <3>2 DEF Updates, IsNode, Active
    <3>4. RingOK'
      BY <1>1, <2>1, <2>3, AppendKeepsRing DEF LogStates
    <3> QED
      BY <1>1, <2>2, <3>3, <3>4, UpdatesKeepInv DEF Scalars
  <2>4. CASE ~sessions[i].username
    <3> DEFINE n == [sessions[i] EXCEPT !.host = TRUE, !.phase = "RELAY"]
    <3>1. n \in Node /\ n.active = sessions[i].active /\ n.id = sessions[i].id
      BY <1>1, <2>1 DEF Node, Phases
    <3>2. sessions' = [sessions EXCEPT ![i] = n]
      BY <2>1, <2>4
    <3> HIDE DEF n
    <3>3. Updates(i)
      BY <2>1, <2>2, <3>1, <3>2 DEF Updates, IsNode, Active
    <3>4. RingOK'
      BY <1>1, <2>1, <2>4 DEF RingOK, ringVars
    <3> QED
      BY <1>1, <2>2, <3>3, <3>4, UpdatesKeepInv DEF Scalars
  <2> QED
    BY <2>3, <2>4
<1>7. ASSUME NEW id \in held, NEW up \in Nat, NEW down \in Nat,
             store_session_add_bytes(id, up, down)
      PROVE  Inv'
  <2>1. PICK i \in DOMAIN sessions :
           /\ IsNode(i, id)
           /\ sessions' = [sessions EXCEPT ![i].bytes_up = @ + up,
                                           ![i].bytes_down = @ + down]
           /\ store_log_update(sessions[i].log_id, "CONNECTED",
                               sessions[i].bytes_up + up,
                               sessions[i].bytes_down + down)
    BY <1>7 DEF store_session_add_bytes
  <2>2. /\ metrics' = [metrics EXCEPT !.bytes_up = @ + up, !.bytes_down = @ + down]
        /\ UNCHANGED <<answer, sessions_cap, next_session_id, held>>
    BY <1>7 DEF store_session_add_bytes
  <2>3. sessions[i].bytes_up \in Nat /\ sessions[i].bytes_down \in Nat
    BY <1>1, <2>1 DEF Node
  <2> DEFINE n == [sessions[i] EXCEPT !.bytes_up = @ + up, !.bytes_down = @ + down]
  <2>4. n \in Node /\ n.active = sessions[i].active /\ n.id = sessions[i].id
    <3>1. sessions[i].bytes_up + up \in Nat /\ sessions[i].bytes_down + down \in Nat
      BY <2>3
    <3>2. \A r \in Node : \A a, b \in Nat :
             LET m == [r EXCEPT !.bytes_up = a, !.bytes_down = b]
             IN  m \in Node /\ m.active = r.active /\ m.id = r.id
      BY DEF Node
    <3> QED
      BY <1>1, <2>1, <3>1, <3>2, ZenonT(60)
  <2>5. sessions' = [sessions EXCEPT ![i] = n]
    BY <2>1
  <2> HIDE DEF n
  <2>6. /\ metrics' \in [total : Nat, concurrent : Nat, bytes_up : Nat,
                         bytes_down : Nat]
        /\ metrics'.concurrent = metrics.concurrent
    <3>1. /\ metrics \in [total : Nat, concurrent : Nat, bytes_up : Nat,
                          bytes_down : Nat]
          /\ metrics.bytes_up + up \in Nat
          /\ metrics.bytes_down + down \in Nat
      BY <1>1 DEF Scalars
    <3>2. metrics' = [metrics EXCEPT !.bytes_up = metrics.bytes_up + up,
                                     !.bytes_down = metrics.bytes_down + down]
      BY <2>2
    <3> QED
      BY <3>1, <3>2
  <2>7. Updates(i)
    BY <2>1, <2>2, <2>4, <2>5, <2>6 DEF Updates, IsNode, Active
  <2>8. RingOK'
    <3>1. sessions[i].bytes_up + up \in Nat /\ sessions[i].bytes_down + down \in Nat
      BY <2>3
    <3>2. "CONNECTED" \in LogStates
      BY DEF LogStates
    <3> QED
      BY <1>1, <2>1, <3>1, <3>2, UpdateKeepsRing
  <2> QED
    BY <2>2, <2>6, <2>7, <2>8, UpdatesKeepInv
<1>8. ASSUME NEW id \in held, store_session_mark_failed(id)
      PROVE  Inv'
  <2>1. PICK i \in DOMAIN sessions :
           /\ IsNode(i, id)
           /\ store_log_append("FAILED") \/ UNCHANGED ringVars
           /\ store_session_remove(i)
    BY <1>8 DEF store_session_mark_failed
  <2>2. Releases(i, id) /\ UNCHANGED answer
    BY <1>8, <2>1 DEF Releases, store_session_mark_failed
  <2>3. RingOK'
    <3>1. CASE store_log_append("FAILED")
      BY <1>1, <3>1, AppendKeepsRing DEF LogStates
    <3>2. CASE UNCHANGED ringVars
      BY <1>1, <3>2 DEF RingOK, ringVars
    <3> QED
      BY <2>1, <3>1, <3>2
  <2> QED
    BY <2>2, <2>3, ReleasesKeepInv
<1>9. ASSUME NEW id \in held, store_session_end(id)
      PROVE  Inv'
  <2>1. PICK i \in DOMAIN sessions :
           /\ IsNode(i, id)
           /\ store_log_update(sessions[i].log_id, "CLOSED",
                               sessions[i].bytes_up, sessions[i].bytes_down)
           /\ store_session_remove(i)
    BY <1>9 DEF store_session_end
  <2>2. Releases(i, id) /\ UNCHANGED answer
    BY <1>9, <2>1 DEF Releases, store_session_end
  <2>3. sessions[i].bytes_up \in Nat /\ sessions[i].bytes_down \in Nat
    BY <1>1, <2>1 DEF Node
  <2>4. RingOK'
    BY <1>1, <2>1, <2>3, UpdateKeepsRing DEF LogStates
  <2> QED
    BY <2>2, <2>4, ReleasesKeepInv
<1>10. ASSUME NEW id \in held, store_session_mark_ttl_expired(id)
      PROVE  Inv'
  <2>1. PICK i \in DOMAIN sessions :
           /\ IsNode(i, id)
           /\ \/ store_log_append("TTL_EXPIRED")
              \/ store_log_update(sessions[i].log_id, "TTL_EXPIRED",
                                  sessions[i].bytes_up, sessions[i].bytes_down)
           /\ store_session_remove(i)
    BY <1>10 DEF store_session_mark_ttl_expired
  <2>2. Releases(i, id) /\ UNCHANGED answer
    BY <1>10, <2>1 DEF Releases, store_session_mark_ttl_expired
  <2>3. sessions[i].bytes_up \in Nat /\ sessions[i].bytes_down \in Nat
    BY <1>1, <2>1 DEF Node
  <2>4. RingOK'
    BY <1>1, <2>1, <2>3, AppendKeepsRing, UpdateKeepsRing DEF LogStates
  <2> QED
    BY <2>2, <2>4, ReleasesKeepInv
<1>11. ASSUME NEW value \in 1..CapMax, store_config_set(value)
       PROVE  Inv'
  <2>1. SlotInv' /\ sessions' \in Seq(Node)
    BY <1>1, <1>11, ConfigKeepsSlots
  <2>2. RingOK'
    BY <1>1, <1>11 DEF RingOK, store_config_set, ringVars
  <2>3. Scalars'
    BY <1>1, <1>11 DEF Scalars, store_config_set
  <2> QED
    BY <2>1, <2>2, <2>3, TypePartsNext DEF Inv
<1>12. CASE UNCHANGED vars
  <2>1. Active' = Active
    BY <1>12 DEF vars, Active
  <2> QED
    BY <1>1, <1>12, <2>1
       DEF vars, Inv, TypeOK, SlotInv, SlotsCoverCap, CapRespected,
           SlotsMatchSessions, HeldCounted
<1>13. 0 \in Nat /\ 1 \in Nat
  OBVIOUS
<1> QED
  BY <1>2, <1>3, <1>4, <1>5, <1>6, <1>7, <1>8, <1>9, <1>10, <1>11, <1>12, <1>13
     DEF Next, SocksCall, store_session_begin

\* The invariant holds of every reachable store.
THEOREM Invariance == Spec => []Inv
  BY InitInv, NextInv, PTL DEF Spec

\* Types, for every cap and ring size; in particular the head never leaves
\* the ring.
THEOREM TypeCorrect == Spec => []TypeOK
<1>1. Inv => TypeOK
  BY DEF Inv
<1> QED
  BY <1>1, Invariance, PTL

\* store.c: "sessions_slots >= sessions_cap (store_config_set mantiene el
\* invariante)".
THEOREM SlotsAlwaysCoverCap == Spec => []SlotsCoverCap
<1>1. Inv => SlotsCoverCap
  BY DEF Inv, SlotInv
<1> QED
  BY <1>1, Invariance, PTL

\* The counter is the number of slots in use and stays within the cap.
THEOREM CapAlwaysRespected == Spec => []CapRespected
<1>1. Inv => CapRespected
  BY DEF Inv, SlotInv
<1> QED
  BY <1>1, Invariance, PTL

\* No slot is leaked, shared or released twice.
THEOREM SlotsAlwaysMatch == Spec => []SlotsMatchSessions
<1>1. Inv => SlotsMatchSessions
  BY DEF Inv, SlotInv
<1> QED
  BY <1>1, Invariance, PTL

-----------------------------------------------------------------------------
(***************************************************************************)
(* Refinement                                                              *)
(***************************************************************************)

\* ConnectionLimit counts with the same Cardinality.
LEMMA SameCardinality == \A S : Limit!Cardinality(S) = Cardinality(S)
  BY DEF Limit!Cardinality, Cardinality, Limit!IsFiniteSet, IsFiniteSet

\* The table implements ConnectionLimit: it never holds more than the limit,
\* and refuses only at the limit, since the slots always cover the cap.
THEOREM TableImplementsLimit == Spec => ImplementsLimit
<1>1. Init => Limit!Init
  BY TableAssumption DEF Init, store_create, Limit!Init, STORE_SESSION_INVALID
<1>2. Inv /\ [Next]_vars => [Limit!Next]_Limit!vars
  <2> SUFFICES ASSUME Inv, [Next]_vars
               PROVE  Limit!Next \/ UNCHANGED <<held, sessions_cap, answer>>
    BY DEF Limit!vars
  <2>1. /\ TypeOK /\ SlotInv
        /\ Limit!Cardinality(held) = metrics.concurrent
        /\ metrics.concurrent = Cardinality(Active)
        /\ sessions_cap <= Len(sessions)
    BY SameCardinality DEF Inv, SlotInv, HeldCounted, CapRespected, SlotsCoverCap
  <2>2. CASE store_session_begin_admits
    <3>1. next_session_id \notin held
      BY <2>1, <2>2, BeginKeepsSlots
    <3> QED
      BY <2>1, <2>2, <3>1
         DEF store_session_begin_admits, Limit!Next, Limit!Admit, Limit!Ids, TypeOK
  <2>3. CASE store_session_begin_refuses
    <3>1. metrics.concurrent >= sessions_cap
      <4>1. CASE Active = DOMAIN sessions
        <5>1. DOMAIN sessions = 1..Len(sessions) /\ Len(sessions) \in Nat
          BY <2>1 DEF TypeOK
        <5>2. Cardinality(1..Len(sessions)) = Len(sessions)
          <6>1. Cardinality(1..Len(sessions)) =
                   IF 1 > Len(sessions) THEN 0 ELSE Len(sessions) - 1 + 1
            BY <5>1, FS_Interval
          <6> QED
            BY <5>1, <6>1
        <5>3. metrics.concurrent = Len(sessions)
          BY <2>1, <4>1, <5>1, <5>2
        <5> QED
          BY <2>1, <5>1, <5>3 DEF TypeOK
      <4> QED
        BY <2>3, <4>1 DEF store_session_begin_refuses
    <3> QED
      BY <2>1, <2>3, <3>1
         DEF store_session_begin_refuses, Limit!Next, Limit!Refuse,
             STORE_SESSION_INVALID
  <2>4. ASSUME NEW id \in held, SocksCall(id)
        PROVE  Limit!Next \/ UNCHANGED <<held, sessions_cap, answer>>
    <3>1. CASE \/ store_session_mark_failed(id)
               \/ store_session_end(id)
               \/ store_session_mark_ttl_expired(id)
      BY <3>1 DEF store_session_mark_failed, store_session_end,
                  store_session_mark_ttl_expired, Limit!Next, Limit!Leave
    <3>2. CASE \/ store_session_set_user(id) \/ store_session_set_phase(id)
               \/ store_session_set_dest(id)
               \/ store_session_add_bytes(id, 1, 0)
               \/ store_session_add_bytes(id, 0, 1)
      BY <3>2 DEF store_session_set_user, store_session_set_phase,
                  store_session_set_dest, store_session_add_bytes
    <3> QED
      BY <2>4, <3>1, <3>2 DEF SocksCall
  <2>5. ASSUME NEW value \in 1..CapMax, store_config_set(value)
        PROVE  Limit!Next
    BY <2>1, <2>5 DEF store_config_set, Limit!Next, Limit!SetLimit, TypeOK
  <2>6. CASE UNCHANGED vars
    BY <2>6 DEF vars
  <2> QED
    BY <2>2, <2>3, <2>4, <2>5, <2>6 DEF Next, store_session_begin
<1> QED
  BY <1>1, <1>2, Invariance, PTL DEF Spec, ImplementsLimit, Limit!Spec

-----------------------------------------------------------------------------
(***************************************************************************)
(* The access log                                                          *)
(***************************************************************************)
\* The entries of the ring have identifiers of their own, given out already.
RingIds ==
    /\ \A k \in DOMAIN log : log[k].id \in 1..(next_log_id - 1)
    /\ \A k, l \in DOMAIN log : log[k].id = log[l].id => k = l

\* So have the sessions that have an entry; one without a destination has none.
SessionIds ==
    /\ \A i \in Active : sessions[i].log_id < next_log_id
    /\ \A i \in Active : ~sessions[i].host => sessions[i].log_id = STORE_LOG_INVALID
    /\ \A i, j \in Active :
          sessions[i].log_id = sessions[j].log_id =>
             i = j \/ sessions[i].log_id = STORE_LOG_INVALID

\* An entry is its session's as long as the ring has it and the session runs.
Recorded(i, k) ==
    /\ log[k].state = "CONNECTED"
    /\ sessions[i].bytes_up = log[k].bytes_up
    /\ sessions[i].bytes_down = log[k].bytes_down

Entries ==
    /\ \A k \in DOMAIN log : \A i \in Active :
          sessions[i].log_id = log[k].id => Recorded(i, k)
    /\ \A k \in DOMAIN log :
          log[k].state = "CONNECTED" => \E i \in Active : sessions[i].log_id = log[k].id

\* The invariant behind LogFollowsSessions.
LogInv == RingIds /\ SessionIds /\ Entries

\* Only slot i is written or released.
OthersStay(i) ==
    /\ Active' \ {i} = Active \ {i}
    /\ \A j \in Active \ {i} : sessions'[j] = sessions[j]

\* Where store_log_append puts its entry, in a ring that is full or not.
LEMMA AppendEffect ==
    ASSUME RingOK, NEW state, store_log_append(state)
    PROVE  /\ next_log_id' = next_log_id + 1
           /\ \E p : /\ DOMAIN log' = DOMAIN log \cup {p}
                     /\ \A k \in DOMAIN log \ {p} : log'[k] = log[k]
                     /\ log'[p] = [id |-> next_log_id, state |-> state,
                                   bytes_up |-> 0, bytes_down |-> 0]
<1> DEFINE entry == [id |-> next_log_id, state |-> state,
                     bytes_up |-> 0, bytes_down |-> 0]
<1>1. next_log_id' = next_log_id + 1 BY DEF store_log_append
<1>2. log \in Seq(Entry) /\ Len(log) \in Nat /\ DOMAIN log = 1..Len(log) BY DEF RingOK
<1>3. CASE Len(log) < LogCapacity
  <2>1. log' = Append(log, entry) BY <1>3 DEF store_log_append
  <2> HIDE DEF entry
  <2>2. /\ DOMAIN log' = 1..(Len(log) + 1) /\ log'[Len(log) + 1] = entry
        /\ \A k \in 1..Len(log) : log'[k] = log[k]
    BY <1>2, <2>1
  <2>3. 1..(Len(log) + 1) = 1..Len(log) \cup {Len(log) + 1} BY <1>2
  <2> QED BY <1>1, <1>2, <2>2, <2>3 DEF entry
<1>4. CASE ~(Len(log) < LogCapacity)
  <2>1. log_head + 1 \in DOMAIN log BY <1>2, <1>4, TableAssumption DEF RingOK
  <2>2. log' = [log EXCEPT ![log_head + 1] = entry] BY <1>4 DEF store_log_append
  <2> HIDE DEF entry
  <2> DEFINE p == log_head + 1
  <2>3. /\ DOMAIN log' = DOMAIN log \cup {p} /\ log'[p] = entry
        /\ \A k \in DOMAIN log \ {p} : log'[k] = log[k]
    BY <1>2, <2>1, <2>2
  <2> QED BY <1>1, <2>3 DEF entry
<1> QED BY <1>3, <1>4

\* What store_log_update writes, and to which entry.
LEMMA UpdateEffect ==
    ASSUME RingOK, NEW log_id, NEW state, NEW up, NEW down,
           store_log_update(log_id, state, up, down)
    PROVE  /\ next_log_id' = next_log_id /\ DOMAIN log' = DOMAIN log
           /\ \A k \in DOMAIN log : log'[k].id = log[k].id
           /\ \A k \in DOMAIN log :
                 log_id = STORE_LOG_INVALID \/ log[k].id # log_id => log'[k] = log[k]
           /\ \A k \in DOMAIN log :
                 log_id # STORE_LOG_INVALID /\ log[k].id = log_id =>
                    /\ log'[k].state = state
                    /\ log'[k].bytes_up = up /\ log'[k].bytes_down = down
<1>1. \A k \in DOMAIN log : log[k] \in Entry BY DEF RingOK
<1>2. \A e \in Entry : LET d == [e EXCEPT !.state = state, !.bytes_up = up,
                                          !.bytes_down = down]
                       IN  /\ d.id = e.id /\ d.state = state
                           /\ d.bytes_up = up /\ d.bytes_down = down
  BY DEF Entry
<1>3. /\ log' = [k \in DOMAIN log |->
                   IF log_id # STORE_LOG_INVALID /\ log[k].id = log_id
                   THEN [log[k] EXCEPT !.state = state, !.bytes_up = up,
                                       !.bytes_down = down]
                   ELSE log[k]]
      /\ next_log_id' = next_log_id
  BY DEF store_log_update
<1>4. DOMAIN log' = DOMAIN log BY <1>3
<1>5. ASSUME NEW k \in DOMAIN log, log_id # STORE_LOG_INVALID, log[k].id = log_id
      PROVE  /\ log'[k].id = log[k].id /\ log'[k].state = state
             /\ log'[k].bytes_up = up /\ log'[k].bytes_down = down
  <2>1. log'[k] = [log[k] EXCEPT !.state = state, !.bytes_up = up, !.bytes_down = down]
    BY <1>3, <1>5
  <2> QED BY <1>1, <1>2, <1>5, <2>1
<1>6. ASSUME NEW k \in DOMAIN log, log_id = STORE_LOG_INVALID \/ log[k].id # log_id
      PROVE  log'[k] = log[k]
  BY <1>3, <1>6
<1> QED BY <1>3, <1>4, <1>5, <1>6

\* A call that leaves the ring alone, and every session its entry.
LEMMA QuietKeepsLog ==
    ASSUME LogInv, UNCHANGED ringVars,
           \A j \in Active' :
              \/ /\ j \in Active
                 /\ sessions'[j].log_id = sessions[j].log_id
                 /\ sessions'[j].bytes_up = sessions[j].bytes_up
                 /\ sessions'[j].bytes_down = sessions[j].bytes_down
                 /\ sessions[j].host => sessions'[j].host
              \/ sessions'[j].log_id = STORE_LOG_INVALID,
           \A j \in Active : sessions[j].log_id # STORE_LOG_INVALID =>
              j \in Active' /\ sessions'[j].log_id = sessions[j].log_id,
           next_log_id \in Nat \ {0}
    PROVE  LogInv'
<1>1. log' = log /\ next_log_id' = next_log_id BY DEF ringVars
<1>2. RingIds' BY <1>1 DEF LogInv, RingIds
<1>3. \A k \in DOMAIN log : log[k].id # STORE_LOG_INVALID
  BY DEF LogInv, RingIds, STORE_LOG_INVALID
<1>4. SessionIds'
  BY <1>1 DEF LogInv, SessionIds, STORE_LOG_INVALID
<1>5. Entries'
  <2>1. ASSUME NEW k \in DOMAIN log', NEW i \in Active', sessions'[i].log_id = log'[k].id
        PROVE  Recorded(i, k)'
    BY <1>1, <1>3, <2>1 DEF LogInv, Entries, Recorded
  <2>2. ASSUME NEW k \in DOMAIN log', log'[k].state = "CONNECTED"
        PROVE  \E i \in Active' : sessions'[i].log_id = log'[k].id
    <3>1. PICK i \in Active : sessions[i].log_id = log[k].id
      BY <1>1, <2>2 DEF LogInv, Entries
    <3> QED BY <1>1, <1>3, <2>2, <3>1
  <2> QED BY <2>1, <2>2 DEF Entries
<1> QED BY <1>2, <1>4, <1>5 DEF LogInv

\* A call that gives the session an entry, or a finished one as it ends.
LEMMA AppendKeepsLog ==
    ASSUME LogInv, TypeOK, NEW st, store_log_append(st),
           NEW i \in Active, sessions[i].log_id = STORE_LOG_INVALID, OthersStay(i),
           \/ /\ st = "CONNECTED" /\ i \in Active' /\ sessions'[i].host
              /\ sessions'[i].log_id = next_log_id
              /\ sessions'[i].bytes_up = 0 /\ sessions'[i].bytes_down = 0
           \/ st # "CONNECTED" /\ i \notin Active'
    PROVE  LogInv'
<1>0. RingOK /\ next_log_id \in Nat \ {0} BY TypeParts DEF RingOK
<1>1. next_log_id' = next_log_id + 1 BY <1>0, AppendEffect
<1>2. PICK p : /\ DOMAIN log' = DOMAIN log \cup {p}
               /\ \A k \in DOMAIN log \ {p} : log'[k] = log[k]
               /\ log'[p] = [id |-> next_log_id, state |-> st,
                             bytes_up |-> 0, bytes_down |-> 0]
  BY <1>0, AppendEffect
<1>3. /\ log'[p].id = next_log_id /\ log'[p].state = st
      /\ log'[p].bytes_up = 0 /\ log'[p].bytes_down = 0
  BY <1>2
<1>4. \A k \in DOMAIN log : log[k].id \in Nat /\ log[k].id < next_log_id /\ log[k].id # 0
  BY <1>0 DEF LogInv, RingIds
<1>5. RingIds'
  <2>1. \A k \in DOMAIN log' : log'[k].id \in 1..(next_log_id' - 1)
    BY <1>0, <1>1, <1>2, <1>3, <1>4
  <2>2. \A k, l \in DOMAIN log' : log'[k].id = log'[l].id => k = l
    BY <1>0, <1>2, <1>3, <1>4 DEF LogInv, RingIds
  <2> QED BY <2>1, <2>2 DEF RingIds
<1>6. \A j \in Active \ {i} : j \in Active' /\ sessions'[j] = sessions[j]
  BY DEF OthersStay
<1>7. \A j \in Active' : j \in Active BY DEF OthersStay
<1>8. i \in Active' => sessions'[i].log_id = next_log_id /\ sessions'[i].host
  OBVIOUS
<1>9. \A j \in Active : sessions[j].log_id < next_log_id BY DEF LogInv, SessionIds
<1>10. \A j \in Active : sessions[j].log_id # next_log_id
  BY <1>0, <1>9
<1>11. SessionIds'
  <2>1. \A j \in Active' : sessions'[j].log_id < next_log_id'
    <3> SUFFICES ASSUME NEW j \in Active' PROVE sessions'[j].log_id < next_log_id'
      OBVIOUS
    <3>1. CASE j = i BY <3>1, <1>0, <1>1, <1>8
    <3>2. CASE j # i
      <4>1. sessions[j] \in Node BY <1>7 DEF TypeOK, Active
      <4>2. sessions[j].log_id \in Nat BY <4>1 DEF Node
      <4> QED BY <3>2, <4>2, <1>0, <1>1, <1>6, <1>7, <1>9
    <3> QED BY <3>1, <3>2
  <2>2. \A j \in Active' : ~sessions'[j].host => sessions'[j].log_id = STORE_LOG_INVALID
    BY <1>6, <1>7, <1>8 DEF LogInv, SessionIds
  <2>3. \A j, l \in Active' : sessions'[j].log_id = sessions'[l].log_id =>
           j = l \/ sessions'[j].log_id = STORE_LOG_INVALID
    BY <1>6, <1>7, <1>8, <1>10 DEF LogInv, SessionIds
  <2> QED BY <2>1, <2>2, <2>3 DEF SessionIds
<1>12. Entries'
  <2>1. ASSUME NEW k \in DOMAIN log', NEW j \in Active', sessions'[j].log_id = log'[k].id
        PROVE  Recorded(j, k)'
    <3>1. CASE k = p
      <4>1. j = i BY <3>1, <2>1, <1>3, <1>6, <1>7, <1>10
      <4> QED BY <3>1, <4>1, <2>1, <1>3 DEF Recorded
    <3>2. CASE k # p
      <4>1. k \in DOMAIN log /\ log'[k] = log[k] BY <3>2, <2>1, <1>2
      <4>2. j # i BY <4>1, <2>1, <1>4, <1>8
      <4>3. j \in Active /\ sessions'[j] = sessions[j] BY <4>2, <2>1, <1>6, <1>7
      <4> QED BY <4>1, <4>3, <2>1 DEF LogInv, Entries, Recorded
    <3> QED BY <3>1, <3>2
  <2>2. ASSUME NEW k \in DOMAIN log', log'[k].state = "CONNECTED"
        PROVE  \E j \in Active' : sessions'[j].log_id = log'[k].id
    <3>1. CASE k = p BY <3>1, <2>2, <1>3
    <3>2. CASE k # p
      <4>1. k \in DOMAIN log /\ log'[k] = log[k] BY <3>2, <2>2, <1>2
      <4>2. PICK j \in Active : sessions[j].log_id = log[k].id
        BY <4>1, <2>2 DEF LogInv, Entries
      <4>3. j # i BY <4>1, <4>2, <1>4 DEF STORE_LOG_INVALID
      <4> QED BY <4>1, <4>2, <4>3, <1>6
    <3> QED BY <3>1, <3>2
  <2> QED BY <2>1, <2>2 DEF Entries
<1> QED BY <1>5, <1>11, <1>12 DEF LogInv

\* A call that brings the entry of a session up to date, or closes it.
LEMMA UpdateKeepsLog ==
    ASSUME LogInv, RingOK, NEW i \in Active, NEW st, NEW up, NEW down,
           store_log_update(sessions[i].log_id, st, up, down), OthersStay(i),
           \/ /\ st = "CONNECTED" /\ i \in Active'
              /\ sessions'[i].log_id = sessions[i].log_id
              /\ sessions'[i].host = sessions[i].host
              /\ sessions'[i].bytes_up = up /\ sessions'[i].bytes_down = down
           \/ st # "CONNECTED" /\ i \notin Active'
    PROVE  LogInv'
<1>1. /\ next_log_id' = next_log_id /\ DOMAIN log' = DOMAIN log
      /\ \A k \in DOMAIN log : log'[k].id = log[k].id
      /\ \A k \in DOMAIN log :
            \/ sessions[i].log_id = STORE_LOG_INVALID
            \/ log[k].id # sessions[i].log_id
            => log'[k] = log[k]
      /\ \A k \in DOMAIN log :
            sessions[i].log_id # STORE_LOG_INVALID /\ log[k].id = sessions[i].log_id =>
               /\ log'[k].state = st
               /\ log'[k].bytes_up = up /\ log'[k].bytes_down = down
  BY UpdateEffect
<1>2. \A j \in Active \ {i} : j \in Active' /\ sessions'[j] = sessions[j]
  BY DEF OthersStay
<1>3. \A j \in Active' : j \in Active BY DEF OthersStay
<1>4. i \in Active' => /\ sessions'[i].log_id = sessions[i].log_id
                       /\ sessions'[i].host = sessions[i].host
  OBVIOUS
<1>5. \A j \in Active' : /\ sessions'[j].log_id = sessions[j].log_id
                         /\ sessions'[j].host = sessions[j].host
  BY <1>2, <1>3, <1>4
<1>6. \A k \in DOMAIN log : log[k].id # STORE_LOG_INVALID
  BY DEF LogInv, RingIds, STORE_LOG_INVALID
<1>7. RingIds' BY <1>1 DEF LogInv, RingIds
<1>8. SessionIds' BY <1>1, <1>3, <1>5 DEF LogInv, SessionIds
<1>9. Entries'
  <2>1. ASSUME NEW k \in DOMAIN log', NEW j \in Active', sessions'[j].log_id = log'[k].id
        PROVE  Recorded(j, k)'
    <3>0. k \in DOMAIN log /\ j \in Active /\ sessions[j].log_id = log[k].id
      BY <2>1, <1>1, <1>3, <1>5
    <3>1. CASE j = i
      BY <3>0, <3>1, <2>1, <1>1, <1>6 DEF Recorded
    <3>2. CASE j # i
      <4>1. log[k].id # sessions[i].log_id
        BY <3>0, <3>2, <1>6 DEF LogInv, SessionIds
      <4>2. log'[k] = log[k] /\ sessions'[j] = sessions[j]
        BY <4>1, <3>0, <3>2, <1>1, <1>2
      <4> QED BY <4>2, <3>0 DEF LogInv, Entries, Recorded
    <3> QED BY <3>1, <3>2
  <2>2. ASSUME NEW k \in DOMAIN log', log'[k].state = "CONNECTED"
        PROVE  \E j \in Active' : sessions'[j].log_id = log'[k].id
    <3>0. k \in DOMAIN log /\ log'[k].id = log[k].id BY <2>2, <1>1
    <3>1. CASE log[k].id = sessions[i].log_id
      <4>1. log'[k].state = st BY <3>0, <3>1, <1>1, <1>6
      <4>2. i \in Active' BY <4>1, <2>2
      <4> QED BY <4>2, <3>0, <3>1, <1>4
    <3>2. CASE log[k].id # sessions[i].log_id
      <4>1. log'[k] = log[k] BY <3>0, <3>2, <1>1
      <4>2. PICK j \in Active : sessions[j].log_id = log[k].id
        BY <4>1, <3>0, <2>2 DEF LogInv, Entries
      <4>3. j # i BY <3>2, <4>2
      <4> QED BY <3>0, <4>2, <4>3, <1>2
    <3> QED BY <3>1, <3>2
  <2> QED BY <2>1, <2>2 DEF Entries
<1> QED BY <1>7, <1>8, <1>9 DEF LogInv

\* Writing slot i, or releasing it, leaves the others alone.
LEMMA UpdateIsLocal ==
    ASSUME TypeOK, NEW i \in Active, NEW n \in Node, n.active,
           sessions' = [sessions EXCEPT ![i] = n]
    PROVE  OthersStay(i) /\ Active' = Active /\ sessions'[i] = n
<1>1. i \in DOMAIN sessions BY DEF Active
<1>2. /\ sessions'[i] = n /\ Active' = Active \cup {i}
      /\ \A j \in DOMAIN sessions \ {i} : sessions'[j] = sessions[j]
  BY <1>1, SlotWritten DEF TypeOK
<1> QED BY <1>2 DEF OthersStay, Active

\* So does releasing it.
LEMMA ReleaseIsLocal ==
    ASSUME Inv, NEW i \in Active, store_session_remove(i)
    PROVE  OthersStay(i) /\ i \notin Active'
<1>1. /\ Active' = Active \ {i} /\ \A j \in Active \ {i} : sessions'[j] = sessions[j]
  BY RemoveEffect DEF Inv, SlotInv
<1> QED BY <1>1 DEF OthersStay

\* An update that touches no field of the log.
LEMMA QuietUpdate ==
    ASSUME Inv, LogInv, UNCHANGED ringVars, NEW i \in Active, NEW n \in Node, n.active,
           sessions' = [sessions EXCEPT ![i] = n],
           n.log_id = sessions[i].log_id, n.bytes_up = sessions[i].bytes_up,
           n.bytes_down = sessions[i].bytes_down, sessions[i].host => n.host
    PROVE  LogInv'
<1>1. OthersStay(i) /\ Active' = Active /\ sessions'[i] = n BY UpdateIsLocal DEF Inv
<1>2. next_log_id \in Nat \ {0} BY DEF Inv, TypeOK
<1>3. \A j \in Active' :
         /\ j \in Active
         /\ sessions'[j].log_id = sessions[j].log_id
         /\ sessions'[j].bytes_up = sessions[j].bytes_up
         /\ sessions'[j].bytes_down = sessions[j].bytes_down
         /\ sessions[j].host => sessions'[j].host
  BY <1>1 DEF OthersStay
<1> QED BY <1>1, <1>2, <1>3, QuietKeepsLog

\* Every call keeps entries and sessions together.
LEMMA NextLog == Inv /\ LogInv /\ [Next]_vars => LogInv'
<1> SUFFICES ASSUME Inv, LogInv, [Next]_vars PROVE LogInv' OBVIOUS
<1>1. /\ TypeOK /\ RingOK /\ next_log_id \in Nat \ {0}
      /\ \A i \in Active : i \in DOMAIN sessions /\ sessions[i] \in Node /\ sessions[i].active
  BY TypeParts DEF Inv, TypeOK, Active
<1>2. CASE store_session_begin_admits
  <2>1. UNCHANGED ringVars BY <1>2 DEF store_session_begin_admits
  <2>2. PICK i \in DOMAIN sessions :
           /\ IsFirstFree(i)
           /\ sessions' = [sessions EXCEPT ![i] =
                 [ZeroNode EXCEPT !.active = TRUE, !.id = next_session_id]]
    BY <1>2 DEF store_session_begin_admits
  <2> DEFINE n == [ZeroNode EXCEPT !.active = TRUE, !.id = next_session_id]
  <2>3. n \in Node /\ n.active /\ n.log_id = STORE_LOG_INVALID
    BY <1>1 DEF ZeroNode, Node, Phases, TypeOK, STORE_LOG_INVALID
  <2>4. sessions' = [sessions EXCEPT ![i] = n] BY <2>2
  <2> HIDE DEF n
  <2>5. /\ sessions'[i] = n /\ Active' = Active \cup {i}
        /\ \A j \in DOMAIN sessions \ {i} : sessions'[j] = sessions[j]
    BY <1>1, <2>3, <2>4, SlotWritten DEF TypeOK
  <2>6. i \notin Active BY <2>2 DEF IsFirstFree
  <2>7. \A j \in Active : j \in Active' /\ sessions'[j] = sessions[j]
    BY <1>1, <2>5, <2>6
  <2>8. \A j \in Active' : j \in Active \/ sessions'[j].log_id = STORE_LOG_INVALID
    BY <2>3, <2>5
  <2> QED BY <1>1, <2>1, <2>7, <2>8, QuietKeepsLog
<1>3. CASE store_session_begin_refuses \/ UNCHANGED vars
  <2>1. UNCHANGED ringVars /\ sessions' = sessions
    BY <1>3 DEF store_session_begin_refuses, vars, ringVars
  <2>2. Active' = Active BY <2>1 DEF Active
  <2> QED BY <1>1, <2>1, <2>2, QuietKeepsLog
<1>4. ASSUME NEW id \in held, store_session_set_user(id) PROVE LogInv'
  <2>1. UNCHANGED ringVars BY <1>4 DEF store_session_set_user
  <2>2. PICK i \in Active : sessions' = [sessions EXCEPT ![i].username = TRUE]
    BY <1>4 DEF store_session_set_user, IsNode
  <2> DEFINE n == [sessions[i] EXCEPT !.username = TRUE]
  <2>3. /\ n \in Node /\ n.active /\ n.log_id = sessions[i].log_id
        /\ n.bytes_up = sessions[i].bytes_up /\ n.bytes_down = sessions[i].bytes_down
        /\ n.host = sessions[i].host
    BY <1>1 DEF Node
  <2>4. sessions' = [sessions EXCEPT ![i] = n] BY <2>2
  <2> HIDE DEF n
  <2> QED BY <2>1, <2>3, <2>4, QuietUpdate
<1>5. ASSUME NEW id \in held, store_session_set_phase(id) PROVE LogInv'
  <2>1. UNCHANGED ringVars BY <1>5 DEF store_session_set_phase
  <2>2. PICK i \in Active, p \in {"AUTH", "CONNECTING"} :
           sessions' = [sessions EXCEPT ![i].phase = p]
    BY <1>5 DEF store_session_set_phase, IsNode
  <2> DEFINE n == [sessions[i] EXCEPT !.phase = p]
  <2>3. /\ n \in Node /\ n.active /\ n.log_id = sessions[i].log_id
        /\ n.bytes_up = sessions[i].bytes_up /\ n.bytes_down = sessions[i].bytes_down
        /\ n.host = sessions[i].host
    BY <1>1, <2>2 DEF Node, Phases
  <2>4. sessions' = [sessions EXCEPT ![i] = n] BY <2>2
  <2> HIDE DEF n
  <2> QED BY <2>1, <2>3, <2>4, QuietUpdate
<1>6. ASSUME NEW id \in held, store_session_set_dest(id) PROVE LogInv'
  <2>1. PICK i \in Active :
           /\ ~sessions[i].host
           /\ sessions[i].bytes_up + sessions[i].bytes_down = 0
           /\ IF sessions[i].username
                THEN /\ store_log_append("CONNECTED")
                     /\ sessions' = [sessions EXCEPT ![i].host = TRUE,
                                        ![i].phase = "RELAY",
                                        ![i].log_id = next_log_id]
                ELSE /\ UNCHANGED ringVars
                     /\ sessions' = [sessions EXCEPT ![i].host = TRUE,
                                        ![i].phase = "RELAY"]
    BY <1>6 DEF store_session_set_dest, IsNode
  <2>2. sessions[i].log_id = STORE_LOG_INVALID BY <2>1 DEF LogInv, SessionIds
  <2>3. sessions[i].bytes_up = 0 /\ sessions[i].bytes_down = 0
    <3>1. sessions[i].bytes_up \in Nat /\ sessions[i].bytes_down \in Nat BY <1>1 DEF Node
    <3> QED BY <2>1, <3>1
  <2>4. CASE sessions[i].username
    <3> DEFINE n == [sessions[i] EXCEPT !.host = TRUE, !.phase = "RELAY",
                                        !.log_id = next_log_id]
    <3>1. /\ n \in Node /\ n.active /\ n.log_id = next_log_id /\ n.host
          /\ n.bytes_up = sessions[i].bytes_up /\ n.bytes_down = sessions[i].bytes_down
      BY <1>1 DEF Node, Phases
    <3>2. sessions' = [sessions EXCEPT ![i] = n] BY <2>1, <2>4
    <3> HIDE DEF n
    <3>3. OthersStay(i) /\ Active' = Active /\ sessions'[i] = n
      BY <1>1, <3>1, <3>2, UpdateIsLocal
    <3>4. store_log_append("CONNECTED") BY <2>1, <2>4
    <3> QED BY <1>1, <2>2, <2>3, <3>1, <3>3, <3>4, AppendKeepsLog
  <2>5. CASE ~sessions[i].username
    <3> DEFINE n == [sessions[i] EXCEPT !.host = TRUE, !.phase = "RELAY"]
    <3>1. /\ n \in Node /\ n.active /\ n.log_id = sessions[i].log_id /\ n.host
          /\ n.bytes_up = sessions[i].bytes_up /\ n.bytes_down = sessions[i].bytes_down
      BY <1>1 DEF Node, Phases
    <3>2. sessions' = [sessions EXCEPT ![i] = n] /\ UNCHANGED ringVars BY <2>1, <2>5
    <3> HIDE DEF n
    <3> QED BY <3>1, <3>2, QuietUpdate
  <2> QED BY <2>4, <2>5
<1>7. ASSUME NEW id \in held, NEW up \in Nat, NEW down \in Nat,
             store_session_add_bytes(id, up, down)
      PROVE  LogInv'
  <2>1. PICK i \in Active :
           /\ sessions' = [sessions EXCEPT ![i].bytes_up = @ + up,
                                           ![i].bytes_down = @ + down]
           /\ store_log_update(sessions[i].log_id, "CONNECTED",
                               sessions[i].bytes_up + up,
                               sessions[i].bytes_down + down)
    BY <1>7 DEF store_session_add_bytes, IsNode
  <2> DEFINE a == sessions[i].bytes_up + up
             b == sessions[i].bytes_down + down
             n == [sessions[i] EXCEPT !.bytes_up = a, !.bytes_down = b]
  <2>2. sessions[i] \in Node /\ a \in Nat /\ b \in Nat BY <1>1 DEF Node
  <2>3. sessions' = [sessions EXCEPT ![i] = n] BY <2>1
  <2>4. store_log_update(sessions[i].log_id, "CONNECTED", a, b) BY <2>1
  <2> HIDE DEF a, b
  <2>5. /\ n \in Node /\ n.active /\ n.log_id = sessions[i].log_id
        /\ n.host = sessions[i].host /\ n.bytes_up = a /\ n.bytes_down = b
    BY <1>1, <2>2 DEF Node
  <2> HIDE DEF n
  <2>6. OthersStay(i) /\ Active' = Active /\ sessions'[i] = n
    BY <1>1, <2>3, <2>5, UpdateIsLocal
  <2> QED BY <1>1, <2>4, <2>5, <2>6, UpdateKeepsLog
<1>8. ASSUME NEW id \in held, store_session_mark_failed(id) PROVE LogInv'
  <2>1. PICK i \in Active :
           /\ sessions[i].log_id = STORE_LOG_INVALID
           /\ store_log_append("FAILED") \/ UNCHANGED ringVars
           /\ store_session_remove(i)
    BY <1>8 DEF store_session_mark_failed, IsNode
  <2>2. OthersStay(i) /\ i \notin Active' BY <2>1, ReleaseIsLocal
  <2>3. CASE store_log_append("FAILED")
    BY <1>1, <2>1, <2>2, <2>3, AppendKeepsLog
  <2>4. CASE UNCHANGED ringVars
    <3>1. \A j \in Active' : j \in Active /\ sessions'[j] = sessions[j]
      BY <2>2 DEF OthersStay
    <3>2. \A j \in Active : sessions[j].log_id # STORE_LOG_INVALID =>
             j \in Active' /\ sessions'[j] = sessions[j]
      BY <2>1, <2>2 DEF OthersStay
    <3> QED BY <1>1, <2>4, <3>1, <3>2, QuietKeepsLog
  <2> QED BY <2>1, <2>3, <2>4
<1>9. ASSUME NEW id \in held, store_session_end(id) PROVE LogInv'
  <2>1. PICK i \in Active :
           /\ store_log_update(sessions[i].log_id, "CLOSED",
                               sessions[i].bytes_up, sessions[i].bytes_down)
           /\ store_session_remove(i)
    BY <1>9 DEF store_session_end, IsNode
  <2>2. OthersStay(i) /\ i \notin Active' BY <2>1, ReleaseIsLocal
  <2> QED BY <1>1, <2>1, <2>2, UpdateKeepsLog
<1>10. ASSUME NEW id \in held, store_session_mark_ttl_expired(id) PROVE LogInv'
  <2>1. PICK i \in Active :
           /\ \/ /\ sessions[i].log_id = STORE_LOG_INVALID
                 /\ store_log_append("TTL_EXPIRED")
              \/ store_log_update(sessions[i].log_id, "TTL_EXPIRED",
                                  sessions[i].bytes_up, sessions[i].bytes_down)
           /\ store_session_remove(i)
    BY <1>10 DEF store_session_mark_ttl_expired, IsNode
  <2>2. OthersStay(i) /\ i \notin Active' BY <2>1, ReleaseIsLocal
  <2>3. CASE /\ sessions[i].log_id = STORE_LOG_INVALID
             /\ store_log_append("TTL_EXPIRED")
    BY <1>1, <2>2, <2>3, AppendKeepsLog
  <2>4. CASE store_log_update(sessions[i].log_id, "TTL_EXPIRED",
                              sessions[i].bytes_up, sessions[i].bytes_down)
    BY <1>1, <2>2, <2>4, UpdateKeepsLog
  <2> QED BY <2>1, <2>3, <2>4
<1>11. ASSUME NEW value \in 1..CapMax, store_config_set(value) PROVE LogInv'
  <2>1. UNCHANGED ringVars BY <1>11 DEF store_config_set
  <2>2. \A j \in Active : j \in Active' /\ sessions'[j] = sessions[j]
    <3>1. CASE UNCHANGED sessions BY <3>1 DEF Active
    <3>2. CASE store_grow_sessions_slots(value)
      <4>1. Len(sessions) \in Nat /\ DOMAIN sessions = 1..Len(sessions)
        BY <1>1 DEF TypeOK
      <4>2. \A j \in DOMAIN sessions : j \in DOMAIN sessions' /\ sessions'[j] = sessions[j]
        BY <3>2, <4>1 DEF store_grow_sessions_slots
      <4> QED BY <4>2 DEF Active
    <3> QED BY <1>11, <3>1, <3>2 DEF store_config_set
  <2>3. \A j \in Active' : j \in Active
    <3>1. CASE UNCHANGED sessions BY <3>1 DEF Active
    <3>2. CASE store_grow_sessions_slots(value)
      <4>1. Len(sessions) \in Nat /\ DOMAIN sessions = 1..Len(sessions)
        BY <1>1 DEF TypeOK
      <4>2. \A j \in DOMAIN sessions' :
               \/ j \in DOMAIN sessions /\ sessions'[j] = sessions[j]
               \/ sessions'[j] = ZeroNode
        BY <3>2, <4>1 DEF store_grow_sessions_slots
      <4>3. ~ZeroNode.active BY DEF ZeroNode
      <4> QED BY <4>2, <4>3 DEF Active
    <3> QED BY <1>11, <3>1, <3>2 DEF store_config_set
  <2> QED BY <1>1, <2>1, <2>2, <2>3, QuietKeepsLog
<1>12. 0 \in Nat /\ 1 \in Nat OBVIOUS
<1> QED
  BY <1>2, <1>3, <1>4, <1>5, <1>6, <1>7, <1>8, <1>9, <1>10, <1>11, <1>12
  DEF Next, SocksCall, store_session_begin

\* The log, too, is an invariant.
LEMMA LogInvariance == Spec => []LogInv
<1>1. Init => LogInv
  <2> SUFFICES ASSUME Init PROVE LogInv OBVIOUS
  <2>1. log = << >> /\ DOMAIN log = {} BY DEF Init, store_create
  <2>2. Active = {}
    BY TableAssumption DEF Init, store_create, Active, ZeroNode
  <2> QED BY <2>1, <2>2 DEF LogInv, RingIds, SessionIds, Entries
<1> QED BY <1>1, Invariance, NextLog, PTL DEF Spec

\* An entry of the access log reads CONNECTED exactly while its session is
\* open, with that session's bytes, however the ring wraps.
THEOREM LogAlwaysFollows == Spec => []LogFollowsSessions
<1>1. LogInv => LogFollowsSessions
  <2> SUFFICES ASSUME LogInv, NEW k \in DOMAIN log
               PROVE  log[k].state = "CONNECTED" <=>
                         \E i \in Active :
                            /\ sessions[i].log_id = log[k].id
                            /\ sessions[i].bytes_up = log[k].bytes_up
                            /\ sessions[i].bytes_down = log[k].bytes_down
    BY DEF LogFollowsSessions
  <2>1. \A i \in Active : sessions[i].log_id = log[k].id => Recorded(i, k)
    BY DEF LogInv, Entries
  <2>2. log[k].state = "CONNECTED" => \E i \in Active : sessions[i].log_id = log[k].id
    BY DEF LogInv, Entries
  <2> QED BY <2>1, <2>2 DEF Recorded
<1> QED BY <1>1, LogInvariance, PTL

\* What a call may do to a finished entry: nothing, or overwrite it.
FinishedStay ==
    \A k \in DOMAIN log : log[k].state # "CONNECTED" =>
                             log'[k] = log[k] \/ log'[k].id > log[k].id

\* A new entry is newer than the one it overwrites.
LEMMA AppendKeepsFinished ==
    ASSUME LogInv, RingOK, NEW st, store_log_append(st)
    PROVE  FinishedStay
<1>1. PICK p : /\ \A k \in DOMAIN log \ {p} : log'[k] = log[k]
               /\ log'[p] = [id |-> next_log_id, state |-> st,
                             bytes_up |-> 0, bytes_down |-> 0]
  BY AppendEffect
<1>2. log'[p].id = next_log_id BY <1>1
<1>3. \A k \in DOMAIN log : next_log_id > log[k].id BY DEF LogInv, RingIds, RingOK
<1> QED BY <1>1, <1>2, <1>3 DEF FinishedStay

\* The entry that a running session updates is not finished.
LEMMA UpdateKeepsFinished ==
    ASSUME LogInv, RingOK, NEW i \in Active, NEW st, NEW up, NEW down,
           store_log_update(sessions[i].log_id, st, up, down)
    PROVE  FinishedStay
<1>1. \A k \in DOMAIN log :
         \/ sessions[i].log_id = STORE_LOG_INVALID
         \/ log[k].id # sessions[i].log_id
         => log'[k] = log[k]
  BY UpdateEffect
<1>2. \A k \in DOMAIN log : sessions[i].log_id = log[k].id => log[k].state = "CONNECTED"
  BY DEF LogInv, Entries, Recorded
<1> QED BY <1>1, <1>2 DEF FinishedStay

\* A finished entry of the access log is never reopened and never given
\* other bytes: only a newer entry takes its place.
THEOREM FinishedAlwaysStay == Spec => FinishedEntriesStay
<1>1. Inv /\ LogInv /\ [Next]_vars => [FinishedStay]_vars
  <2> SUFFICES ASSUME Inv, LogInv, Next PROVE FinishedStay OBVIOUS
  <2>0. RingOK BY TypeParts DEF Inv
  <2>1. CASE UNCHANGED ringVars BY <2>1 DEF FinishedStay, ringVars
  <2>2. CASE \E st \in LogStates : store_log_append(st) BY <2>0, <2>2, AppendKeepsFinished
  <2>3. CASE \E i \in Active : \E st, up, down :
                store_log_update(sessions[i].log_id, st, up, down)
    BY <2>0, <2>3, UpdateKeepsFinished
  <2>4. ASSUME NEW id \in held, SocksCall(id)
        PROVE  \/ UNCHANGED ringVars
               \/ \E st \in LogStates : store_log_append(st)
               \/ \E i \in Active : \E st, up, down :
                     store_log_update(sessions[i].log_id, st, up, down)
    <3>1. CASE store_session_set_user(id) \/ store_session_set_phase(id)
      BY <3>1 DEF store_session_set_user, store_session_set_phase
    <3>2. CASE store_session_set_dest(id)
      <4>1. PICK i \in DOMAIN sessions :
               store_log_append("CONNECTED") \/ UNCHANGED ringVars
        BY <3>2 DEF store_session_set_dest
      <4> QED BY <4>1 DEF LogStates
    <3>3. ASSUME NEW up, NEW down, store_session_add_bytes(id, up, down)
          PROVE  \E i \in Active : \E st, u, d :
                    store_log_update(sessions[i].log_id, st, u, d)
      BY <3>3 DEF store_session_add_bytes, IsNode
    <3>4. CASE store_session_mark_failed(id)
      <4>1. store_log_append("FAILED") \/ UNCHANGED ringVars
        BY <3>4 DEF store_session_mark_failed
      <4> QED BY <4>1 DEF LogStates
    <3>5. CASE store_session_end(id) BY <3>5 DEF store_session_end, IsNode
    <3>6. CASE store_session_mark_ttl_expired(id)
      <4>1. PICK i \in Active :
               \/ store_log_append("TTL_EXPIRED")
               \/ store_log_update(sessions[i].log_id, "TTL_EXPIRED",
                                   sessions[i].bytes_up, sessions[i].bytes_down)
        BY <3>6 DEF store_session_mark_ttl_expired, IsNode
      <4> QED BY <4>1 DEF LogStates
    <3> QED BY <2>4, <3>1, <3>2, <3>3, <3>4, <3>5, <3>6 DEF SocksCall
  <2>5. CASE store_session_begin \/ \E value \in 1..CapMax : store_config_set(value)
    BY <2>1, <2>5
    DEF store_session_begin, store_session_begin_admits, store_session_begin_refuses,
        store_config_set
  <2> QED BY <2>1, <2>2, <2>3, <2>4, <2>5 DEF Next
<1> QED BY <1>1, Invariance, LogInvariance, PTL DEF Spec, FinishedEntriesStay, FinishedStay
=============================================================================
