------------------------- MODULE Handshake_proofs -------------------------
(***************************************************************************)
(* First the user table, for every table size and every set of names.      *)
(*                                                                         *)
(* Then the handshakes.  Clients that authenticate do not change the       *)
(* accounts, so that what is proved of the user table holds while          *)
(* handshakes are under way.  The parsers stay inside their arrays, and    *)
(* what each knows after a byte is what the message so far says            *)
(* (HeardInv): from it, the client gets as far as its bytes allow, to the  *)
(* destination it named, for every length and however the bytes arrive.    *)
(***************************************************************************)
EXTENDS Handshake, FiniteSetTheorems, WellFoundedInduction, TLAPS

-----------------------------------------------------------------------------
(***************************************************************************)
(* What each operation does to the slots                                   *)
(***************************************************************************)

\* store_user_add fills one slot that was free and leaves the others alone.
LEMMA AddEffect ==
    ASSUME TypeOK, NEW n \in Names, NEW p \in Passwords,
           NEW role \in {"user", "admin"}, store_user_add(n, p, role)
    PROVE  \E i \in Slots \ Used :
              /\ users'[i].used /\ users'[i].username = Stored[n]
              /\ users'[i].password = Kept[p] /\ users'[i].role = role
              /\ \A j \in Slots \ {i} : users'[j] = users[j]
              /\ Used' = Used \cup {i}
<1>1. PICK i \in Slots \ Used :
         users' = [users EXCEPT ![i] =
            [used |-> TRUE, username |-> Stored[n], password |-> Kept[p],
             role |-> role]]
  BY DEF store_user_add, IsFirst
<1>2. /\ users'[i].used /\ users'[i].username = Stored[n]
      /\ users'[i].password = Kept[p] /\ users'[i].role = role
      /\ \A j \in Slots \ {i} : users'[j] = users[j]
  BY <1>1 DEF TypeOK
<1>3. Used' = Used \cup {i}
  BY <1>2 DEF Used
<1> QED
  BY <1>2, <1>3

\* store_user_delete empties the slot of a user with that name, and not the
\* slot of the last administrator.
LEMMA DeleteEffect ==
    ASSUME TypeOK, NEW n \in Names, store_user_delete(n)
    PROVE  \E i \in Matches(n) :
              /\ \A j \in Slots \ {i} : users'[j] = users[j]
              /\ Used' = Used \ {i}
              /\ ~(users[i].role = "admin" /\ store_admin_count <= 1)
<1>1. PICK i \in Matches(n) :
         /\ users' = [users EXCEPT ![i] =
               [used |-> FALSE, username |-> NoName, password |-> NoName,
                role |-> @.role]]
         /\ ~(users[i].role = "admin" /\ store_admin_count <= 1)
  BY DEF store_user_delete, IsFirst
<1>2. i \in Slots
  BY DEF Matches, Used
<1>3. ~users'[i].used /\ \A j \in Slots \ {i} : users'[j] = users[j]
  BY <1>1, <1>2 DEF TypeOK
<1>4. Used' = Used \ {i}
  BY <1>2, <1>3 DEF Used
<1> QED
  BY <1>1, <1>3, <1>4

\* store_user_set_password changes the password of one user with that name.
LEMMA SetPasswordEffect ==
    ASSUME TypeOK, NEW n \in Names, NEW p \in Passwords,
           store_user_set_password(n, p)
    PROVE  /\ \E i \in Matches(n) :
                 /\ users'[i].password = Kept[p]
                 /\ \A j \in Slots \ {i} : users'[j] = users[j]
           /\ users' \in [Slots -> User]
           /\ \A j \in Slots : /\ users'[j].used = users[j].used
                               /\ users'[j].username = users[j].username
                               /\ users'[j].role = users[j].role
           /\ Used' = Used
           /\ Admins' = Admins
<1>1. PICK i \in Matches(n) :
         users' = [users EXCEPT ![i] =
            [used |-> TRUE, username |-> @.username, password |-> Kept[p],
             role |-> @.role]]
  BY DEF store_user_set_password, IsFirst
<1>2. i \in Slots /\ users[i].used
  BY DEF Matches, Used
<1>3. /\ users'[i].used = TRUE /\ users'[i].username = users[i].username
      /\ users'[i].password = Kept[p] /\ users'[i].role = users[i].role
      /\ \A j \in Slots \ {i} : users'[j] = users[j]
  BY <1>1, <1>2 DEF TypeOK
<1>4. users[i] \in User
  BY <1>2 DEF TypeOK
<1>5. users' \in [Slots -> User]
  <2>1. [used |-> TRUE, username |-> users[i].username, password |-> Kept[p],
         role |-> users[i].role] \in User
    BY <1>4, UsersAssumption DEF User
  <2> QED
    BY <1>1, <2>1 DEF TypeOK
<1>6. users[i].used = TRUE
  BY <1>2, <1>4 DEF User
<1>7. \A j \in Slots : /\ users'[j].used = users[j].used
                       /\ users'[j].username = users[j].username
                       /\ users'[j].role = users[j].role
  BY <1>3, <1>6
<1>8. Used' = Used
  BY <1>7 DEF Used
<1>9. Admins' = Admins
  BY <1>7, <1>8 DEF Admins, Used
<1> QED
  BY <1>1, <1>3, <1>5, <1>7, <1>8, <1>9

-----------------------------------------------------------------------------
(***************************************************************************)
(* Types                                                                   *)
(***************************************************************************)

\* A successful store_user_add keeps the table and its count well typed.
LEMMA AddType ==
    ASSUME TypeOK, NEW n \in Names, NEW p \in Passwords,
           NEW role \in {"user", "admin"}, store_user_add(n, p, role)
    PROVE  users' \in [Slots -> User] /\ user_count' \in Nat
<1> USE UsersAssumption
<1>1. [used |-> TRUE, username |-> Stored[n], password |-> Kept[p], role |-> role]
         \in User
  BY DEF User
<1>2. users' \in [Slots -> User]
  BY <1>1 DEF store_user_add, TypeOK
<1>3. user_count' \in Nat
  BY DEF store_user_add, TypeOK
<1> QED
  BY <1>2, <1>3

\* So does store_user_delete.
LEMMA DeleteType ==
    ASSUME TypeOK, NEW n \in Names, store_user_delete(n)
    PROVE  users' \in [Slots -> User] /\ user_count' \in Nat
<1>1. users' \in [Slots -> User]
  BY DEF store_user_delete, TypeOK, User
<1>2. user_count' \in Nat
  BY DEF store_user_delete, TypeOK
<1> QED
  BY <1>1, <1>2

\* Every reachable table has the declared type.
THEOREM TypeCorrect == Spec => []TypeOK
<1>1. Init => TypeOK
  BY UsersAssumption DEF Init, TypeOK, NoUser, User
<1>2. TypeOK /\ [Next]_vars => TypeOK'
  <2> SUFFICES ASSUME TypeOK, [Next]_vars
               PROVE  TypeOK'
    OBVIOUS
  <2>1. ASSUME NEW n \in Names, NEW p \in Passwords, FlagUser(n, p)
        PROVE  TypeOK'
    BY <2>1, AddType DEF FlagUser, TypeOK
  <2>2. ASSUME NEW n \in Names, NEW p \in Passwords, FlagAdmin(n, p)
        PROVE  TypeOK'
    BY <2>2, AddType DEF FlagAdmin, TypeOK
  <2>3. ASSUME NEW n \in Names, NEW p \in Passwords, Command(n, p)
        PROVE  TypeOK'
    <3>1. CASE \E role \in {"user", "admin"} : store_user_add(n, p, role)
      BY <2>3, <3>1, AddType DEF Command, TypeOK
    <3>2. CASE store_user_delete(n)
      BY <2>3, <3>2, DeleteType DEF Command, TypeOK
    <3>3. CASE store_user_set_password(n, p)
      <4>1. users' \in [Slots -> User]
        BY <3>3, SetPasswordEffect
      <4> QED
        BY <2>3, <3>3, <4>1 DEF Command, TypeOK, store_user_set_password
    <3> QED
      BY <2>3, <3>1, <3>2, <3>3 DEF Command
  <2>4. ASSUME NEW n \in Names, FlagRefused(n)
        PROVE  TypeOK'
    BY <2>4 DEF FlagRefused, TypeOK
  <2>7. CASE FlagMalformed
    BY <2>7 DEF FlagMalformed, TypeOK
  <2>5. CASE StartServing
    BY <2>5 DEF StartServing, TypeOK
  <2>6. CASE Exited \/ UNCHANGED vars
    BY <2>6 DEF Exited, vars, TypeOK
  <2> QED
    BY <2>1, <2>2, <2>3, <2>4, <2>5, <2>6, <2>7 DEF Next
<1> QED
  BY <1>1, <1>2, PTL DEF Spec

-----------------------------------------------------------------------------
(***************************************************************************)
(* The last administrator                                                  *)
(***************************************************************************)

\* The table is finite, so its users can be counted.
LEMMA FiniteTable == IsFiniteSet(Used) /\ IsFiniteSet(Admins)
<1>1. IsFiniteSet(Slots)
  BY FS_Interval, UsersAssumption DEF Slots
<1> QED
  BY <1>1, FS_Subset DEF Admins, Used

\* store_user_add takes no administrator away, and adds the one it is asked
\* for.
LEMMA AddKeepsAdmins ==
    ASSUME TypeOK, NEW n \in Names, NEW p \in Passwords,
           NEW role \in {"user", "admin"}, store_user_add(n, p, role)
    PROVE  Admins \subseteq Admins' /\ (role = "admin" => Admins' # {})
  BY AddEffect DEF Admins, Used

\* The guard of store_user_delete: with more than one administrator, deleting
\* any slot leaves one; a slot that is not one is deleted freely.
LEMMA DeleteKeepsAnAdmin ==
    ASSUME TypeOK, Admins # {}, NEW n \in Names, store_user_delete(n)
    PROVE  Admins' # {}
<1>1. PICK i \in Matches(n) :
         /\ \A j \in Slots \ {i} : users'[j] = users[j]
         /\ ~(users[i].role = "admin" /\ store_admin_count <= 1)
  BY DeleteEffect
<1>2. Admins \ {i} # {}
  <2>1. CASE users[i].role # "admin"
    BY <2>1 DEF Admins, Used
  <2>2. CASE users[i].role = "admin"
    <3>1. Cardinality(Admins) \in Nat /\ ~(Cardinality(Admins) <= 1)
      BY <1>1, <2>2, FiniteTable, FS_CardinalityType DEF store_admin_count
    <3>2. Cardinality({i}) = 1 /\ IsFiniteSet({i})
      BY FS_Singleton
    <3>3. ASSUME Admins \subseteq {i}
          PROVE  FALSE
      <4>1. Cardinality(Admins) <= Cardinality({i})
        BY <3>2, <3>3, FS_Subset
      <4> QED
        BY <4>1, <3>1, <3>2
    <3> QED
      BY <3>3
  <2> QED
    BY <2>1, <2>2
<1>3. PICK j \in Admins : j # i
  BY <1>2
<1>4. j \in Admins'
  BY <1>1, <1>3 DEF Admins, Used
<1> QED
  BY <1>4

\* A proxy that serves always has an administrator.
THEOREM AdminAlwaysRemains == Spec => []AdminRemains
<1>1. Init => AdminRemains
  BY DEF Init, AdminRemains
<1>2. TypeOK /\ AdminRemains /\ [Next]_vars => AdminRemains'
  <2> SUFFICES ASSUME TypeOK, AdminRemains, [Next]_vars
               PROVE  AdminRemains'
    OBVIOUS
  <2>1. ASSUME NEW n \in Names, NEW p \in Passwords, FlagUser(n, p)
        PROVE  AdminRemains'
    BY <2>1 DEF FlagUser, AdminRemains
  <2>2. ASSUME NEW n \in Names, NEW p \in Passwords, FlagAdmin(n, p)
        PROVE  AdminRemains'
    BY <2>2, AddKeepsAdmins DEF FlagAdmin, AdminRemains
  <2>3. ASSUME NEW n \in Names, NEW p \in Passwords, Command(n, p)
        PROVE  AdminRemains'
    <3>0. Admins # {}
      BY <2>3 DEF Command, AdminRemains
    <3>1. CASE \E role \in {"user", "admin"} : store_user_add(n, p, role)
      BY <3>0, <3>1, AddKeepsAdmins DEF AdminRemains
    <3>2. CASE store_user_delete(n)
      BY <3>0, <3>2, DeleteKeepsAnAdmin DEF AdminRemains
    <3>3. CASE store_user_set_password(n, p)
      BY <3>0, <3>3, SetPasswordEffect DEF AdminRemains
    <3> QED
      BY <2>3, <3>1, <3>2, <3>3 DEF Command
  <2>4. ASSUME NEW n \in Names, FlagRefused(n)
        PROVE  AdminRemains'
    BY <2>4 DEF FlagRefused, AdminRemains
  <2>7. CASE FlagMalformed
    BY <2>7 DEF FlagMalformed, AdminRemains
  <2>5. CASE StartServing
    BY <2>5 DEF StartServing, AdminRemains, Admins, Used
  <2>6. CASE Exited \/ UNCHANGED vars
    BY <2>6 DEF Exited, vars, AdminRemains, Admins, Used
  <2> QED
    BY <2>1, <2>2, <2>3, <2>4, <2>5, <2>6, <2>7 DEF Next
<1> QED
  BY <1>1, <1>2, TypeCorrect, PTL DEF Spec

-----------------------------------------------------------------------------
(***************************************************************************)
(* The counter                                                             *)
(***************************************************************************)

\* user_count is the number of users, so its guard against underflow in
\* store_user_delete never takes effect.
THEOREM CountAlwaysMatches == Spec => []CountMatchesTable
<1>1. Init => CountMatchesTable
  <2> SUFFICES ASSUME Init
               PROVE  CountMatchesTable
    OBVIOUS
  <2>1. Used = {}
    BY DEF Init, Used, NoUser
  <2> QED
    BY <2>1, FS_EmptySet DEF Init, CountMatchesTable
<1>2. TypeOK /\ CountMatchesTable /\ [Next]_vars => CountMatchesTable'
  <2> SUFFICES ASSUME TypeOK, CountMatchesTable, [Next]_vars
               PROVE  CountMatchesTable'
    OBVIOUS
  <2>1. ASSUME NEW n \in Names, NEW p \in Passwords,
               NEW role \in {"user", "admin"}, store_user_add(n, p, role)
        PROVE  CountMatchesTable'
    <3>1. PICK i \in Slots \ Used : Used' = Used \cup {i}
      BY <2>1, AddEffect
    <3>2. Cardinality(Used \cup {i}) = Cardinality(Used) + 1
      BY FiniteTable, FS_AddElement
    <3> QED
      BY <2>1, <3>1, <3>2 DEF CountMatchesTable, store_user_add
  <2>2. ASSUME NEW n \in Names, store_user_delete(n)
        PROVE  CountMatchesTable'
    <3>1. PICK i \in Used : Used' = Used \ {i}
      BY <2>2, DeleteEffect DEF Matches
    <3>2. Cardinality(Used \ {i}) = Cardinality(Used) - 1
      BY FiniteTable, FS_RemoveElement
    <3>3. Cardinality(Used \ {i}) \in Nat
      BY FiniteTable, FS_RemoveElement, FS_CardinalityType
    <3>4. user_count > 0
      BY <3>2, <3>3 DEF CountMatchesTable, TypeOK
    <3> QED
      BY <2>2, <3>1, <3>2, <3>4 DEF CountMatchesTable, store_user_delete
  <2>3. ASSUME NEW n \in Names, NEW p \in Passwords,
               store_user_set_password(n, p)
        PROVE  CountMatchesTable'
    BY <2>3, SetPasswordEffect DEF CountMatchesTable, store_user_set_password
  <2>4. ASSUME UNCHANGED <<users, user_count>>
        PROVE  CountMatchesTable'
    BY <2>4 DEF CountMatchesTable, Used
  <2> QED
    BY <2>1, <2>2, <2>3, <2>4
       DEF Next, FlagUser, FlagAdmin, Command, FlagRefused, FlagMalformed, StartServing,
           Exited, vars
<1> QED
  BY <1>1, <1>2, TypeCorrect, PTL DEF Spec

-----------------------------------------------------------------------------
(***************************************************************************)
(* Names.  Two names may be cut to one; the names in the table are cut,    *)
(* and one that no other name is cut to is there once.                     *)
(***************************************************************************)
\* What the table holds are names that fit.
NamesFit ==
    \A i \in Used : /\ users[i].username \in Names
                    /\ Stored[users[i].username] = users[i].username

NamesInv == NamesFit /\ OwnNamesUnique

\* Whatever accounts are added and deleted, however long their names.
LEMMA NamesStay == TypeOK /\ NamesInv /\ [Next]_vars => NamesInv'
<1> SUFFICES ASSUME TypeOK, NamesFit, OwnNamesUnique, [Next]_vars
             PROVE  NamesFit' /\ OwnNamesUnique'
  BY DEF NamesInv
<1>1. ASSUME NEW n \in Names, NEW p \in Passwords,
             NEW role \in {"user", "admin"}, store_user_add(n, p, role)
      PROVE  NamesFit' /\ OwnNamesUnique'
  <2>1. PICK i \in Slots \ Used :
           /\ users'[i].username = Stored[n]
           /\ \A j \in Slots \ {i} : users'[j] = users[j]
           /\ Used' = Used \cup {i}
    BY <1>1, AddEffect
  <2>2. \A j \in Used : users[j].username # n
    BY <1>1 DEF store_user_add, Matches
  <2>3. \A j \in Used : users'[j].username = users[j].username
    BY <2>1 DEF Used
  <2>4. NamesFit'
    BY <2>1, <2>3, UsersAssumption DEF NamesFit
  <2>5. ASSUME NEW j \in Used, Own(Stored[n])
        PROVE  users[j].username # Stored[n]
    BY <2>2, <2>5 DEF Own
  <2>6. ASSUME NEW j \in Used', NEW k \in Used',
               users'[j].username = users'[k].username, Own(users'[j].username)
        PROVE  j = k
    <3>1. CASE j \in Used /\ k \in Used
      BY <2>3, <2>6, <3>1 DEF OwnNamesUnique
    <3>2. CASE j = i /\ k \in Used
      BY <2>1, <2>3, <2>5, <2>6, <3>2
    <3>3. CASE k = i /\ j \in Used
      BY <2>1, <2>3, <2>5, <2>6, <3>3
    <3> QED
      BY <2>1, <2>6, <3>1, <3>2, <3>3
  <2>7. OwnNamesUnique'
    BY <2>6 DEF OwnNamesUnique, Own
  <2> QED
    BY <2>4, <2>7
<1>2. ASSUME NEW n \in Names, store_user_delete(n)
      PROVE  NamesFit' /\ OwnNamesUnique'
  <2>1. PICK i \in Matches(n) :
           /\ \A j \in Slots \ {i} : users'[j] = users[j]
           /\ Used' = Used \ {i}
    BY <1>2, DeleteEffect
  <2>2. \A j \in Used' : j \in Used /\ users'[j] = users[j]
    BY <2>1 DEF Used
  <2> QED
    BY <2>2 DEF NamesFit, OwnNamesUnique, Own
<1>3. ASSUME NEW n \in Names, NEW p \in Passwords,
             store_user_set_password(n, p)
      PROVE  NamesFit' /\ OwnNamesUnique'
  <2>1. Used' = Used /\ \A j \in Used : users'[j].username = users[j].username
    BY <1>3, SetPasswordEffect DEF Used
  <2> QED
    BY <2>1 DEF NamesFit, OwnNamesUnique, Own
<1>4. ASSUME UNCHANGED users
      PROVE  NamesFit' /\ OwnNamesUnique'
  BY <1>4 DEF NamesFit, OwnNamesUnique, Own, Used
<1> QED
  BY <1>1, <1>2, <1>3, <1>4
     DEF Next, FlagUser, FlagAdmin, Command, FlagRefused, FlagMalformed,
         StartServing, Exited, vars

LEMMA NamesHold == Spec => []NamesInv
<1>1. Init => NamesInv
  BY DEF Init, NamesInv, NamesFit, OwnNamesUnique, Used, NoUser
<1> QED
  BY <1>1, NamesStay, TypeCorrect, PTL DEF Spec

\* A name that no other is cut to has one account, also in a table where names
\* too long for their field were added.
THEOREM NamesStayUnique == Spec => []OwnNamesUnique
<1>1. NamesInv => OwnNamesUnique
  BY DEF NamesInv
<1> QED
  BY <1>1, NamesHold, PTL

\* What the monitor port is told about a password holds for the next SOCKS
\* authentication, however long the names and passwords it was told before.
THEOREM CredentialsAlwaysTakeEffect == Spec => CredentialsTakeEffect
<1> DEFINE Effect ==
        users' # users => \A n \in Names, p \in Passwords :
          /\ \/ \E role \in {"user", "admin"} : store_user_add(n, p, role)
             \/ store_user_set_password(n, p)
             => /\ Kept[p] \in Accepted(Stored[n])'
                /\ Own(n) => Accepted(n)' = {Kept[p]}
          /\ store_user_delete(n) /\ Own(n) => Accepted(n)' = {}
<1>1. TypeOK /\ NamesInv /\ [Next]_vars => [Effect]_vars
  <2> SUFFICES ASSUME TypeOK, NamesFit, OwnNamesUnique,
                      NEW n \in Names, NEW p \in Passwords
               PROVE  /\ \A role \in {"user", "admin"} :
                            store_user_add(n, p, role)
                              => /\ Kept[p] \in Accepted(Stored[n])'
                                 /\ Own(n) => Accepted(n)' = {Kept[p]}
                      /\ store_user_set_password(n, p)
                           => /\ Kept[p] \in Accepted(Stored[n])'
                              /\ Own(n) => Accepted(n)' = {Kept[p]}
                      /\ store_user_delete(n) /\ Own(n) => Accepted(n)' = {}
    BY DEF NamesInv
  <2>0. Kept[p] \in Passwords /\ Stored[n] \in Names
    BY UsersAssumption
  <2>1. ASSUME NEW role \in {"user", "admin"}, store_user_add(n, p, role)
        PROVE  /\ Kept[p] \in Accepted(Stored[n])'
               /\ Own(n) => Accepted(n)' = {Kept[p]}
    <3>1. PICK i \in Slots \ Used :
             /\ users'[i].username = Stored[n] /\ users'[i].password = Kept[p]
             /\ \A j \in Slots \ {i} : users'[j] = users[j]
             /\ Used' = Used \cup {i}
      BY <2>1, AddEffect
    <3>2. i \in Matches(Stored[n])'
      BY <3>1 DEF Matches
    <3>3. Kept[p] \in Accepted(Stored[n])'
      BY <2>0, <3>1, <3>2 DEF Accepted, store_user_validate
    <3>4. ASSUME Own(n)
          PROVE  Accepted(n)' = {Kept[p]}
      <4>1. Stored[n] = n
        BY <3>4 DEF Own
      <4>2. Matches(n)' = {i}
        BY <2>1, <3>1, <4>1 DEF store_user_add, Matches, Used
      <4> QED
        BY <2>0, <3>1, <4>2 DEF Accepted, store_user_validate
    <3> QED
      BY <3>3, <3>4
  <2>2. ASSUME store_user_set_password(n, p)
        PROVE  /\ Kept[p] \in Accepted(Stored[n])'
               /\ Own(n) => Accepted(n)' = {Kept[p]}
    <3>1. PICK i \in Matches(n) : users'[i].password = Kept[p]
      BY <2>2, SetPasswordEffect
    <3>2. Stored[n] = n
      BY <3>1 DEF Matches, NamesFit
    <3>3. Matches(n)' = Matches(n)
      BY <2>2, SetPasswordEffect DEF Matches, Used
    <3>4. Kept[p] \in Accepted(n)'
      BY <2>0, <3>1, <3>3 DEF Accepted, store_user_validate
    <3>5. ASSUME Own(n)
          PROVE  Accepted(n)' = {Kept[p]}
      <4>1. Matches(n) = {i}
        BY <3>1, <3>5 DEF Matches, OwnNamesUnique
      <4> QED
        BY <2>0, <3>1, <3>3, <4>1 DEF Accepted, store_user_validate
    <3> QED
      BY <3>2, <3>4, <3>5
  <2>3. ASSUME store_user_delete(n), Own(n)
        PROVE  Accepted(n)' = {}
    <3>1. PICK i \in Matches(n) :
             /\ \A j \in Slots \ {i} : users'[j] = users[j]
             /\ Used' = Used \ {i}
      BY <2>3, DeleteEffect
    <3>2. Matches(n) = {i}
      BY <2>3, <3>1 DEF Matches, OwnNamesUnique
    <3>3. Matches(n)' = {}
      BY <3>1, <3>2 DEF Matches, Used
    <3> QED
      BY <3>3 DEF Accepted, store_user_validate
  <2> QED
    BY <2>1, <2>2, <2>3
<1>2. Spec => [][Effect]_vars
  BY <1>1, TypeCorrect, NamesHold, PTL DEF Spec
<1> QED
  BY <1>2 DEF CredentialsTakeEffect

-----------------------------------------------------------------------------
(***************************************************************************)
(* Handshakes over the user table                                          *)
(***************************************************************************)
\* Every step of a handshake leaves the user table alone; every other step is
\* one of the table.
LEMMA StepOfUsers == [HandshakeNext]_hvars => [Next]_vars
<1> SUFFICES ASSUME [HandshakeNext]_hvars
             PROVE  [Next]_vars
  OBVIOUS
<1>1. ASSUME NEW b \in Byte, socks_client_read(b)
      PROVE  UNCHANGED vars
  BY <1>1 DEF socks_client_read
<1>2. NextClient => UNCHANGED vars
  BY DEF NextClient
<1>3. Administer => Next
  BY DEF Administer
<1>4. UNCHANGED hvars => UNCHANGED vars
  BY DEF hvars
<1> QED
  BY <1>1, <1>2, <1>3, <1>4 DEF HandshakeNext

\* The handlers that read the three messages, between any commands of the
\* administrators, keep to the specification of the user table.
THEOREM ServesAccounts == HandshakeSpec => Spec
<1>1. HandshakeInit => Init
  BY DEF HandshakeInit
<1> QED
  BY <1>1, StepOfUsers, PTL DEF HandshakeSpec, Spec

\* A proxy that serves has an administrator, whatever clients and
\* administrators do meanwhile.
THEOREM AdminRemainsInHandshake == HandshakeSpec => []AdminRemains
BY ServesAccounts, AdminAlwaysRemains, PTL

-----------------------------------------------------------------------------
(***************************************************************************)
(* What the parsers keep.                                                  *)
(***************************************************************************)
GreetingParser ==
    [state : {"VER", "NMETHODS", "METHODS"}, left : Byte, userpass : BOOLEAN,
     noauth : BOOLEAN, status : {"NEED_MORE", "ACCEPT", "REJECT"}]

AuthParser ==
    [state : {"VER", "ULEN", "UNAME", "PLEN", "PASSWD"},
     uname_len : Byte, uname : [0..(MaxByte - 1) -> Byte],
     passwd_len : Byte, passwd : [0..(MaxByte - 1) -> Byte], left : Byte,
     status : {"NEED_MORE", "PARSED", "REJECT"}]

RequestParser ==
    [state : {"VER", "CMD", "RSV", "ATYP", "ADDR", "FQDN_LEN", "FQDN",
              "PORT_HI", "PORT_LO"},
     atyp : Byte, left : Byte, addr : [0..(Ipv6Len - 1) -> Byte],
     fqdn_len : Byte, fqdn : [0..MaxByte -> Byte], port_hi : Byte, port : Nat,
     status : {"NEED_MORE", "PARSED_ADDR", "PARSED_FQDN", "REJECT",
               "REJECT_CMD", "REJECT_ATYP"}]

\* A parser that waits for a byte of a field knows how many are left of it.
GreetingSound(p) ==
    /\ p \in GreetingParser
    /\ p.status = "NEED_MORE"
    /\ p.state = "METHODS" => p.left > 0

AuthSound(p) ==
    /\ p \in AuthParser
    /\ p.status = "NEED_MORE"
    /\ p.state = "UNAME" => p.left \in 1..p.uname_len
    /\ p.state = "PASSWD" => p.left \in 1..p.passwd_len

RequestSound(p) ==
    /\ p \in RequestParser
    /\ p.status = "NEED_MORE"
    /\ p.state = "ADDR" => p.atyp \in {1, 4} /\ p.left \in 1..AddrLen(p.atyp)
    /\ p.state = "FQDN" => p.left \in 1..p.fqdn_len

\* The parser of a session that still parses is sound, whether it was fed yet.
ParserInv ==
    /\ st = "GREETING" => GreetingSound(Current)
    /\ st = "USERPASS" => AuthSound(Current)
    /\ st = "REQUEST" => RequestSound(Current)
    /\ from \in Parsing

\* No byte is stored outside the array it is for, and no count of bytes left
\* is taken below 0.
WritesInBounds ==
    /\ st = "GREETING" /\ Current.state = "METHODS" => Current.left > 0
    /\ st = "USERPASS" =>
         /\ Current.state = "UNAME" =>
              /\ Current.uname_len - Current.left \in DOMAIN Current.uname
              /\ Current.left > 0
         /\ Current.state = "PASSWD" =>
              /\ Current.passwd_len - Current.left \in DOMAIN Current.passwd
              /\ Current.left > 0
    /\ st = "REQUEST" =>
         /\ Current.state = "ADDR" =>
              /\ AddrLen(Current.atyp) - Current.left \in DOMAIN Current.addr
              /\ Current.left > 0
         /\ Current.state = "FQDN" =>
              /\ Current.fqdn_len - Current.left \in DOMAIN Current.fqdn
              /\ Current.fqdn_len \in DOMAIN Current.fqdn
              /\ Current.left > 0

\* The three parsers are sound as their _init functions leave them.
LEMMA InitialParsers ==
    /\ GreetingSound(socks_greeting_parser_init)
    /\ AuthSound(socks_auth_parser_init)
    /\ RequestSound(socks_request_parser_init)
<1>1. GreetingSound(socks_greeting_parser_init)
  BY HandshakeAssumption DEF GreetingSound, GreetingParser, Byte, socks_greeting_parser_init
<1>2. AuthSound(socks_auth_parser_init)
  BY HandshakeAssumption DEF AuthSound, AuthParser, Byte, socks_auth_parser_init, Zeroes
<1>3. RequestSound(socks_request_parser_init)
  BY HandshakeAssumption
     DEF RequestSound, RequestParser, Byte, socks_request_parser_init, Zeroes
<1> QED
  BY <1>1, <1>2, <1>3

\* A field of n bytes of which m are left has m - 1 left after the next one.
LEMMA OneLeftLess ==
    ASSUME NEW n \in Byte, NEW m \in 1..n
    PROVE  m - 1 \in Byte /\ (m - 1 > 0 => m - 1 \in 1..n) /\ (m > 1 => m - 1 > 0)
BY HandshakeAssumption DEF Byte

\* The length of an address, of either family, fits in the counter of bytes left.
LEMMA AddrFits == \A t : AddrLen(t) \in Byte
<1>1. Ipv4Len \in Byte /\ Ipv6Len \in Byte
  BY HandshakeAssumption DEF Byte
<1> QED
  BY <1>1 DEF AddrLen

\* socks_greeting_parser_feed leaves a parser that wants more bytes sound.
LEMMA GreetingFeed ==
    ASSUME NEW p, GreetingSound(p), NEW b \in Byte
    PROVE  LET q == socks_greeting_parser_feed(p, b)
           IN  q.status = "NEED_MORE" => GreetingSound(q)
<1> DEFINE q == socks_greeting_parser_feed(p, b)
<1> SUFFICES q.status = "NEED_MORE" => GreetingSound(q)
  OBVIOUS
<1>0. /\ p \in GreetingParser /\ p.status = "NEED_MORE"
      /\ p.state = "METHODS" => p.left > 0
      /\ MaxByte \in Nat
  BY HandshakeAssumption DEF GreetingSound
<1> USE DEF Byte, GreetingParser
<1>1. CASE p.state = "VER"
  BY <1>0, <1>1 DEF socks_greeting_parser_feed, Expect, GreetingSound
<1>2. CASE p.state = "NMETHODS"
  <2>1. q = IF b = 0 THEN [p EXCEPT !.status = "REJECT"]
                     ELSE [p EXCEPT !.left = b, !.state = "METHODS"]
    BY <1>2 DEF socks_greeting_parser_feed
  <2>2. CASE b = 0
    BY <1>0, <2>1, <2>2
  <2>3. CASE b # 0
    <3>1. q \in GreetingParser /\ q.status = "NEED_MORE" /\ q.left = b
      BY <1>0, <2>1, <2>3
    <3>2. b > 0
      BY <1>0, <2>3
    <3> HIDE DEF q
    <3> QED
      BY <3>1, <3>2 DEF GreetingSound
  <2> QED
    BY <2>2, <2>3
<1>3. CASE p.state = "METHODS"
  <2> DEFINE o == Offer(p, b)
  <2>1. (p.userpass \/ b = 2) \in BOOLEAN /\ (p.noauth \/ b = 0) \in BOOLEAN
    BY <1>0
  <2>2. p.left - 1 \in Byte
    BY <1>0, <1>3
  <2>3. o \in GreetingParser
    <3> DEFINE u == p.userpass \/ b = 2
               n == p.noauth \/ b = 0
               l == p.left - 1
    <3>1. o = [p EXCEPT !.userpass = u, !.noauth = n, !.left = l]
      BY DEF Offer
    <3>2. u \in BOOLEAN /\ n \in BOOLEAN /\ l \in Byte
      BY <2>1, <2>2
    <3> HIDE DEF u, n, l, o
    <3> QED
      BY <1>0, <3>1, <3>2
  <2>4. o.state = "METHODS" /\ o.status = "NEED_MORE"
    BY <1>0, <1>3 DEF Offer
  <2>5. q = [o EXCEPT !.status = IF o.left > 0 THEN "NEED_MORE"
                                 ELSE IF o.userpass \/ o.noauth THEN "ACCEPT"
                                 ELSE "REJECT"]
    BY <1>3 DEF socks_greeting_parser_feed
  <2> HIDE DEF o, q
  <2>6. /\ q.status = "NEED_MORE" => o.left > 0
        /\ q.left = o.left /\ q.state = o.state
        /\ q.status \in {"NEED_MORE", "ACCEPT", "REJECT"}
    BY <2>3, <2>5
  <2>7. q \in GreetingParser
    <3> DEFINE t == IF o.left > 0 THEN "NEED_MORE"
                    ELSE IF o.userpass \/ o.noauth THEN "ACCEPT" ELSE "REJECT"
    <3>1. t \in {"NEED_MORE", "ACCEPT", "REJECT"}
      OBVIOUS
    <3>2. q = [o EXCEPT !.status = t]
      BY <2>5
    <3> HIDE DEF t
    <3> QED
      BY <2>3, <3>1, <3>2
  <2> QED
    BY <2>6, <2>7 DEF GreetingSound
<1> QED
  BY <1>0, <1>1, <1>2, <1>3

\* socks_auth_parser_feed leaves a parser that wants more bytes sound.
LEMMA AuthFeed ==
    ASSUME NEW p, AuthSound(p), NEW b \in Byte
    PROVE  LET q == socks_auth_parser_feed(p, b)
           IN  q.status = "NEED_MORE" => AuthSound(q)
<1> DEFINE q == socks_auth_parser_feed(p, b)
<1> SUFFICES q.status = "NEED_MORE" => AuthSound(q)
  OBVIOUS
<1>0. /\ p \in AuthParser /\ p.status = "NEED_MORE"
      /\ p.state = "UNAME" => p.left \in 1..p.uname_len
      /\ p.state = "PASSWD" => p.left \in 1..p.passwd_len
      /\ MaxByte \in Nat
  BY HandshakeAssumption DEF AuthSound
<1> USE DEF Byte, AuthParser
<1>1. CASE p.state = "VER"
  BY <1>0, <1>1 DEF socks_auth_parser_feed, Expect, AuthSound
<1>2. CASE p.state = "ULEN"
  <2>1. q = IF b = 0 THEN [p EXCEPT !.status = "REJECT"]
            ELSE [p EXCEPT !.uname_len = b, !.left = b, !.state = "UNAME"]
    BY <1>2 DEF socks_auth_parser_feed
  <2> HIDE DEF q
  <2>2. CASE b = 0
    BY <1>0, <2>1, <2>2
  <2>3. CASE b # 0
    <3>1. /\ q \in AuthParser /\ q.status = "NEED_MORE"
          /\ q.uname_len = b /\ q.left = b /\ q.state = "UNAME"
      BY <1>0, <2>1, <2>3
    <3>2. b \in 1..b
      BY <1>0, <2>3
    <3> QED
      BY <3>1, <3>2 DEF AuthSound
  <2> QED
    BY <2>2, <2>3
<1>3. CASE p.state = "UNAME"
  <2> DEFINE u == [p.uname EXCEPT ![p.uname_len - p.left] = b]
             s == IF p.left > 1 THEN "UNAME" ELSE "PLEN"
             l == p.left - 1
  <2>1. q = [p EXCEPT !.uname = u, !.left = l, !.state = s]
    BY <1>0, <1>3 DEF socks_auth_parser_feed
  <2>2. u \in [0..(MaxByte - 1) -> Byte]
    BY <1>0
  <2>3. l \in Byte /\ s \in {"UNAME", "PLEN"}
    BY <1>0, <1>3
  <2>4. s = "UNAME" => l \in 1..p.uname_len
    BY <1>0, <1>3
  <2> HIDE DEF q, u, s, l
  <2> QED
    <3>1. /\ q \in AuthParser /\ q.status = "NEED_MORE"
          /\ q.uname_len = p.uname_len /\ q.left = l /\ q.state = s
      BY <1>0, <2>1, <2>2, <2>3
    <3> QED
      BY <2>3, <2>4, <3>1 DEF AuthSound
<1>4. CASE p.state = "PLEN"
  <2>1. q = IF b = 0 THEN [p EXCEPT !.status = "REJECT"]
            ELSE [p EXCEPT !.passwd_len = b, !.left = b, !.state = "PASSWD"]
    BY <1>4 DEF socks_auth_parser_feed
  <2> HIDE DEF q
  <2>2. CASE b = 0
    BY <1>0, <2>1, <2>2
  <2>3. CASE b # 0
    <3>1. /\ q \in AuthParser /\ q.status = "NEED_MORE"
          /\ q.passwd_len = b /\ q.left = b /\ q.state = "PASSWD"
      BY <1>0, <2>1, <2>3
    <3>2. b \in 1..b
      BY <1>0, <2>3
    <3> QED
      BY <3>1, <3>2 DEF AuthSound
  <2> QED
    BY <2>2, <2>3
<1>5. CASE p.state = "PASSWD"
  <2> DEFINE u == [p.passwd EXCEPT ![p.passwd_len - p.left] = b]
             s == IF p.left > 1 THEN "NEED_MORE" ELSE "PARSED"
             l == p.left - 1
  <2>1. q = [p EXCEPT !.passwd = u, !.left = l, !.status = s]
    BY <1>0, <1>5 DEF socks_auth_parser_feed
  <2>2. u \in [0..(MaxByte - 1) -> Byte]
    BY <1>0
  <2>3. l \in Byte /\ s \in {"NEED_MORE", "PARSED"}
    BY <1>0, <1>5
  <2>4. s = "NEED_MORE" => l \in 1..p.passwd_len
    BY <1>0, <1>5
  <2> HIDE DEF q, u, s, l
  <2> QED
    <3>1. /\ q \in AuthParser /\ q.status = s /\ q.state = "PASSWD"
          /\ q.passwd_len = p.passwd_len /\ q.left = l
      BY <1>0, <1>5, <2>1, <2>2, <2>3
    <3> QED
      BY <2>4, <3>1 DEF AuthSound
<1> QED
  BY <1>0, <1>1, <1>2, <1>3, <1>4, <1>5

\* socks_request_parser_feed leaves a parser that wants more bytes sound.
LEMMA RequestFeed ==
    ASSUME NEW p, RequestSound(p), NEW b \in Byte
    PROVE  LET q == socks_request_parser_feed(p, b)
           IN  q.status = "NEED_MORE" => RequestSound(q)
<1> DEFINE q == socks_request_parser_feed(p, b)
<1> SUFFICES q.status = "NEED_MORE" => RequestSound(q)
  OBVIOUS
<1>0. /\ p \in RequestParser /\ p.status = "NEED_MORE"
      /\ p.state = "ADDR" => p.atyp \in {1, 4} /\ p.left \in 1..AddrLen(p.atyp)
      /\ p.state = "FQDN" => p.left \in 1..p.fqdn_len
      /\ MaxByte \in Nat /\ MaxByte >= 5
  BY HandshakeAssumption DEF RequestSound
<1> USE DEF Byte, RequestParser
<1>1. CASE p.state \in {"VER", "CMD", "RSV"}
  BY <1>0, <1>1 DEF socks_request_parser_feed, Expect, RequestSound
<1>2. CASE p.state = "ATYP"
  <2>1. CASE b \in {1, 4}
    <3>1. q = [p EXCEPT !.atyp = b, !.left = AddrLen(b), !.state = "ADDR"]
      BY <1>2, <2>1 DEF socks_request_parser_feed
    <3>2. AddrLen(b) \in Byte /\ AddrLen(b) \in 1..AddrLen(b)
      BY HandshakeAssumption DEF AddrLen
    <3> HIDE DEF q
    <3>3. /\ q \in RequestParser /\ q.status = "NEED_MORE"
          /\ q.atyp = b /\ q.left = AddrLen(b) /\ q.state = "ADDR"
      BY <1>0, <3>1, <3>2
    <3> QED
      BY <2>1, <3>2, <3>3 DEF RequestSound
  <2>2. CASE b = 3
    <3>1. q = [p EXCEPT !.atyp = b, !.state = "FQDN_LEN"]
      BY <1>2, <2>2 DEF socks_request_parser_feed
    <3> HIDE DEF q
    <3>2. q \in RequestParser /\ q.status = "NEED_MORE" /\ q.state = "FQDN_LEN"
      BY <1>0, <3>1
    <3> QED
      BY <3>2 DEF RequestSound
  <2>3. CASE b \notin {1, 3, 4}
    <3>1. q.status = "REJECT_ATYP"
      BY <1>0, <1>2, <2>3 DEF socks_request_parser_feed
    <3> QED
      BY <3>1
  <2> QED
    BY <2>1, <2>2, <2>3
<1>3. CASE p.state = "ADDR"
  <2> DEFINE a == [p.addr EXCEPT ![AddrLen(p.atyp) - p.left] = b]
             s == IF p.left > 1 THEN "ADDR" ELSE "PORT_HI"
             l == p.left - 1
  <2>1. q = [p EXCEPT !.addr = a, !.left = l, !.state = s]
    BY <1>0, <1>3 DEF socks_request_parser_feed
  <2>2. a \in [0..(Ipv6Len - 1) -> Byte]
    BY <1>0
  <2>3. p.left \in 1..AddrLen(p.atyp) /\ AddrLen(p.atyp) \in Byte
    BY <1>0, <1>3, AddrFits
  <2>4. /\ p.left - 1 \in Byte
        /\ p.left > 1 => p.left - 1 \in 1..AddrLen(p.atyp)
    BY <2>3, OneLeftLess
  <2>5. l \in Byte /\ s \in {"ADDR", "PORT_HI"}
    BY <2>4
  <2>6. s = "ADDR" => l \in 1..AddrLen(p.atyp)
    BY <2>4
  <2> HIDE DEF q, a, s, l
  <2>7. /\ q \in RequestParser /\ q.status = "NEED_MORE"
        /\ q.atyp = p.atyp /\ q.left = l /\ q.state = s
    BY <1>0, <2>1, <2>2, <2>5
  <2> QED
    BY <1>0, <1>3, <2>5, <2>6, <2>7 DEF RequestSound
<1>4. CASE p.state = "FQDN_LEN"
  <2>1. q = IF b = 0 THEN [p EXCEPT !.status = "REJECT"]
            ELSE [p EXCEPT !.fqdn_len = b, !.left = b, !.state = "FQDN"]
    BY <1>4 DEF socks_request_parser_feed
  <2> HIDE DEF q
  <2>2. CASE b = 0
    BY <1>0, <2>1, <2>2
  <2>3. CASE b # 0
    <3>1. /\ q \in RequestParser /\ q.status = "NEED_MORE"
          /\ q.fqdn_len = b /\ q.left = b /\ q.state = "FQDN"
      BY <1>0, <2>1, <2>3
    <3>2. b \in 1..b
      BY <1>0, <2>3
    <3> QED
      BY <3>1, <3>2 DEF RequestSound
  <2> QED
    BY <2>2, <2>3
<1>5. CASE p.state = "FQDN"
  <2> DEFINE f == [p.fqdn EXCEPT ![p.fqdn_len - p.left] = b]
             l == p.left - 1
             r == [p EXCEPT !.fqdn = f, !.left = l]
             o == StoreFqdn(p, b)
  <2>0. p.left \in 1..p.fqdn_len /\ p.fqdn_len \in Byte
    BY <1>0, <1>5
  <2>1. /\ f \in [0..MaxByte -> Byte]
        /\ l \in Byte /\ (l > 0 => l \in 1..p.fqdn_len)
    <3>1. f \in [0..MaxByte -> Byte]
      BY <1>0
    <3>2. l \in Byte /\ (l > 0 => l \in 1..p.fqdn_len)
      BY <2>0, OneLeftLess
    <3> QED
      BY <3>1, <3>2
  <2>2. /\ r \in RequestParser
        /\ r.left = l /\ r.fqdn_len = p.fqdn_len /\ r.status = "NEED_MORE"
    <3> HIDE DEF f, l
    <3> QED
      BY <1>0, <2>1
  <2>3. o = IF r.left > 0 THEN r ELSE [r EXCEPT !.fqdn[r.fqdn_len] = 0]
    BY <1>0 DEF StoreFqdn
  <2>4. /\ o \in RequestParser
        /\ o.left = l /\ o.fqdn_len = p.fqdn_len /\ o.status = "NEED_MORE"
    <3> HIDE DEF f, l, r, o
    <3>1. [r.fqdn EXCEPT ![r.fqdn_len] = 0] \in [0..MaxByte -> Byte]
      BY <1>0, <2>2
    <3> DEFINE z == [r.fqdn EXCEPT ![r.fqdn_len] = 0]
    <3>2. [r EXCEPT !.fqdn[r.fqdn_len] = 0] = [r EXCEPT !.fqdn = z]
      BY <2>2
    <3> HIDE DEF z
    <3> QED
      BY <2>2, <2>3, <3>1, <3>2 DEF z
  <2>5. q = [o EXCEPT !.state = IF o.left > 0 THEN "FQDN" ELSE "PORT_HI"]
    BY <1>5 DEF socks_request_parser_feed
  <2> HIDE DEF f, r, o, q, l
  <2>6. /\ q \in RequestParser /\ q.status = "NEED_MORE"
        /\ q.left = l /\ q.fqdn_len = p.fqdn_len
        /\ q.state = IF l > 0 THEN "FQDN" ELSE "PORT_HI"
    BY <2>4, <2>5
  <2> QED
    BY <2>1, <2>6 DEF RequestSound
<1>6. CASE p.state = "PORT_HI"
  BY <1>0, <1>6 DEF socks_request_parser_feed, RequestSound
<1>7. CASE p.state = "PORT_LO"
  <2>1. q.status \in {"PARSED_ADDR", "PARSED_FQDN"}
    BY <1>0, <1>7 DEF socks_request_parser_feed
  <2> QED
    BY <2>1
<1> QED
  BY <1>0, <1>1, <1>2, <1>3, <1>4, <1>5, <1>6, <1>7

\* Each byte, each new client and each command keep the parsers sound.
LEMMA StepParses == ParserInv /\ [HandshakeNext]_hvars => ParserInv'
<1> SUFFICES ASSUME ParserInv, [HandshakeNext]_hvars
             PROVE  ParserInv'
  OBVIOUS
<1>1. ASSUME NEW b \in Byte, socks_client_read(b)
      PROVE  ParserInv'
  <2>0. st \in Parsing /\ from' = st
    BY <1>1 DEF socks_client_read
  <2>1. CASE socks_on_read_greeting(b)
    <3>1. /\ st = "GREETING" /\ GreetingSound(Current)
          /\ parser' = socks_greeting_parser_feed(Current, b)
      BY <2>1 DEF ParserInv, socks_on_read_greeting
    <3>2. parser'.status = "NEED_MORE" => GreetingSound(parser')
      BY <3>1, GreetingFeed
    <3>3. /\ st' = "GREETING" => parser'.status = "NEED_MORE"
          /\ st' \in {"GREETING", "USERPASS", "REQUEST", "DONE"}
      BY <2>1 DEF socks_on_read_greeting
    <3> QED
      BY <2>0, <3>1, <3>2, <3>3, InitialParsers DEF ParserInv, Current, Parsing
  <2>2. CASE socks_on_read_auth(b)
    <3>1. /\ st = "USERPASS" /\ AuthSound(Current)
          /\ parser' = socks_auth_parser_feed(Current, b)
      BY <2>2 DEF ParserInv, socks_on_read_auth
    <3>2. parser'.status = "NEED_MORE" => AuthSound(parser')
      BY <3>1, AuthFeed
    <3>3. /\ st' = "USERPASS" => parser'.status = "NEED_MORE"
          /\ st' \in {"USERPASS", "REQUEST", "DONE"}
      BY <2>2 DEF socks_on_read_auth
    <3> QED
      BY <2>0, <3>1, <3>2, <3>3, InitialParsers DEF ParserInv, Current, Parsing
  <2>3. CASE socks_on_read_request(b)
    <3>1. /\ st = "REQUEST" /\ RequestSound(Current)
          /\ parser' = socks_request_parser_feed(Current, b)
      BY <2>3 DEF ParserInv, socks_on_read_request
    <3>2. parser'.status = "NEED_MORE" => RequestSound(parser')
      BY <3>1, RequestFeed
    <3>3. /\ st' = "REQUEST" => parser'.status = "NEED_MORE"
          /\ st' \in {"REQUEST", "RESOLVING", "CONNECTING", "DONE"}
      BY <2>3 DEF socks_on_read_request
    <3> QED
      BY <2>0, <3>1, <3>2, <3>3 DEF ParserInv, Current, Parsing
  <2> QED
    BY <1>1, <2>1, <2>2, <2>3 DEF socks_client_read
<1>2. CASE NextClient
  <2>1. /\ st' = "GREETING" /\ from' = "GREETING"
        /\ parser' = socks_greeting_parser_init
    BY <1>2 DEF NextClient
  <2> QED
    BY <2>1, InitialParsers DEF ParserInv, Current, Parsing
<1>3. CASE Administer \/ UNCHANGED hvars
  <2>1. UNCHANGED <<st, from, parser>>
    BY <1>3 DEF Administer, hvars, wire
  <2> QED
    BY <2>1 DEF ParserInv, Current, Parsing
<1> QED
  BY <1>1, <1>2, <1>3 DEF HandshakeNext

\* Whatever bytes a client sends, in whatever pieces, the parsers of the
\* greeting, of the credentials and of the request store each byte inside the
\* field it belongs to, for every size of a byte and of an address.
THEOREM ParsersStayInBounds == HandshakeSpec => []WritesInBounds
<1>1. HandshakeInit => ParserInv
  BY InitialParsers DEF HandshakeInit, ParserInv, Current, Parsing
<1>2. ParserInv => WritesInBounds
  <2> SUFFICES ASSUME ParserInv
               PROVE  WritesInBounds
    OBVIOUS
  <2> DEFINE c == Current
  <2>1. st = "GREETING" /\ c.state = "METHODS" => c.left > 0
    BY DEF ParserInv, GreetingSound
  <2>2. ASSUME st = "USERPASS"
        PROVE  /\ c.state = "UNAME" =>
                    c.uname_len - c.left \in DOMAIN c.uname /\ c.left > 0
               /\ c.state = "PASSWD" =>
                    c.passwd_len - c.left \in DOMAIN c.passwd /\ c.left > 0
    <3>1. AuthSound(c)
      BY <2>2 DEF ParserInv
    <3> HIDE DEF c
    <3> QED
      BY <3>1, HandshakeAssumption DEF AuthSound, AuthParser, Byte
  <2>3. ASSUME st = "REQUEST"
        PROVE  /\ c.state = "ADDR" =>
                    AddrLen(c.atyp) - c.left \in DOMAIN c.addr /\ c.left > 0
               /\ c.state = "FQDN" =>
                    /\ c.fqdn_len - c.left \in DOMAIN c.fqdn
                    /\ c.fqdn_len \in DOMAIN c.fqdn
                    /\ c.left > 0
    <3>1. RequestSound(c)
      BY <2>3 DEF ParserInv
    <3> HIDE DEF c
    <3>2. /\ DOMAIN c.addr = 0..(Ipv6Len - 1) /\ DOMAIN c.fqdn = 0..MaxByte
          /\ c.fqdn_len \in Byte
          /\ c.state = "ADDR" => c.left \in 1..AddrLen(c.atyp)
          /\ c.state = "FQDN" => c.left \in 1..c.fqdn_len
      BY <3>1 DEF RequestSound, RequestParser
    <3>3. AddrLen(c.atyp) \in 1..Ipv6Len
      BY HandshakeAssumption DEF AddrLen
    <3>4. c.state = "ADDR" =>
            AddrLen(c.atyp) - c.left \in DOMAIN c.addr /\ c.left > 0
      BY <3>2, <3>3, HandshakeAssumption
    <3>5. c.state = "FQDN" =>
            /\ c.fqdn_len - c.left \in DOMAIN c.fqdn
            /\ c.fqdn_len \in DOMAIN c.fqdn
            /\ c.left > 0
      BY <3>2, HandshakeAssumption DEF Byte
    <3> QED
      BY <3>4, <3>5
  <2> QED
    BY <2>1, <2>2, <2>3 DEF WritesInBounds
<1> QED
  BY <1>1, <1>2, StepParses, PTL DEF HandshakeSpec

-----------------------------------------------------------------------------
(***************************************************************************)
(* Strings                                                                 *)
(***************************************************************************)
\* A set of numbers that has a member has a least one.
LEMMA LeastExists ==
    ASSUME NEW T, T \subseteq Nat, T # {}
    PROVE  \E x \in T : \A y \in T : x <= y
<1> DEFINE R == OpToRel(<, Nat)
<1>1. IsWellFoundedOn(R, Nat) BY NatLessThanWellFounded
<1>2. \A x, y \in Nat : x < y => <<x, y>> \in R BY DEF OpToRel
<1> HIDE DEF R
<1>3. PICK x \in T : \A y \in T : ~(<<y, x>> \in R) BY <1>1, WFMin
<1>4. ASSUME NEW y \in T PROVE x <= y
  <2>1. x \in Nat /\ y \in Nat OBVIOUS
  <2>2. ~(y < x) BY <2>1, <1>2, <1>3
  <2> QED BY <2>1, <2>2
<1> QED BY <1>4

\* j is where the string in the first n bytes of a ends.
Ends(a, n, j) ==
    /\ j \in 0..n
    /\ j = n \/ a[j] = 0
    /\ \A i \in 0..(j - 1) : a[i] # 0

\* Every string ends, and at one place.
LEMMA EndExists ==
    ASSUME NEW n \in Nat, NEW a
    PROVE  \E j \in 0..n : Ends(a, n, j) /\ \A k : Ends(a, n, k) => k = j
<1> DEFINE T == {j \in 0..n : j = n \/ a[j] = 0}
<1>1. n \in T /\ T \subseteq Nat OBVIOUS
<1>2. PICK j \in T : \A i \in T : j <= i BY <1>1, LeastExists
<1>3. \A i \in 0..(j - 1) : a[i] # 0 BY <1>2
<1>4. Ends(a, n, j) BY <1>2, <1>3 DEF Ends
<1>5. ASSUME NEW k, Ends(a, n, k) PROVE k = j
  <2>1. k \in T BY <1>5 DEF Ends
  <2>2. j <= k BY <2>1, <1>2
  <2>3. k \in Nat /\ j \in Nat /\ k \in 0..n BY <2>1, <1>1
  <2>4. CASE j < k
    <3>1. j \in 0..(k - 1) /\ j # n BY <2>3, <2>4
    <3>2. a[j] = 0 BY <3>1, <1>2
    <3> QED BY <3>1, <3>2, <1>5 DEF Ends
  <2> QED BY <2>2, <2>3, <2>4
<1> QED BY <1>4, <1>5

\* What CString returns.
LEMMA CStringIs ==
    ASSUME NEW n \in Nat, NEW a, NEW j, Ends(a, n, j)
    PROVE  CString(a, n) = [i \in 1..j |-> a[i - 1]]
<1> DEFINE k == CHOOSE i \in 0..n : /\ i = n \/ a[i] = 0
                                    /\ \A h \in 0..(i - 1) : a[h] # 0
<1>1. \E i \in 0..n : (i = n \/ a[i] = 0) /\ \A h \in 0..(i - 1) : a[h] # 0
  BY DEF Ends
<1>2. k \in 0..n /\ (k = n \/ a[k] = 0) /\ \A h \in 0..(k - 1) : a[h] # 0
  BY <1>1
<1>3. CString(a, n) = [i \in 1..k |-> a[i - 1]] BY DEF CString
<1> HIDE DEF k
<1>4. Ends(a, n, k) BY <1>2 DEF Ends
<1>5. k = j BY <1>4, EndExists
<1> QED BY <1>3, <1>5

\* A NUL inside the array ends the string, however long the array is.
LEMMA NulEnds ==
    ASSUME NEW n \in Nat, NEW l \in 0..(n - 1), NEW a, a[l] = 0
    PROVE  CString(a, n) = CString(a, l)
<1>1. l \in Nat OBVIOUS
<1>2. PICK j \in 0..l : Ends(a, l, j) BY <1>1, EndExists
<1>3. j \in 0..n /\ a[j] = 0 BY <1>2 DEF Ends
<1>4. Ends(a, n, j) BY <1>2, <1>3 DEF Ends
<1> QED BY <1>1, <1>2, <1>4, CStringIs

\* An array that holds n bytes of a message from position f holds the string
\* that the message has there.
LEMMA StringInMessage ==
    ASSUME NEW m \in Seq(Byte), NEW n \in Nat, NEW f \in Nat \ {0}, NEW a,
           f + n - 1 <= Len(m), \A i \in 0..(n - 1) : a[i] = m[f + i]
    PROVE  UpToNul(SubSeq(m, f, f + n - 1)) = CString(a, n)
<1> DEFINE s == SubSeq(m, f, f + n - 1)
           k == CHOOSE j \in 0..Len(s) : /\ j = Len(s) \/ s[j + 1] = 0
                                         /\ \A i \in 1..j : s[i] # 0
<1>1. s \in Seq(Byte) /\ Len(s) = n /\ \A i \in 1..n : s[i] = m[f + i - 1]
  OBVIOUS
<1>2. UpToNul(s) = SubSeq(s, 1, k) BY DEF UpToNul
<1> HIDE DEF s
<1>3. \A i \in 1..n : s[i] = a[i - 1]
  <2> SUFFICES ASSUME NEW i \in 1..n PROVE s[i] = a[i - 1] OBVIOUS
  <2>1. i - 1 \in 0..(n - 1) /\ f + (i - 1) = f + i - 1 OBVIOUS
  <2> QED BY <1>1, <2>1
<1>4. PICK e \in 0..n : Ends(a, n, e) BY EndExists
<1>5. (e = Len(s) \/ s[e + 1] = 0) /\ \A i \in 1..e : s[i] # 0
  <2>1. e # n => e + 1 \in 1..n /\ (e + 1) - 1 = e OBVIOUS
  <2>2. e = Len(s) \/ s[e + 1] = 0 BY <1>1, <1>3, <1>4, <2>1 DEF Ends
  <2>3. \A i \in 1..e : i - 1 \in 0..(e - 1) /\ i \in 1..n OBVIOUS
  <2>4. \A i \in 1..e : s[i] # 0 BY <1>3, <1>4, <2>3 DEF Ends
  <2> QED BY <2>2, <2>4
<1>6. k \in 0..Len(s) /\ (k = Len(s) \/ s[k + 1] = 0) /\ \A i \in 1..k : s[i] # 0
  BY <1>1, <1>5
<1> HIDE DEF k
<1>7. Ends(a, n, k)
  <2>1. k \in 0..n BY <1>1, <1>6
  <2>2. k # n => k + 1 \in 1..n /\ (k + 1) - 1 = k BY <2>1
  <2>3. k = n \/ a[k] = 0 BY <1>1, <1>3, <1>6, <2>2
  <2>4. \A i \in 0..(k - 1) : i + 1 \in 1..k /\ i + 1 \in 1..n /\ (i + 1) - 1 = i
    BY <2>1
  <2>5. ASSUME NEW i \in 0..(k - 1) PROVE a[i] # 0
    <3>1. i + 1 \in 1..k /\ i + 1 \in 1..n /\ (i + 1) - 1 = i BY <2>4
    <3>2. s[i + 1] = a[(i + 1) - 1] /\ s[i + 1] # 0 BY <3>1, <1>3, <1>6
    <3> QED BY <3>1, <3>2
  <2> QED BY <2>1, <2>3, <2>5 DEF Ends
<1>8. CString(a, n) = [i \in 1..k |-> a[i - 1]] BY <1>7, CStringIs
<1>9. SubSeq(s, 1, k) = [i \in 1..k |-> s[i]]
  BY <1>1, <1>6
<1>10. \A i \in 1..k : s[i] = a[i - 1] BY <1>1, <1>3, <1>6
<1>11. SubSeq(s, 1, k) = CString(a, n) BY <1>8, <1>9, <1>10
<1> QED BY <1>2, <1>11 DEF s

-----------------------------------------------------------------------------
(***************************************************************************)
(* What a parser has kept of the bytes it was fed                          *)
(***************************************************************************)
\* n is m and one byte more.
Extended(m, b, n) ==
    /\ n \in Seq(Byte)
    /\ Len(n) = Len(m) + 1
    /\ n[Len(m) + 1] = b
    /\ \A i \in 1..Len(m) : n[i] = m[i]

\* VER, CMD and RSV of the request.
Known(m) == m[1] = 5 /\ m[2] = 1 /\ m[3] = 0

\* k bytes of an address, or of a name, are in their array.
AddrPart(p, m, k) ==
    /\ Known(m)
    /\ p.atyp \in {1, 4} /\ m[4] = p.atyp
    /\ \A i \in 0..(k - 1) : p.addr[i] = m[5 + i]

NamePart(p, m, k) ==
    /\ Known(m)
    /\ p.atyp = 3 /\ m[4] = 3
    /\ p.fqdn_len # 0 /\ m[5] = p.fqdn_len
    /\ \A i \in 0..(k - 1) : p.fqdn[i] = m[6 + i]

\* DST.ADDR is complete, in bytes Width(p) long.
Width(p) == IF p.atyp = 3 THEN 1 + p.fqdn_len ELSE AddrLen(p.atyp)

Addressed(p, m) ==
    \/ AddrPart(p, m, AddrLen(p.atyp))
    \/ NamePart(p, m, p.fqdn_len) /\ p.fqdn[p.fqdn_len] = 0

RequestKnows(p, m) ==
    /\ RequestSound(p) /\ m \in Seq(Byte)
    /\ p.state = "VER" => Len(m) = 0
    /\ p.state = "CMD" => Len(m) = 1 /\ m[1] = 5
    /\ p.state = "RSV" => Len(m) = 2 /\ m[1] = 5 /\ m[2] = 1
    /\ p.state = "ATYP" => Len(m) = 3 /\ Known(m)
    /\ p.state = "ADDR" =>
          /\ AddrPart(p, m, AddrLen(p.atyp) - p.left)
          /\ Len(m) = 4 + AddrLen(p.atyp) - p.left
    /\ p.state = "FQDN_LEN" => Len(m) = 4 /\ Known(m) /\ m[4] = 3 /\ p.atyp = 3
    /\ p.state = "FQDN" =>
          /\ NamePart(p, m, p.fqdn_len - p.left)
          /\ Len(m) = 5 + p.fqdn_len - p.left
    /\ p.state = "PORT_HI" => Addressed(p, m) /\ Len(m) = 4 + Width(p)
    /\ p.state = "PORT_LO" =>
          /\ Addressed(p, m) /\ Len(m) = 5 + Width(p) /\ m[Len(m)] = p.port_hi

\* The request is parsed.
Requested(p, m) ==
    /\ p \in RequestParser /\ m \in Seq(Byte)
    /\ Addressed(p, m) /\ Len(m) = 6 + Width(p)
    /\ p.port = m[Len(m) - 1] * (MaxByte + 1) + m[Len(m)]

\* socks_on_read_request, by what the parser returned.
RequestState(status) ==
    CASE status = "NEED_MORE" -> "REQUEST"
      [] status = "PARSED_FQDN" -> "RESOLVING"
      [] status = "PARSED_ADDR" -> "CONNECTING"
      [] OTHER -> "DONE"

\* The outcome of a request, by how much of it is there.
LEMMA OutcomeShort ==
    ASSUME NEW n \in Seq(Byte), Len(n) \in 1..3
    PROVE  RequestOutcome(n) =
              IF /\ n[1] = 5
                 /\ Len(n) >= 2 => n[2] = 1
                 /\ Len(n) >= 3 => n[3] = 0
              THEN "REQUEST" ELSE "DONE"
<1>1. <<5, 1, 0>>[1] = 5 /\ <<5, 1, 0>>[2] = 1 /\ <<5, 1, 0>>[3] = 0 OBVIOUS
<1>2. (\A i \in 1..3 : i <= Len(n) => n[i] = <<5, 1, 0>>[i]) <=>
         /\ n[1] = 5
         /\ Len(n) >= 2 => n[2] = 1
         /\ Len(n) >= 3 => n[3] = 0
  <2>1. \A i \in 1..3 : i = 1 \/ i = 2 \/ i = 3 OBVIOUS
  <2> QED BY <1>1, <2>1
<1> QED BY <1>2 DEF RequestOutcome

\* With an address type that is not one of the three, or an empty name.
LEMMA OutcomeBad ==
    ASSUME NEW n \in Seq(Byte), Known(n), Len(n) >= 4,
           n[4] \notin {1, 3, 4} \/ (n[4] = 3 /\ Len(n) > 4 /\ n[5] = 0)
    PROVE  RequestOutcome(n) = "DONE"
<1>1. \A i \in 1..3 : i <= Len(n) => n[i] = <<5, 1, 0>>[i] BY DEF Known
<1> QED BY <1>1 DEF RequestOutcome

\* With an address.
LEMMA OutcomeAddr ==
    ASSUME NEW n \in Seq(Byte), Known(n), Len(n) >= 4, n[4] \in {1, 4}
    PROVE  RequestOutcome(n) =
              IF Len(n) < 6 + AddrLen(n[4]) THEN "REQUEST" ELSE "CONNECTING"
<1>1. \A i \in 1..3 : i <= Len(n) => n[i] = <<5, 1, 0>>[i] BY DEF Known
<1> QED BY <1>1 DEF RequestOutcome, AddrLen

\* With a name.
LEMMA OutcomeName ==
    ASSUME NEW n \in Seq(Byte), Known(n), Len(n) >= 4, n[4] = 3,
           Len(n) > 4 => n[5] # 0
    PROVE  RequestOutcome(n) =
              IF Len(n) < 6 + (IF Len(n) > 4 THEN 1 + n[5] ELSE 1)
              THEN "REQUEST" ELSE "RESOLVING"
<1>1. \A i \in 1..3 : i <= Len(n) => n[i] = <<5, 1, 0>>[i] BY DEF Known
<1> QED BY <1>1 DEF RequestOutcome

\* What the session is told of byte b, when n is the message up to it.
RequestFed(q, n) ==
    /\ q.status = "NEED_MORE" => RequestKnows(q, n)
    /\ q.status \in {"PARSED_FQDN", "PARSED_ADDR"} => Requested(q, n)
    /\ q.status = "PARSED_FQDN" => q.atyp = 3
    /\ q.status = "PARSED_ADDR" => q.atyp # 3
    /\ RequestState(q.status) = RequestOutcome(n)

\* The bytes of VER, CMD and RSV.
LEMMA RequestHead ==
    ASSUME NEW p, NEW m, NEW b \in Byte, NEW n, NEW q, RequestKnows(p, m),
           Extended(m, b, n), q = socks_request_parser_feed(p, b),
           p.state \in {"VER", "CMD", "RSV"}
    PROVE  RequestFed(q, n)
<1>1. p \in RequestParser /\ p.status = "NEED_MORE"
  BY DEF RequestKnows, RequestSound
<1>2. q.status = "NEED_MORE" => RequestSound(q)
  BY RequestFeed DEF RequestKnows
<1>3. n \in Seq(Byte) /\ m \in Seq(Byte)
  BY DEF Extended, RequestKnows
<1>4. CASE p.state = "VER"
  <2>1. q = IF b = 5 THEN [p EXCEPT !.state = "CMD"] ELSE [p EXCEPT !.status = "REJECT"]
    BY <1>4 DEF socks_request_parser_feed, Expect
  <2>2. IF b = 5 THEN q.state = "CMD" /\ q.status = "NEED_MORE" ELSE q.status = "REJECT"
    BY <1>1, <2>1 DEF RequestParser
  <2>3. Len(n) = 1 /\ n[1] = b
    BY <1>3, <1>4 DEF RequestKnows, Extended
  <2>4. RequestOutcome(n) = IF b = 5 THEN "REQUEST" ELSE "DONE"
    BY <1>3, <2>3, OutcomeShort
  <2> QED
    BY <1>2, <1>3, <2>2, <2>3, <2>4 DEF RequestFed, RequestState, RequestKnows
<1>5. CASE p.state = "CMD"
  <2>1. q = IF b = 1 THEN [p EXCEPT !.state = "RSV"] ELSE [p EXCEPT !.status = "REJECT_CMD"]
    BY <1>5 DEF socks_request_parser_feed, Expect
  <2>2. IF b = 1 THEN q.state = "RSV" /\ q.status = "NEED_MORE" ELSE q.status = "REJECT_CMD"
    BY <1>1, <2>1 DEF RequestParser
  <2>3. Len(n) = 2 /\ n[1] = 5 /\ n[2] = b
    <3>1. Len(m) = 1 /\ m[1] = 5
      BY <1>5 DEF RequestKnows
    <3> QED
      BY <1>3, <3>1 DEF Extended
  <2>4. RequestOutcome(n) = IF b = 1 THEN "REQUEST" ELSE "DONE"
    BY <1>3, <2>3, OutcomeShort
  <2> QED
    BY <1>2, <1>3, <2>2, <2>3, <2>4 DEF RequestFed, RequestState, RequestKnows
<1>6. CASE p.state = "RSV"
  <2>1. q = IF b = 0 THEN [p EXCEPT !.state = "ATYP"] ELSE [p EXCEPT !.status = "REJECT"]
    BY <1>6 DEF socks_request_parser_feed, Expect
  <2>2. IF b = 0 THEN q.state = "ATYP" /\ q.status = "NEED_MORE" ELSE q.status = "REJECT"
    BY <1>1, <2>1 DEF RequestParser
  <2>3. Len(n) = 3 /\ n[1] = 5 /\ n[2] = 1 /\ n[3] = b
    <3>1. Len(m) = 2 /\ m[1] = 5 /\ m[2] = 1
      BY <1>6 DEF RequestKnows
    <3> QED
      BY <1>3, <3>1 DEF Extended
  <2>4. RequestOutcome(n) = IF b = 0 THEN "REQUEST" ELSE "DONE"
    BY <1>3, <2>3, OutcomeShort, SMTT(30)
  <2> QED
    BY <1>2, <1>3, <2>2, <2>3, <2>4 DEF RequestFed, RequestState, RequestKnows, Known
<1> QED
  BY <1>4, <1>5, <1>6

\* The address type.
LEMMA RequestType ==
    ASSUME NEW p, NEW m, NEW b \in Byte, NEW n, NEW q, RequestKnows(p, m),
           Extended(m, b, n), q = socks_request_parser_feed(p, b),
           p.state = "ATYP"
    PROVE  RequestFed(q, n)
<1>1. p \in RequestParser /\ p.status = "NEED_MORE"
  BY DEF RequestKnows, RequestSound
<1>2. q.status = "NEED_MORE" => RequestSound(q)
  BY RequestFeed DEF RequestKnows
<1>3. n \in Seq(Byte) /\ m \in Seq(Byte)
  BY DEF Extended, RequestKnows
<1>4. Len(n) = 4 /\ Known(n) /\ n[4] = b
  <2>1. Len(m) = 3 /\ Known(m)
    BY DEF RequestKnows
  <2> QED
    BY <1>3, <2>1 DEF Extended, Known
<1>5. Ipv4Len \in Nat \ {0} /\ Ipv6Len \in Nat \ {0}
  BY HandshakeAssumption
<1>6. AddrLen(b) \in Nat \ {0}
  BY <1>5 DEF AddrLen
<1>7. CASE b \in {1, 4}
  <2>1. q = [p EXCEPT !.atyp = b, !.left = AddrLen(b), !.state = "ADDR"]
    BY <1>7 DEF socks_request_parser_feed
  <2>2. /\ q.state = "ADDR" /\ q.status = "NEED_MORE" /\ q.atyp = b
        /\ q.left = AddrLen(b)
    BY <1>1, <2>1 DEF RequestParser
  <2>3. RequestOutcome(n) = "REQUEST"
    <3>1. RequestOutcome(n) =
             IF Len(n) < 6 + AddrLen(n[4]) THEN "REQUEST" ELSE "CONNECTING"
      <4>1. Len(n) >= 4 /\ n[4] \in {1, 4}
        BY <1>4, <1>7
      <4> QED
        BY <1>3, <1>4, <4>1, OutcomeAddr
    <3> QED
      BY <1>4, <1>6, <3>1
  <2>4. AddrPart(q, n, AddrLen(q.atyp) - q.left) /\ 4 + AddrLen(q.atyp) - q.left = 4
    <3>1. AddrLen(q.atyp) - q.left = 0 /\ 4 + AddrLen(q.atyp) - q.left = 4
      BY <1>6, <2>2
    <3> QED
      BY <1>4, <1>7, <2>2, <3>1 DEF AddrPart
  <2> QED
    BY <1>2, <1>3, <1>4, <2>2, <2>3, <2>4 DEF RequestFed, RequestState, RequestKnows
<1>8. CASE b = 3
  <2>1. q = [p EXCEPT !.atyp = b, !.state = "FQDN_LEN"]
    BY <1>8 DEF socks_request_parser_feed
  <2>2. q.state = "FQDN_LEN" /\ q.status = "NEED_MORE" /\ q.atyp = 3
    BY <1>1, <1>8, <2>1 DEF RequestParser
  <2>3. RequestOutcome(n) = "REQUEST"
    BY <1>3, <1>4, <1>8, OutcomeName
  <2> QED
    BY <1>2, <1>3, <1>4, <1>8, <2>2, <2>3 DEF RequestFed, RequestState, RequestKnows
<1>9. CASE b \notin {1, 3, 4}
  <2>1. q.status = "REJECT_ATYP"
    BY <1>1, <1>9 DEF socks_request_parser_feed, RequestParser
  <2>2. RequestOutcome(n) = "DONE"
    <3>1. Len(n) >= 4 /\ n[4] \notin {1, 3, 4}
      BY <1>4, <1>9
    <3> QED
      BY <1>3, <1>4, <3>1, OutcomeBad
  <2> QED
    BY <2>1, <2>2 DEF RequestFed, RequestState
<1> QED
  BY <1>7, <1>8, <1>9

\* The length of a name.
LEMMA RequestNameLen ==
    ASSUME NEW p, NEW m, NEW b \in Byte, NEW n, NEW q, RequestKnows(p, m),
           Extended(m, b, n), q = socks_request_parser_feed(p, b),
           p.state = "FQDN_LEN"
    PROVE  RequestFed(q, n)
<1>1. p \in RequestParser /\ p.status = "NEED_MORE"
  BY DEF RequestKnows, RequestSound
<1>2. q.status = "NEED_MORE" => RequestSound(q)
  BY RequestFeed DEF RequestKnows
<1>3. n \in Seq(Byte) /\ m \in Seq(Byte)
  BY DEF Extended, RequestKnows
<1>4. Len(n) = 5 /\ Known(n) /\ n[4] = 3 /\ n[5] = b /\ p.atyp = 3
  <2>1. Len(m) = 4 /\ Known(m) /\ m[4] = 3 /\ p.atyp = 3
    BY DEF RequestKnows
  <2> QED
    BY <1>3, <2>1 DEF Extended, Known
<1>5. b \in Nat
  BY HandshakeAssumption DEF Byte
<1>6. q = IF b = 0 THEN [p EXCEPT !.status = "REJECT"]
          ELSE [p EXCEPT !.fqdn_len = b, !.left = b, !.state = "FQDN"]
  BY DEF socks_request_parser_feed
<1>7. CASE b = 0
  <2>1. q.status = "REJECT"
    BY <1>1, <1>6, <1>7 DEF RequestParser
  <2>2. RequestOutcome(n) = "DONE"
    BY <1>3, <1>4, <1>7, OutcomeBad
  <2> QED
    BY <2>1, <2>2 DEF RequestFed, RequestState
<1>8. CASE b # 0
  <2>1. /\ q.state = "FQDN" /\ q.status = "NEED_MORE" /\ q.atyp = 3
        /\ q.left = b /\ q.fqdn_len = b
    BY <1>1, <1>4, <1>6, <1>8 DEF RequestParser
  <2>2. RequestOutcome(n) = "REQUEST"
    <3>1. RequestOutcome(n) =
             IF Len(n) < 6 + (IF Len(n) > 4 THEN 1 + n[5] ELSE 1)
             THEN "REQUEST" ELSE "RESOLVING"
      <4>1. Len(n) >= 4 /\ n[5] # 0
        BY <1>4, <1>8
      <4> QED
        BY <1>3, <1>4, <4>1, OutcomeName
    <3> QED
      BY <1>4, <1>5, <3>1
  <2>3. q.fqdn_len - q.left = 0 /\ 5 + q.fqdn_len - q.left = 5
    BY <1>5, <2>1
  <2>4. NamePart(q, n, q.fqdn_len - q.left)
    BY <1>4, <1>8, <2>1, <2>3 DEF NamePart
  <2> QED
    BY <1>2, <1>3, <1>4, <2>1, <2>2, <2>3, <2>4 DEF RequestFed, RequestState, RequestKnows
<1> QED
  BY <1>7, <1>8

\* A byte behind what is known of a message leaves it known.
LEMMA PartsKept ==
    ASSUME NEW m \in Seq(Byte), NEW b, NEW n, Extended(m, b, n), NEW p, NEW k \in Nat
    PROVE  /\ Len(m) >= 3 /\ Known(m) => Known(n)
           /\ AddrPart(p, m, k) /\ Len(m) >= 4 + k => AddrPart(p, n, k)
           /\ NamePart(p, m, k) /\ Len(m) >= 5 + k => NamePart(p, n, k)
<1>1. Len(m) \in Nat /\ \A i \in 1..Len(m) : n[i] = m[i]
  BY DEF Extended
<1>2. Len(m) >= 3 /\ Known(m) => Known(n)
  BY <1>1 DEF Known
<1>3. ASSUME AddrPart(p, m, k), Len(m) >= 4 + k
      PROVE  AddrPart(p, n, k)
  <2>1. Known(n) /\ n[4] = m[4]
    BY <1>1, <1>2, <1>3 DEF AddrPart
  <2>2. ASSUME NEW i \in 0..(k - 1)
        PROVE  p.addr[i] = n[5 + i]
    <3>1. 5 + i \in 1..Len(m)
      BY <1>1, <1>3
    <3> QED
      BY <1>1, <1>3, <3>1 DEF AddrPart
  <2> QED
    BY <1>3, <2>1, <2>2 DEF AddrPart
<1>4. ASSUME NamePart(p, m, k), Len(m) >= 5 + k
      PROVE  NamePart(p, n, k)
  <2>1. Known(n) /\ n[4] = m[4] /\ n[5] = m[5]
    BY <1>1, <1>2, <1>4 DEF NamePart
  <2>2. ASSUME NEW i \in 0..(k - 1)
        PROVE  p.fqdn[i] = n[6 + i]
    <3>1. 6 + i \in 1..Len(m)
      BY <1>1, <1>4
    <3> QED
      BY <1>1, <1>4, <3>1 DEF NamePart
  <2> QED
    BY <1>4, <2>1, <2>2 DEF NamePart
<1> QED
  BY <1>2, <1>3, <1>4

\* A byte of an address.
LEMMA RequestAddr ==
    ASSUME NEW p, NEW m, NEW b \in Byte, NEW n, NEW q, RequestKnows(p, m),
           Extended(m, b, n), q = socks_request_parser_feed(p, b),
           p.state = "ADDR"
    PROVE  RequestFed(q, n)
<1>1. p \in RequestParser /\ p.status = "NEED_MORE"
  BY DEF RequestKnows, RequestSound
<1>2. q.status = "NEED_MORE" => RequestSound(q)
  BY RequestFeed DEF RequestKnows
<1>3. n \in Seq(Byte) /\ m \in Seq(Byte)
  BY DEF Extended, RequestKnows
<1> DEFINE w == AddrLen(p.atyp)
           k == w - p.left
           a == [p.addr EXCEPT ![k] = b]
           s == IF p.left > 1 THEN "ADDR" ELSE "PORT_HI"
           l == p.left - 1
<1>4. /\ p.atyp \in {1, 4} /\ p.left \in 1..w
      /\ AddrPart(p, m, k) /\ Len(m) = 4 + w - p.left
  BY DEF RequestKnows, RequestSound
<1>5. w \in 1..Ipv6Len /\ Ipv6Len \in Nat
  BY HandshakeAssumption DEF AddrLen
<1>6. q = [p EXCEPT !.addr = a, !.left = l, !.state = s]
  BY <1>1 DEF socks_request_parser_feed, RequestParser
<1>7. DOMAIN p.addr = 0..(Ipv6Len - 1)
  BY <1>1 DEF RequestParser
<1> HIDE DEF w
<1>8. k \in 0..(w - 1) /\ k \in 0..(Ipv6Len - 1) /\ k \in Nat /\ l = w - (k + 1)
  BY <1>4, <1>5
<1>9. a[k] = b /\ \A i \in 0..(k - 1) : a[i] = p.addr[i]
  <2> HIDE DEF k
  <2>1. \A i \in 0..(k - 1) : i \in DOMAIN p.addr /\ i # k
    <3>1. \A i \in 0..(k - 1) : i \in 0..(Ipv6Len - 1) /\ i # k
      BY <1>5, <1>8
    <3> QED
      BY <1>7, <3>1
  <2> QED
    BY <1>7, <1>8, <2>1
<1> HIDE DEF a, s, l
<1>10. /\ q.atyp = p.atyp /\ q.addr = a /\ q.left = l /\ q.state = s
       /\ q.status = "NEED_MORE"
  BY <1>1, <1>6 DEF RequestParser
<1>11. AddrLen(q.atyp) = w
  BY <1>10 DEF w
<1>12. Len(m) = 4 + k /\ Len(n) = 5 + k /\ n[5 + k] = b /\ n[4] = p.atyp /\ Known(n)
  <2>1. Len(m) = 4 + k
    BY <1>4, <1>5
  <2>2. AddrPart(p, n, k)
    BY <1>3, <1>4, <1>8, <2>1, PartsKept
  <2>3. Len(n) = Len(m) + 1 /\ n[Len(m) + 1] = b /\ (4 + k) + 1 = 5 + k
    BY <1>8 DEF Extended
  <2> QED
    BY <2>1, <2>2, <2>3 DEF AddrPart
<1>13. AddrPart(q, n, k + 1)
  <2>1. AddrPart(p, n, k)
    BY <1>3, <1>4, <1>8, <1>12, PartsKept
  <2>2. ASSUME NEW i \in 0..((k + 1) - 1)
        PROVE  a[i] = n[5 + i]
    <3>1. i = k \/ i \in 0..(k - 1)
      BY <1>8
    <3> HIDE DEF k
    <3> QED
      BY <1>9, <1>12, <2>1, <3>1 DEF AddrPart
  <2> HIDE DEF k
  <2> QED
    BY <1>4, <1>10, <1>12, <2>2 DEF AddrPart
<1>14. RequestOutcome(n) = "REQUEST"
  <2>1. Len(n) >= 4 /\ n[4] \in {1, 4} /\ AddrLen(n[4]) = w
    BY <1>4, <1>8, <1>12 DEF w
  <2>2. RequestOutcome(n) =
           IF Len(n) < 6 + AddrLen(n[4]) THEN "REQUEST" ELSE "CONNECTING"
    BY <1>3, <1>12, <2>1, OutcomeAddr
  <2>3. Len(n) < 6 + w
    BY <1>5, <1>8, <1>12
  <2> QED
    BY <2>1, <2>2, <2>3
<1>15. l \in Nat /\ k + 1 = w - l /\ 5 + k = 4 + w - l
  BY <1>5, <1>8
<1>16. RequestKnows(q, n)
  <2>1. CASE s = "ADDR"
    BY <1>2, <1>3, <1>10, <1>11, <1>12, <1>13, <1>15, <2>1 DEF RequestKnows
  <2>2. CASE s = "PORT_HI"
    <3>1. l = 0
      BY <1>4, <1>5, <2>2 DEF s, l
    <3>2. k + 1 = w /\ Len(n) = 4 + w
      BY <1>5, <1>8, <1>12, <3>1
    <3>3. Addressed(q, n)
      BY <1>11, <1>13, <3>2 DEF Addressed
    <3>4. Width(q) = w
      BY <1>4, <1>10, <1>11 DEF Width
    <3> QED
      BY <1>2, <1>3, <1>10, <2>2, <3>2, <3>3, <3>4 DEF RequestKnows
  <2> QED
    BY <2>1, <2>2 DEF s
<1> QED
  BY <1>10, <1>14, <1>16 DEF RequestFed, RequestState

\* A byte of a name; the last one brings the NUL behind it.
LEMMA RequestName ==
    ASSUME NEW p, NEW m, NEW b \in Byte, NEW n, NEW q, RequestKnows(p, m),
           Extended(m, b, n), q = socks_request_parser_feed(p, b),
           p.state = "FQDN"
    PROVE  RequestFed(q, n)
<1>1. p \in RequestParser /\ p.status = "NEED_MORE"
  BY DEF RequestKnows, RequestSound
<1>2. q.status = "NEED_MORE" => RequestSound(q)
  BY RequestFeed DEF RequestKnows
<1>3. n \in Seq(Byte) /\ m \in Seq(Byte)
  BY DEF Extended, RequestKnows
<1> DEFINE w == p.fqdn_len
           k == w - p.left
           f == [p.fqdn EXCEPT ![k] = b]
           l == p.left - 1
           g == IF l > 0 THEN f ELSE [f EXCEPT ![w] = 0]
           s == IF l > 0 THEN "FQDN" ELSE "PORT_HI"
           r == [p EXCEPT !.fqdn = f, !.left = l]
           o == StoreFqdn(p, b)
<1>4. /\ p.left \in 1..w /\ w \in Byte
      /\ NamePart(p, m, k) /\ Len(m) = 5 + w - p.left
  BY <1>1 DEF RequestKnows, RequestSound, RequestParser
<1>5. w \in 1..MaxByte /\ MaxByte \in Nat
  BY <1>4, HandshakeAssumption DEF Byte
<1>6. q = [p EXCEPT !.fqdn = g, !.left = l, !.state = s]
  <2>1. o = IF r.left > 0 THEN r ELSE [r EXCEPT !.fqdn[r.fqdn_len] = 0]
    BY <1>1 DEF StoreFqdn, RequestParser
  <2>2. q = [o EXCEPT !.state = IF o.left > 0 THEN "FQDN" ELSE "PORT_HI"]
    BY DEF socks_request_parser_feed
  <2>3. /\ r = [p EXCEPT !.fqdn = f, !.left = l]
        /\ r.fqdn_len = w /\ r.fqdn = f /\ r.left = l
    <3> HIDE DEF f, l
    <3> QED
      BY <1>1 DEF RequestParser
  <2> HIDE DEF f, l, o, r
  <2>4. o = [p EXCEPT !.fqdn = g, !.left = l]
    <3>1. CASE l > 0
      BY <2>1, <2>3, <3>1
    <3>2. CASE ~(l > 0)
      <4>1. o = [r EXCEPT !.fqdn[r.fqdn_len] = 0]
        BY <2>1, <2>3, <3>2
      <4>2. o = [r EXCEPT !.fqdn = g]
        BY <2>3, <3>2, <4>1
      <4> HIDE DEF g
      <4> QED
        BY <1>1, <2>3, <4>2 DEF RequestParser
    <3> QED
      BY <3>1, <3>2
  <2> HIDE DEF g
  <2>5. o.left = l
    BY <1>1, <2>4 DEF RequestParser
  <2> QED
    BY <1>1, <2>2, <2>4, <2>5 DEF RequestParser
<1>7. DOMAIN p.fqdn = 0..MaxByte
  BY <1>1 DEF RequestParser
<1> HIDE DEF w
<1>8. k \in 0..(w - 1) /\ k \in 0..MaxByte /\ k \in Nat /\ l = w - (k + 1) /\ l \in Nat
  BY <1>4, <1>5
<1> HIDE DEF l
<1>9. /\ g[k] = b /\ \A i \in 0..(k - 1) : g[i] = p.fqdn[i]
      /\ l = 0 => g[w] = 0
  <2>1. k # w /\ w \in 0..MaxByte
    BY <1>5, <1>8
  <2> HIDE DEF k
  <2>2. \A i \in 0..(k - 1) : i \in 0..MaxByte /\ i # k /\ i # w
    BY <1>5, <1>8
  <2>3. DOMAIN f = 0..MaxByte /\ f[k] = b /\ \A i \in 0..(k - 1) : f[i] = p.fqdn[i]
    BY <1>7, <1>8, <2>2
  <2> HIDE DEF f
  <2>4. CASE l > 0
    BY <1>8, <2>3, <2>4
  <2>5. CASE ~(l > 0)
    <3>1. g = [f EXCEPT ![w] = 0]
      BY <2>5
    <3> HIDE DEF g
    <3> QED
      BY <1>8, <2>1, <2>2, <2>3, <3>1
  <2> QED
    BY <2>4, <2>5
<1> HIDE DEF f, g, s, r, o
<1>10. /\ q.atyp = p.atyp /\ q.fqdn = g /\ q.left = l /\ q.state = s
       /\ q.fqdn_len = w /\ q.status = "NEED_MORE"
  BY <1>1, <1>6 DEF RequestParser, w
<1>11. NamePart(p, n, k) /\ Len(n) = 6 + k /\ n[6 + k] = b
  <2>1. Len(m) = 5 + k
    BY <1>4, <1>5
  <2>2. NamePart(p, n, k)
    BY <1>3, <1>4, <1>8, <2>1, PartsKept
  <2>3. Len(n) = Len(m) + 1 /\ n[Len(m) + 1] = b /\ (5 + k) + 1 = 6 + k
    BY <1>8 DEF Extended
  <2> QED
    BY <2>1, <2>2, <2>3
<1>12. NamePart(q, n, k + 1)
  <2>1. ASSUME NEW i \in 0..((k + 1) - 1)
        PROVE  g[i] = n[6 + i]
    <3>1. i = k \/ i \in 0..(k - 1)
      BY <1>8
    <3> HIDE DEF k
    <3> QED
      BY <1>9, <1>11, <3>1 DEF NamePart
  <2>2. /\ Known(n) /\ n[4] = 3 /\ n[5] = w /\ w # 0 /\ p.atyp = 3
    BY <1>11 DEF NamePart, w
  <2> HIDE DEF k
  <2> QED
    BY <1>10, <2>1, <2>2 DEF NamePart
<1>13. RequestOutcome(n) = "REQUEST"
  <2>1. Known(n) /\ n[4] = 3 /\ n[5] = w /\ w # 0
    BY <1>11 DEF NamePart, w
  <2>2. Len(n) > 4 /\ Len(n) >= 4 /\ Len(n) < 6 + (1 + w)
    BY <1>5, <1>8, <1>11
  <2>3. RequestOutcome(n) =
           IF Len(n) < 6 + (IF Len(n) > 4 THEN 1 + n[5] ELSE 1)
           THEN "REQUEST" ELSE "RESOLVING"
    BY <1>3, <2>1, <2>2, OutcomeName
  <2> QED
    BY <2>1, <2>2, <2>3
<1>14. RequestKnows(q, n)
  <2>1. CASE l > 0
    <3>1. k + 1 = w - l /\ Len(n) = 5 + w - l
      BY <1>5, <1>8, <1>11
    <3>2. s = "FQDN"
      BY <2>1 DEF s
    <3> QED
      BY <1>2, <1>3, <1>10, <1>12, <3>1, <3>2 DEF RequestKnows
  <2>2. CASE ~(l > 0)
    <3>1. l = 0 /\ k + 1 = w /\ Len(n) = 4 + (1 + w)
      BY <1>5, <1>8, <1>11, <2>2
    <3>2. Addressed(q, n)
      BY <1>9, <1>10, <1>12, <3>1 DEF Addressed
    <3>3. Width(q) = 1 + w
      BY <1>10, <1>12 DEF Width, NamePart
    <3>4. s = "PORT_HI"
      BY <2>2 DEF s
    <3> QED
      BY <1>2, <1>3, <1>10, <3>1, <3>2, <3>3, <3>4 DEF RequestKnows
  <2> QED
    BY <2>1, <2>2
<1> QED
  BY <1>10, <1>13, <1>14 DEF RequestFed, RequestState

\* The two bytes of the port.
LEMMA RequestPort ==
    ASSUME NEW p, NEW m, NEW b \in Byte, NEW n, NEW q, RequestKnows(p, m),
           Extended(m, b, n), q = socks_request_parser_feed(p, b),
           p.state \in {"PORT_HI", "PORT_LO"}
    PROVE  RequestFed(q, n)
<1>1. p \in RequestParser /\ p.status = "NEED_MORE"
  BY DEF RequestKnows, RequestSound
<1>2. q.status = "NEED_MORE" => RequestSound(q)
  BY RequestFeed DEF RequestKnows
<1>3. n \in Seq(Byte) /\ m \in Seq(Byte)
  BY DEF Extended, RequestKnows
<1>4. Addressed(p, m) /\ Len(m) \in {4 + Width(p), 5 + Width(p)}
  BY DEF RequestKnows
<1>5. AddrLen(p.atyp) \in Nat \ {0} /\ p.fqdn_len \in Nat
  BY <1>1, HandshakeAssumption DEF AddrLen, RequestParser, Byte
<1>6. Width(p) \in Nat \ {0}
  BY <1>5 DEF Width
<1>7. /\ Addressed(p, n)
      /\ RequestOutcome(n) = IF Len(n) < 6 + Width(p) THEN "REQUEST"
                             ELSE IF p.atyp = 3 THEN "RESOLVING" ELSE "CONNECTING"
  <2>0. Len(n) = Len(m) + 1 /\ Len(m) \in Nat
    BY <1>3 DEF Extended
  <2>1. CASE AddrPart(p, m, AddrLen(p.atyp))
    <3>1. p.atyp \in {1, 4} /\ Width(p) = AddrLen(p.atyp)
      BY <2>1 DEF AddrPart, Width
    <3>2. Len(m) >= 4 + AddrLen(p.atyp) /\ Len(n) >= 4
      BY <1>4, <1>5, <2>0, <3>1
    <3>3. AddrPart(p, n, AddrLen(p.atyp))
      BY <1>3, <1>5, <2>1, <3>2, PartsKept
    <3>4. Known(n) /\ n[4] = p.atyp
      BY <3>3 DEF AddrPart
    <3>5. RequestOutcome(n) =
             IF Len(n) < 6 + AddrLen(n[4]) THEN "REQUEST" ELSE "CONNECTING"
      BY <1>3, <3>1, <3>2, <3>4, OutcomeAddr
    <3> QED
      BY <3>1, <3>3, <3>4, <3>5 DEF Addressed
  <2>2. CASE NamePart(p, m, p.fqdn_len) /\ p.fqdn[p.fqdn_len] = 0
    <3>1. p.atyp = 3 /\ Width(p) = 1 + p.fqdn_len
      BY <2>2 DEF NamePart, Width
    <3>2. Len(m) >= 5 + p.fqdn_len /\ Len(n) > 4 /\ Len(n) >= 4
      BY <1>4, <1>5, <2>0, <3>1
    <3>3. NamePart(p, n, p.fqdn_len)
      BY <1>3, <1>5, <2>2, <3>2, PartsKept
    <3>4. Known(n) /\ n[4] = 3 /\ n[5] = p.fqdn_len /\ n[5] # 0
      BY <3>3 DEF NamePart
    <3>5. RequestOutcome(n) =
             IF Len(n) < 6 + (IF Len(n) > 4 THEN 1 + n[5] ELSE 1)
             THEN "REQUEST" ELSE "RESOLVING"
      BY <1>3, <3>2, <3>4, OutcomeName
    <3> QED
      BY <2>2, <3>1, <3>2, <3>3, <3>4, <3>5 DEF Addressed
  <2> QED
    BY <1>4, <2>1, <2>2 DEF Addressed
<1>8. CASE p.state = "PORT_HI"
  <2>1. q = [p EXCEPT !.port_hi = b, !.state = "PORT_LO"]
    BY <1>8 DEF socks_request_parser_feed
  <2>2. /\ q.state = "PORT_LO" /\ q.status = "NEED_MORE" /\ q.port_hi = b
        /\ q.atyp = p.atyp /\ q.addr = p.addr /\ q.fqdn = p.fqdn
        /\ q.fqdn_len = p.fqdn_len
    BY <1>1, <2>1 DEF RequestParser
  <2>3. Addressed(q, n) /\ Width(q) = Width(p)
    BY <1>7, <2>2 DEF Addressed, AddrPart, NamePart, Width
  <2>4. Len(m) = 4 + Width(p)
    BY <1>8 DEF RequestKnows
  <2>5. Len(n) = 5 + Width(q) /\ n[Len(n)] = b /\ Len(n) < 6 + Width(p)
    BY <1>6, <2>3, <2>4 DEF Extended
  <2> QED
    BY <1>2, <1>3, <1>7, <2>2, <2>3, <2>5 DEF RequestFed, RequestState, RequestKnows
<1>9. CASE p.state = "PORT_LO"
  <2> DEFINE d == p.port_hi * (MaxByte + 1) + b
             s == IF p.atyp = 3 THEN "PARSED_FQDN" ELSE "PARSED_ADDR"
  <2>1. q = [p EXCEPT !.port = d, !.status = s]
    BY <1>9 DEF socks_request_parser_feed
  <2>2. d \in Nat
    <3>1. p.port_hi \in Nat /\ b \in Nat /\ MaxByte + 1 \in Nat
      BY <1>1, HandshakeAssumption DEF RequestParser, Byte
    <3>2. p.port_hi * (MaxByte + 1) \in Nat
      BY <3>1
    <3> QED
      BY <3>1, <3>2
  <2>3. s \in {"PARSED_FQDN", "PARSED_ADDR"}
    OBVIOUS
  <2> HIDE DEF d, s
  <2>4. /\ q \in RequestParser /\ q.port = d /\ q.status = s
        /\ q.atyp = p.atyp /\ q.addr = p.addr /\ q.fqdn = p.fqdn
        /\ q.fqdn_len = p.fqdn_len
    BY <1>1, <2>1, <2>2, <2>3 DEF RequestParser
  <2>5. Addressed(q, n) /\ Width(q) = Width(p)
    BY <1>7, <2>4 DEF Addressed, AddrPart, NamePart, Width
  <2>6. Len(m) = 5 + Width(p) /\ m[Len(m)] = p.port_hi
    BY <1>9 DEF RequestKnows
  <2>7. /\ Len(n) = Len(m) + 1 /\ n[Len(n)] = b /\ Len(n) - 1 = Len(m)
        /\ n[Len(m)] = p.port_hi
    <3>1. Len(m) \in 1..Len(m)
      BY <1>6, <2>6
    <3>2. Len(n) = Len(m) + 1 /\ n[Len(m) + 1] = b /\ n[Len(m)] = m[Len(m)]
      BY <3>1 DEF Extended
    <3> QED
      BY <2>6, <3>1, <3>2
  <2>8. Len(n) = 6 + Width(q) /\ ~(Len(n) < 6 + Width(p))
    BY <1>6, <2>5, <2>6, <2>7
  <2>9. Requested(q, n)
    BY <1>3, <2>4, <2>5, <2>7, <2>8 DEF Requested, d
  <2> QED
    BY <1>7, <2>4, <2>8, <2>9 DEF RequestFed, RequestState, s
<1> QED
  BY <1>8, <1>9

\* After each byte of a request the parser has kept what it is made of, and
\* the session goes where the request so far says.
LEMMA RequestByte ==
    ASSUME NEW p, NEW m, NEW b \in Byte, NEW n, NEW q, RequestKnows(p, m),
           Extended(m, b, n), q = socks_request_parser_feed(p, b)
    PROVE  RequestFed(q, n)
<1>1. p.state \in {"VER", "CMD", "RSV", "ATYP", "ADDR", "FQDN_LEN", "FQDN",
                   "PORT_HI", "PORT_LO"}
  BY DEF RequestKnows, RequestSound, RequestParser
<1>2. CASE p.state \in {"VER", "CMD", "RSV"}
  BY <1>2, RequestHead
<1>3. CASE p.state = "ATYP"
  BY <1>3, RequestType
<1>4. CASE p.state = "ADDR"
  BY <1>4, RequestAddr
<1>5. CASE p.state = "FQDN_LEN"
  BY <1>5, RequestNameLen
<1>6. CASE p.state = "FQDN"
  BY <1>6, RequestName
<1>7. CASE p.state \in {"PORT_HI", "PORT_LO"}
  BY <1>7, RequestPort
<1> QED
  BY <1>1, <1>2, <1>3, <1>4, <1>5, <1>6, <1>7

-----------------------------------------------------------------------------
\* Method x is in the list of a greeting.
Offered(m, x) == \E i \in 3..Len(m) : m[i] = x

GreetingKnows(p, m) ==
    /\ GreetingSound(p) /\ m \in Seq(Byte)
    /\ p.state = "VER" => Len(m) = 0 /\ ~p.userpass /\ ~p.noauth
    /\ p.state = "NMETHODS" => Len(m) = 1 /\ m[1] = 5 /\ ~p.userpass /\ ~p.noauth
    /\ p.state = "METHODS" =>
          /\ Len(m) >= 2 /\ m[1] = 5 /\ m[2] # 0
          /\ p.left = 2 + m[2] - Len(m)
          /\ p.userpass <=> Offered(m, 2)
          /\ p.noauth <=> Offered(m, 0)

\* socks_on_read_greeting, by what the parser returned.
GreetingState(p) ==
    CASE p.status = "NEED_MORE" -> "GREETING"
      [] p.status = "REJECT" -> "DONE"
      [] OTHER -> IF p.userpass THEN "USERPASS" ELSE "REQUEST"

GreetingFed(q, n) ==
    /\ q.status = "NEED_MORE" => GreetingKnows(q, n)
    /\ GreetingState(q) = GreetingOutcome(n)

\* The outcome of a greeting, by how much of it is there.
LEMMA GreetingOutcomes ==
    ASSUME NEW n \in Seq(Byte), Len(n) >= 1
    PROVE  /\ n[1] # 5 => GreetingOutcome(n) = "DONE"
           /\ n[1] = 5 /\ Len(n) = 1 => GreetingOutcome(n) = "GREETING"
           /\ n[1] = 5 /\ Len(n) > 1 /\ n[2] = 0 => GreetingOutcome(n) = "DONE"
           /\ n[1] = 5 /\ Len(n) > 1 /\ n[2] # 0 =>
                GreetingOutcome(n) =
                   IF Len(n) < 2 + n[2] THEN "GREETING"
                   ELSE IF Offered(n, 2) THEN "USERPASS"
                   ELSE IF Offered(n, 0) THEN "REQUEST" ELSE "DONE"
<1> DEFINE methods == {n[i] : i \in 3..Len(n)}
<1>1. (2 \in methods <=> Offered(n, 2)) /\ (0 \in methods <=> Offered(n, 0))
  BY DEF Offered
<1>2. GreetingOutcome(n) =
         CASE n[1] # 5 -> "DONE"
           [] n[1] = 5 /\ Len(n) = 1 -> "GREETING"
           [] n[1] = 5 /\ Len(n) > 1 ->
                IF n[2] = 0 THEN "DONE"
                ELSE IF Len(n) < 2 + n[2] THEN "GREETING"
                ELSE IF 2 \in methods THEN "USERPASS"
                ELSE IF 0 \in methods THEN "REQUEST" ELSE "DONE"
  BY DEF GreetingOutcome
<1> HIDE DEF methods
<1>3. n[1] # 5 => GreetingOutcome(n) = "DONE"
  BY <1>2
<1>4. n[1] = 5 /\ Len(n) = 1 => GreetingOutcome(n) = "GREETING"
  BY <1>2
<1>5. ASSUME n[1] = 5, Len(n) > 1
      PROVE  GreetingOutcome(n) =
                IF n[2] = 0 THEN "DONE"
                ELSE IF Len(n) < 2 + n[2] THEN "GREETING"
                ELSE IF 2 \in methods THEN "USERPASS"
                ELSE IF 0 \in methods THEN "REQUEST" ELSE "DONE"
  BY <1>2, <1>5
<1> QED
  BY <1>1, <1>3, <1>4, <1>5

\* After each byte of a greeting the parser knows which methods were offered,
\* and the session goes where the greeting so far says.
LEMMA GreetingByte ==
    ASSUME NEW p, NEW m, NEW b \in Byte, NEW n, NEW q, GreetingKnows(p, m),
           Extended(m, b, n), q = socks_greeting_parser_feed(p, b)
    PROVE  GreetingFed(q, n)
<1>1. p \in GreetingParser /\ p.status = "NEED_MORE"
  BY DEF GreetingKnows, GreetingSound
<1>2. q.status = "NEED_MORE" => GreetingSound(q)
  BY GreetingFeed DEF GreetingKnows
<1>3. n \in Seq(Byte) /\ m \in Seq(Byte) /\ Len(n) = Len(m) + 1
  BY DEF Extended, GreetingKnows
<1>4. b \in Nat
  BY HandshakeAssumption DEF Byte
<1>5. CASE p.state = "VER"
  <2>1. q = IF b = 5 THEN [p EXCEPT !.state = "NMETHODS"] ELSE [p EXCEPT !.status = "REJECT"]
    BY <1>5 DEF socks_greeting_parser_feed, Expect
  <2>2. /\ b = 5 => q.state = "NMETHODS" /\ q.status = "NEED_MORE"
        /\ b # 5 => q.status = "REJECT"
        /\ q.userpass = p.userpass /\ q.noauth = p.noauth
    BY <1>1, <2>1 DEF GreetingParser
  <2>3. Len(n) = 1 /\ n[1] = b /\ ~p.userpass /\ ~p.noauth
    BY <1>3, <1>5 DEF GreetingKnows, Extended
  <2>4. GreetingOutcome(n) = IF b = 5 THEN "GREETING" ELSE "DONE"
    BY <1>3, <2>3, GreetingOutcomes
  <2> QED
    BY <1>2, <1>3, <2>2, <2>3, <2>4 DEF GreetingFed, GreetingState, GreetingKnows
<1>6. CASE p.state = "NMETHODS"
  <2>1. q = IF b = 0 THEN [p EXCEPT !.status = "REJECT"]
                     ELSE [p EXCEPT !.left = b, !.state = "METHODS"]
    BY <1>6 DEF socks_greeting_parser_feed
  <2>2. /\ b # 0 => q.state = "METHODS" /\ q.status = "NEED_MORE" /\ q.left = b
        /\ b = 0 => q.status = "REJECT"
        /\ q.userpass = p.userpass /\ q.noauth = p.noauth
    BY <1>1, <2>1 DEF GreetingParser
  <2>3. Len(n) = 2 /\ n[1] = 5 /\ n[2] = b /\ ~p.userpass /\ ~p.noauth
    <3>1. Len(m) = 1 /\ m[1] = 5 /\ ~p.userpass /\ ~p.noauth
      BY <1>6 DEF GreetingKnows
    <3> QED
      BY <1>3, <3>1 DEF Extended
  <2>4. GreetingOutcome(n) = IF b = 0 THEN "DONE" ELSE "GREETING"
    <3>1. b # 0 => Len(n) < 2 + n[2]
      BY <1>4, <2>3
    <3> QED
      BY <1>3, <2>3, <3>1, GreetingOutcomes
  <2>5. ~Offered(n, 2) /\ ~Offered(n, 0) /\ b = 2 + n[2] - Len(n) /\ Len(n) >= 2
    BY <1>4, <2>3 DEF Offered
  <2> QED
    BY <1>2, <1>3, <2>2, <2>3, <2>4, <2>5 DEF GreetingFed, GreetingState, GreetingKnows
<1>7. CASE p.state = "METHODS"
  <2> DEFINE u == p.userpass \/ b = 2
             a == p.noauth \/ b = 0
             l == p.left - 1
             t == IF l > 0 THEN "NEED_MORE" ELSE IF u \/ a THEN "ACCEPT" ELSE "REJECT"
             o == Offer(p, b)
  <2>1. o = [p EXCEPT !.userpass = u, !.noauth = a, !.left = l]
    BY DEF Offer
  <2>2. q = [o EXCEPT !.status = IF o.left > 0 THEN "NEED_MORE"
                                 ELSE IF o.userpass \/ o.noauth THEN "ACCEPT"
                                 ELSE "REJECT"]
    BY <1>7 DEF socks_greeting_parser_feed
  <2>3. /\ o.userpass = u /\ o.noauth = a /\ o.left = l
        /\ q = [o EXCEPT !.status = t]
    <3>1. o.userpass = u /\ o.noauth = a /\ o.left = l
      <4> HIDE DEF u, a, l
      <4> QED
        BY <1>1, <2>1 DEF GreetingParser
    <3> HIDE DEF u, a, l, o
    <3> QED
      BY <2>2, <3>1
  <2>4. q.userpass = u /\ q.noauth = a /\ q.left = l /\ q.status = t /\ q.state = "METHODS"
    <3> HIDE DEF u, a, l, t, o
    <3> QED
      BY <1>1, <1>7, <2>1, <2>3 DEF GreetingParser
  <2>5. /\ Len(m) >= 2 /\ m[1] = 5 /\ m[2] # 0
        /\ p.left = 2 + m[2] - Len(m)
        /\ p.userpass <=> Offered(m, 2)
        /\ p.noauth <=> Offered(m, 0)
    BY <1>7 DEF GreetingKnows
  <2>6. n[1] = 5 /\ n[2] = m[2] /\ m[2] \in Nat
    <3>1. 1 \in 1..Len(m) /\ 2 \in 1..Len(m) /\ Len(m) \in Nat
      BY <1>3, <2>5
    <3>2. m[2] \in Nat
      BY <1>3, <3>1, HandshakeAssumption DEF Byte
    <3> QED
      BY <2>5, <3>1, <3>2 DEF Extended
  <2>7. l = 2 + n[2] - Len(n) /\ Len(n) > 1 /\ Len(n) >= 2
    BY <1>3, <2>5, <2>6
  <2>8. ASSUME NEW x
        PROVE  Offered(n, x) <=> Offered(m, x) \/ b = x
    <3>1. Len(m) \in Nat /\ \A i \in 3..Len(n) : i \in 3..Len(m) \/ i = Len(m) + 1
      BY <1>3
    <3>2. Len(m) + 1 \in 3..Len(n) /\ \A i \in 3..Len(m) : i \in 3..Len(n) /\ i \in 1..Len(m)
      BY <1>3, <2>5
    <3> QED
      BY <3>1, <3>2 DEF Offered, Extended
  <2>9. (u <=> Offered(n, 2)) /\ (a <=> Offered(n, 0))
    BY <2>5, <2>8
  <2>10. GreetingOutcome(n) =
            IF Len(n) < 2 + n[2] THEN "GREETING"
            ELSE IF Offered(n, 2) THEN "USERPASS"
            ELSE IF Offered(n, 0) THEN "REQUEST" ELSE "DONE"
    BY <1>3, <2>5, <2>6, <2>7, GreetingOutcomes, SMTT(30)
  <2>11. l > 0 <=> Len(n) < 2 + n[2]
    BY <1>3, <2>6, <2>7
  <2> HIDE DEF u, a, l
  <2>12. GreetingState(q) = GreetingOutcome(n)
    BY <2>4, <2>9, <2>10, <2>11 DEF GreetingState
  <2>13. q.status = "NEED_MORE" => GreetingKnows(q, n)
    BY <1>2, <1>3, <2>4, <2>5, <2>6, <2>7, <2>9 DEF GreetingKnows
  <2> QED
    BY <2>12, <2>13 DEF GreetingFed
<1> QED
  BY <1>1, <1>5, <1>6, <1>7 DEF GreetingParser

-----------------------------------------------------------------------------
\* k bytes of the user name, or of the password, are in their array.
UnamePart(p, m, k) ==
    /\ m[1] = 1
    /\ p.uname_len # 0 /\ m[2] = p.uname_len
    /\ \A i \in 0..(k - 1) : p.uname[i] = m[3 + i]

PasswdPart(p, m, k) ==
    /\ UnamePart(p, m, p.uname_len)
    /\ p.passwd_len # 0 /\ m[3 + p.uname_len] = p.passwd_len
    /\ \A i \in 0..(k - 1) : p.passwd[i] = m[4 + p.uname_len + i]

AuthKnows(p, m) ==
    /\ AuthSound(p) /\ m \in Seq(Byte)
    /\ p.state = "VER" => Len(m) = 0
    /\ p.state = "ULEN" => Len(m) = 1 /\ m[1] = 1
    /\ p.state = "UNAME" =>
          /\ UnamePart(p, m, p.uname_len - p.left)
          /\ Len(m) = 2 + p.uname_len - p.left
    /\ p.state = "PLEN" => UnamePart(p, m, p.uname_len) /\ Len(m) = 2 + p.uname_len
    /\ p.state = "PASSWD" =>
          /\ PasswdPart(p, m, p.passwd_len - p.left)
          /\ Len(m) = 3 + p.uname_len + p.passwd_len - p.left

\* socks_on_read_auth, by what the parser returned.
AuthState(p) ==
    CASE p.status = "NEED_MORE" -> "USERPASS"
      [] p.status = "REJECT" -> "DONE"
      [] OTHER -> IF socks_auth_validate(p) THEN "REQUEST" ELSE "DONE"

AuthFed(q, n) ==
    /\ q.status = "NEED_MORE" => AuthKnows(q, n)
    /\ AuthState(q) = AuthOutcome(n)

\* The outcome of the credentials before the password is announced.
LEMMA AuthOutcomeShort ==
    ASSUME NEW n \in Seq(Byte), Len(n) >= 1
    PROVE  /\ n[1] # 1 => AuthOutcome(n) = "DONE"
           /\ n[1] = 1 /\ Len(n) = 1 => AuthOutcome(n) = "USERPASS"
           /\ n[1] = 1 /\ Len(n) > 1 /\ n[2] = 0 => AuthOutcome(n) = "DONE"
           /\ n[1] = 1 /\ Len(n) > 1 /\ n[2] # 0 /\ Len(n) <= 2 + n[2] =>
                AuthOutcome(n) = "USERPASS"
<1>1. n[1] # 1 => AuthOutcome(n) = "DONE"
  BY DEF AuthOutcome
<1>2. n[1] = 1 /\ Len(n) = 1 => AuthOutcome(n) = "USERPASS"
  BY DEF AuthOutcome
<1>3. n[1] = 1 /\ Len(n) > 1 /\ n[2] = 0 => AuthOutcome(n) = "DONE"
  BY DEF AuthOutcome
<1>4. ASSUME n[1] = 1, Len(n) > 1, n[2] # 0, Len(n) <= 2 + n[2]
      PROVE  AuthOutcome(n) = "USERPASS"
  <2>1. n[2] \in Nat /\ Len(n) \in Nat
    BY <1>4, HandshakeAssumption DEF Byte
  <2>2. ~(Len(n) > 2 + n[2])
    BY <1>4, <2>1
  <2> QED
    BY <1>4, <2>2 DEF AuthOutcome
<1> QED
  BY <1>1, <1>2, <1>3, <1>4

\* The outcome of the credentials once it is.
LEMMA AuthOutcomeLong ==
    ASSUME NEW n \in Seq(Byte), NEW u \in Nat \ {0}, Len(n) > 2 + u, n[1] = 1, n[2] = u,
           NEW v, v = n[3 + u]
    PROVE  AuthOutcome(n) =
              IF v = 0 THEN "DONE"
              ELSE IF Len(n) < 3 + u + v THEN "USERPASS"
              ELSE IF store_user_validate(UpToNul(SubSeq(n, 3, 2 + u)),
                                          UpToNul(SubSeq(n, 4 + u, 3 + u + v)))
              THEN "REQUEST" ELSE "DONE"
<1> DEFINE x == UpToNul(SubSeq(n, 3, 2 + u))
           y == UpToNul(SubSeq(n, 4 + u, 3 + u + v))
           Found == \E i \in Slots : /\ users[i].used
                                     /\ users[i].username = x
                                     /\ users[i].password = y
<1>1. Len(n) > 1 /\ u > 0
  OBVIOUS
<1>2. AuthOutcome(n) =
         IF \/ n[1] # 1
            \/ Len(n) > 1 /\ u = 0
            \/ Len(n) > 2 + u /\ u > 0 /\ v = 0
         THEN "DONE"
         ELSE IF v = 0 \/ Len(n) < 3 + u + v THEN "USERPASS"
         ELSE IF Found THEN "REQUEST" ELSE "DONE"
  BY <1>1 DEF AuthOutcome
<1>3. Found <=> store_user_validate(x, y)
  BY DEF store_user_validate, Matches, Used
<1> HIDE DEF x, y, Found
<1>4. AuthOutcome(n) =
         IF v = 0 THEN "DONE"
         ELSE IF Len(n) < 3 + u + v THEN "USERPASS"
         ELSE IF Found THEN "REQUEST" ELSE "DONE"
  BY <1>1, <1>2
<1> QED
  BY <1>3, <1>4 DEF x, y

\* A byte behind what is known of the credentials leaves it known.
LEMMA CredentialsKept ==
    ASSUME NEW m \in Seq(Byte), NEW b, NEW n, Extended(m, b, n), NEW p, NEW k \in Nat,
           p.uname_len \in Nat
    PROVE  /\ UnamePart(p, m, k) /\ Len(m) >= 2 + k => UnamePart(p, n, k)
           /\ PasswdPart(p, m, k) /\ Len(m) >= 3 + p.uname_len + k => PasswdPart(p, n, k)
<1> DEFINE u == p.uname_len
<1>1. Len(m) \in Nat /\ \A i \in 1..Len(m) : n[i] = m[i]
  BY DEF Extended
<1>2. ASSUME NEW j \in Nat, UnamePart(p, m, j), Len(m) >= 2 + j
      PROVE  UnamePart(p, n, j)
  <2>1. n[1] = m[1] /\ n[2] = m[2]
    BY <1>1, <1>2
  <2>2. ASSUME NEW i \in 0..(j - 1)
        PROVE  p.uname[i] = n[3 + i]
    <3>1. 3 + i \in 1..Len(m)
      BY <1>1, <1>2
    <3> QED
      BY <1>1, <1>2, <3>1 DEF UnamePart
  <2> QED
    BY <1>2, <2>1, <2>2 DEF UnamePart
<1>3. ASSUME PasswdPart(p, m, k), Len(m) >= 3 + u + k
      PROVE  PasswdPart(p, n, k)
  <2>1. UnamePart(p, n, u)
    <3>1. Len(m) >= 2 + u
      BY <1>1, <1>3
    <3> QED
      BY <1>2, <1>3, <3>1 DEF PasswdPart
  <2>2. n[3 + u] = m[3 + u]
    <3>1. 3 + u \in 1..Len(m)
      BY <1>1, <1>3
    <3> QED
      BY <1>1, <3>1
  <2>3. ASSUME NEW i \in 0..(k - 1)
        PROVE  p.passwd[i] = n[4 + u + i]
    <3>1. 4 + u + i \in 1..Len(m)
      BY <1>1, <1>3
    <3> QED
      BY <1>1, <1>3, <3>1 DEF PasswdPart
  <2> QED
    BY <1>3, <2>1, <2>2, <2>3 DEF PasswdPart
<1> QED
  BY <1>2, <1>3

\* The version and the length of the user name.
LEMMA AuthHead ==
    ASSUME NEW p, NEW m, NEW b \in Byte, NEW n, NEW q, AuthKnows(p, m),
           Extended(m, b, n), q = socks_auth_parser_feed(p, b),
           p.state \in {"VER", "ULEN"}
    PROVE  AuthFed(q, n)
<1>1. p \in AuthParser /\ p.status = "NEED_MORE"
  BY DEF AuthKnows, AuthSound
<1>2. q.status = "NEED_MORE" => AuthSound(q)
  BY AuthFeed DEF AuthKnows
<1>3. n \in Seq(Byte) /\ m \in Seq(Byte)
  BY DEF Extended, AuthKnows
<1>4. b \in Nat
  BY HandshakeAssumption DEF Byte
<1>5. CASE p.state = "VER"
  <2>1. q = IF b = 1 THEN [p EXCEPT !.state = "ULEN"] ELSE [p EXCEPT !.status = "REJECT"]
    BY <1>5 DEF socks_auth_parser_feed, Expect
  <2>2. IF b = 1 THEN q.state = "ULEN" /\ q.status = "NEED_MORE" ELSE q.status = "REJECT"
    BY <1>1, <2>1 DEF AuthParser
  <2>3. Len(n) = 1 /\ n[1] = b
    BY <1>3, <1>5 DEF AuthKnows, Extended
  <2>4. AuthOutcome(n) = IF b = 1 THEN "USERPASS" ELSE "DONE"
    BY <1>3, <2>3, AuthOutcomeShort
  <2> QED
    BY <1>2, <1>3, <2>2, <2>3, <2>4 DEF AuthFed, AuthState, AuthKnows
<1>6. CASE p.state = "ULEN"
  <2>1. q = IF b = 0 THEN [p EXCEPT !.status = "REJECT"]
            ELSE [p EXCEPT !.uname_len = b, !.left = b, !.state = "UNAME"]
    BY <1>6 DEF socks_auth_parser_feed
  <2>2. Len(n) = 2 /\ n[1] = 1 /\ n[2] = b
    <3>1. Len(m) = 1 /\ m[1] = 1
      BY <1>6 DEF AuthKnows
    <3> QED
      BY <1>3, <3>1 DEF Extended
  <2>3. AuthOutcome(n) = IF b = 0 THEN "DONE" ELSE "USERPASS"
    <3>1. Len(n) > 1 /\ Len(n) >= 1 /\ Len(n) <= 2 + n[2]
      BY <1>4, <2>2
    <3> QED
      BY <1>3, <2>2, <3>1, AuthOutcomeShort
  <2>4. CASE b = 0
    <3>1. q.status = "REJECT"
      BY <1>1, <2>1, <2>4 DEF AuthParser
    <3> QED
      BY <2>3, <2>4, <3>1 DEF AuthFed, AuthState
  <2>5. CASE b # 0
    <3>1. q.state = "UNAME" /\ q.status = "NEED_MORE" /\ q.uname_len = b /\ q.left = b
      BY <1>1, <2>1, <2>5 DEF AuthParser
    <3>2. q.uname_len - q.left = 0 /\ 2 + q.uname_len - q.left = 2
      BY <1>4, <3>1
    <3>3. UnamePart(q, n, q.uname_len - q.left)
      BY <2>2, <2>5, <3>1, <3>2 DEF UnamePart
    <3> QED
      BY <1>2, <1>3, <2>2, <2>3, <2>5, <3>1, <3>2, <3>3 DEF AuthFed, AuthState, AuthKnows
  <2> QED
    BY <2>4, <2>5
<1> QED
  BY <1>5, <1>6

\* A byte of the user name.
LEMMA AuthUname ==
    ASSUME NEW p, NEW m, NEW b \in Byte, NEW n, NEW q, AuthKnows(p, m),
           Extended(m, b, n), q = socks_auth_parser_feed(p, b),
           p.state = "UNAME"
    PROVE  AuthFed(q, n)
<1>1. p \in AuthParser /\ p.status = "NEED_MORE"
  BY DEF AuthKnows, AuthSound
<1>2. q.status = "NEED_MORE" => AuthSound(q)
  BY AuthFeed DEF AuthKnows
<1>3. n \in Seq(Byte) /\ m \in Seq(Byte)
  BY DEF Extended, AuthKnows
<1> DEFINE w == p.uname_len
           k == w - p.left
           a == [p.uname EXCEPT ![k] = b]
           s == IF p.left > 1 THEN "UNAME" ELSE "PLEN"
           l == p.left - 1
<1>4. /\ p.left \in 1..w /\ w \in Byte
      /\ UnamePart(p, m, k) /\ Len(m) = 2 + w - p.left
  BY <1>1 DEF AuthKnows, AuthSound, AuthParser
<1>5. w \in 1..MaxByte /\ MaxByte \in Nat
  BY <1>4, HandshakeAssumption DEF Byte
<1>6. q = [p EXCEPT !.uname = a, !.left = l, !.state = s]
  BY <1>1 DEF socks_auth_parser_feed, AuthParser
<1>7. DOMAIN p.uname = 0..(MaxByte - 1)
  BY <1>1 DEF AuthParser
<1> HIDE DEF w
<1>8. k \in 0..(w - 1) /\ k \in 0..(MaxByte - 1) /\ k \in Nat /\ l = w - (k + 1)
  BY <1>4, <1>5
<1>9. a[k] = b /\ \A i \in 0..(k - 1) : a[i] = p.uname[i]
  <2> HIDE DEF k
  <2>1. \A i \in 0..(k - 1) : i \in DOMAIN p.uname /\ i # k
    <3>1. \A i \in 0..(k - 1) : i \in 0..(MaxByte - 1) /\ i # k
      BY <1>5, <1>8
    <3> QED
      BY <1>7, <3>1
  <2> QED
    BY <1>7, <1>8, <2>1
<1> HIDE DEF a, s, l
<1>10. /\ q.uname_len = w /\ q.uname = a /\ q.left = l /\ q.state = s
       /\ q.status = "NEED_MORE"
  BY <1>1, <1>6 DEF AuthParser, w
<1>11. UnamePart(p, n, k) /\ Len(n) = 3 + k /\ n[3 + k] = b
  <2>1. Len(m) = 2 + k
    BY <1>4, <1>5
  <2>2. p.uname_len \in Nat
    BY <1>5 DEF w
  <2>3. UnamePart(p, n, k)
    BY <1>3, <1>4, <1>8, <2>1, <2>2, CredentialsKept
  <2>4. Len(n) = Len(m) + 1 /\ n[Len(m) + 1] = b /\ (2 + k) + 1 = 3 + k
    BY <1>8 DEF Extended
  <2> QED
    BY <2>1, <2>3, <2>4
<1>12. n[1] = 1 /\ n[2] = w /\ w # 0
  BY <1>11 DEF UnamePart, w
<1>13. UnamePart(q, n, k + 1)
  <2>1. ASSUME NEW i \in 0..((k + 1) - 1)
        PROVE  a[i] = n[3 + i]
    <3>1. i = k \/ i \in 0..(k - 1)
      BY <1>8
    <3> HIDE DEF k
    <3> QED
      BY <1>9, <1>11, <3>1 DEF UnamePart
  <2> HIDE DEF k
  <2> QED
    BY <1>10, <1>12, <2>1 DEF UnamePart
<1>14. AuthOutcome(n) = "USERPASS"
  <2>1. Len(n) > 1 /\ Len(n) >= 1 /\ Len(n) <= 2 + n[2]
    BY <1>5, <1>8, <1>11, <1>12, SMTT(30)
  <2> QED
    BY <1>3, <1>12, <2>1, AuthOutcomeShort
<1>15. l \in Nat /\ k + 1 = w - l /\ 3 + k = 2 + w - l
  BY <1>5, <1>8
<1>16. AuthKnows(q, n)
  <2>1. CASE s = "UNAME"
    BY <1>2, <1>3, <1>10, <1>11, <1>13, <1>15, <2>1 DEF AuthKnows
  <2>2. CASE s = "PLEN"
    <3>1. l = 0
      BY <1>4, <1>5, <2>2 DEF s, l
    <3>2. k + 1 = w /\ Len(n) = 2 + w
      BY <1>5, <1>8, <1>11, <3>1
    <3> QED
      BY <1>2, <1>3, <1>10, <1>13, <2>2, <3>2 DEF AuthKnows
  <2> QED
    BY <2>1, <2>2 DEF s
<1> QED
  BY <1>10, <1>14, <1>16 DEF AuthFed, AuthState

\* The length of the password.
LEMMA AuthPasswdLen ==
    ASSUME NEW p, NEW m, NEW b \in Byte, NEW n, NEW q, AuthKnows(p, m),
           Extended(m, b, n), q = socks_auth_parser_feed(p, b),
           p.state = "PLEN"
    PROVE  AuthFed(q, n)
<1>1. p \in AuthParser /\ p.status = "NEED_MORE"
  BY DEF AuthKnows, AuthSound
<1>2. q.status = "NEED_MORE" => AuthSound(q)
  BY AuthFeed DEF AuthKnows
<1>3. n \in Seq(Byte) /\ m \in Seq(Byte)
  BY DEF Extended, AuthKnows
<1>4. b \in Nat
  BY HandshakeAssumption DEF Byte
<1> DEFINE w == p.uname_len
<1>5. UnamePart(p, m, w) /\ Len(m) = 2 + w
  BY DEF AuthKnows
<1>6. w \in Nat
  BY <1>1, HandshakeAssumption DEF AuthParser, Byte
<1>7. UnamePart(p, n, w) /\ Len(n) = 3 + w /\ n[3 + w] = b
  <2>1. UnamePart(p, n, w)
    BY <1>3, <1>5, <1>6, CredentialsKept
  <2>2. Len(n) = Len(m) + 1 /\ n[Len(m) + 1] = b /\ (2 + w) + 1 = 3 + w
    BY <1>6 DEF Extended
  <2> QED
    BY <1>5, <2>1, <2>2
<1>8. n[1] = 1 /\ n[2] = w /\ w \in Nat \ {0} /\ Len(n) > 2 + w
  BY <1>6, <1>7 DEF UnamePart
<1>9. AuthOutcome(n) =
         IF b = 0 THEN "DONE"
         ELSE IF Len(n) < 3 + w + b THEN "USERPASS"
         ELSE IF store_user_validate(UpToNul(SubSeq(n, 3, 2 + w)),
                                     UpToNul(SubSeq(n, 4 + w, 3 + w + b)))
         THEN "REQUEST" ELSE "DONE"
  <2> HIDE DEF w
  <2> QED
    BY <1>3, <1>7, <1>8, AuthOutcomeLong
<1>10. q = IF b = 0 THEN [p EXCEPT !.status = "REJECT"]
           ELSE [p EXCEPT !.passwd_len = b, !.left = b, !.state = "PASSWD"]
  BY DEF socks_auth_parser_feed
<1>11. CASE b = 0
  <2>1. q.status = "REJECT"
    BY <1>1, <1>10, <1>11 DEF AuthParser
  <2> QED
    BY <1>9, <1>11, <2>1 DEF AuthFed, AuthState
<1>12. CASE b # 0
  <2>1. /\ q.state = "PASSWD" /\ q.status = "NEED_MORE" /\ q.passwd_len = b
        /\ q.left = b /\ q.uname_len = w /\ q.uname = p.uname
    BY <1>1, <1>10, <1>12 DEF AuthParser
  <2>2. /\ q.passwd_len - q.left = 0
        /\ 3 + q.uname_len + q.passwd_len - q.left = 3 + w
        /\ Len(n) < 3 + w + b
    BY <1>4, <1>6, <1>7, <1>12, <2>1
  <2>3. UnamePart(q, n, q.uname_len)
    BY <1>7, <2>1 DEF UnamePart
  <2>4. PasswdPart(q, n, q.passwd_len - q.left)
    BY <1>7, <1>12, <2>1, <2>2, <2>3 DEF PasswdPart
  <2> QED
    BY <1>2, <1>3, <1>7, <1>9, <1>12, <2>1, <2>2, <2>4 DEF AuthFed, AuthState, AuthKnows
<1> QED
  BY <1>11, <1>12

\* A byte of the password; the last one brings the verdict of the table.
LEMMA AuthPasswd ==
    ASSUME NEW p, NEW m, NEW b \in Byte, NEW n, NEW q, AuthKnows(p, m),
           Extended(m, b, n), q = socks_auth_parser_feed(p, b),
           p.state = "PASSWD"
    PROVE  AuthFed(q, n)
<1>1. p \in AuthParser /\ p.status = "NEED_MORE"
  BY DEF AuthKnows, AuthSound
<1>2. q.status = "NEED_MORE" => AuthSound(q)
  BY AuthFeed DEF AuthKnows
<1>3. n \in Seq(Byte) /\ m \in Seq(Byte)
  BY DEF Extended, AuthKnows
<1> DEFINE u == p.uname_len
           w == p.passwd_len
           k == w - p.left
           a == [p.passwd EXCEPT ![k] = b]
           s == IF p.left > 1 THEN "NEED_MORE" ELSE "PARSED"
           l == p.left - 1
<1>4. /\ p.left \in 1..w /\ w \in Byte /\ u \in Byte
      /\ PasswdPart(p, m, k) /\ Len(m) = 3 + u + w - p.left
  BY <1>1 DEF AuthKnows, AuthSound, AuthParser
<1>5. w \in 1..MaxByte /\ MaxByte \in Nat /\ u \in Nat
  BY <1>4, HandshakeAssumption DEF Byte
<1>6. q = [p EXCEPT !.passwd = a, !.left = l, !.status = s]
  BY <1>1 DEF socks_auth_parser_feed, AuthParser
<1>7. DOMAIN p.passwd = 0..(MaxByte - 1)
  BY <1>1 DEF AuthParser
<1> HIDE DEF u, w
<1>8. k \in 0..(w - 1) /\ k \in 0..(MaxByte - 1) /\ k \in Nat /\ l = w - (k + 1)
  BY <1>4, <1>5
<1>9. a[k] = b /\ \A i \in 0..(k - 1) : a[i] = p.passwd[i]
  <2> HIDE DEF k
  <2>1. \A i \in 0..(k - 1) : i \in DOMAIN p.passwd /\ i # k
    <3>1. \A i \in 0..(k - 1) : i \in 0..(MaxByte - 1) /\ i # k
      BY <1>5, <1>8
    <3> QED
      BY <1>7, <3>1
  <2> QED
    BY <1>7, <1>8, <2>1
<1> HIDE DEF a, s, l
<1>10. /\ q.passwd_len = w /\ q.passwd = a /\ q.left = l /\ q.state = "PASSWD"
       /\ q.status = s /\ q.uname_len = u /\ q.uname = p.uname
  BY <1>1, <1>6 DEF AuthParser, u, w
<1>11. PasswdPart(p, n, k) /\ Len(n) = 4 + u + k /\ n[4 + u + k] = b
  <2>1. Len(m) = 3 + u + k
    BY <1>4, <1>5
  <2>2. p.uname_len \in Nat /\ p.uname_len = u
    BY <1>5 DEF u
  <2>3. PasswdPart(p, n, k)
    BY <1>3, <1>4, <1>8, <2>1, <2>2, CredentialsKept
  <2>4. Len(n) = Len(m) + 1 /\ n[Len(m) + 1] = b /\ (3 + u + k) + 1 = 4 + u + k
    BY <1>5, <1>8, SMTT(30) DEF Extended
  <2> QED
    BY <2>1, <2>3, <2>4
<1>12. UnamePart(p, n, u) /\ n[3 + u] = w /\ w # 0
  BY <1>11 DEF PasswdPart, u, w
<1>13. PasswdPart(q, n, k + 1)
  <2>1. ASSUME NEW i \in 0..((k + 1) - 1)
        PROVE  a[i] = n[4 + u + i]
    <3>1. i = k \/ i \in 0..(k - 1)
      BY <1>8
    <3>2. \A j \in 0..(k - 1) : p.passwd[j] = n[4 + u + j]
      BY <1>11 DEF PasswdPart, u
    <3> HIDE DEF k
    <3> QED
      BY <1>9, <1>11, <3>1, <3>2
  <2>2. UnamePart(q, n, u)
    BY <1>10, <1>12 DEF UnamePart, u
  <2> HIDE DEF k
  <2> QED
    BY <1>10, <1>12, <2>1, <2>2 DEF PasswdPart
<1>14. n[1] = 1 /\ n[2] = u /\ u \in Nat \ {0}
  BY <1>5, <1>12 DEF UnamePart, u
<1>15. AuthOutcome(n) =
          IF Len(n) < 3 + u + w THEN "USERPASS"
          ELSE IF store_user_validate(UpToNul(SubSeq(n, 3, 2 + u)),
                                      UpToNul(SubSeq(n, 4 + u, 3 + u + w)))
          THEN "REQUEST" ELSE "DONE"
  <2>1. Len(n) > 2 + u
    BY <1>5, <1>8, <1>11
  <2> QED
    BY <1>3, <1>12, <1>14, <2>1, AuthOutcomeLong
<1>16. l \in Nat /\ k + 1 = w - l /\ Len(n) = 3 + u + w - l
  BY <1>5, <1>8, <1>11
<1>17. CASE p.left > 1
  <2>1. s = "NEED_MORE" /\ Len(n) < 3 + u + w
    <3>1. s = "NEED_MORE"
      BY <1>17 DEF s
    <3>2. l > 0
      BY <1>4, <1>5, <1>17 DEF l
    <3> QED
      BY <1>5, <1>16, <3>1, <3>2
  <2>2. AuthKnows(q, n)
    BY <1>2, <1>3, <1>10, <1>13, <1>16, <2>1 DEF AuthKnows
  <2> QED
    BY <1>10, <1>15, <2>1, <2>2 DEF AuthFed, AuthState
<1>18. CASE ~(p.left > 1)
  <2>1. s = "PARSED" /\ l = 0
    BY <1>4, <1>5, <1>18 DEF s, l
  <2>2. k + 1 = w /\ Len(n) = 3 + u + w /\ ~(Len(n) < 3 + u + w)
    BY <1>5, <1>16, <2>1
  <2>3. UpToNul(SubSeq(n, 3, 2 + u)) = CString(q.uname, u)
    <3>1. \A i \in 0..(u - 1) : q.uname[i] = n[3 + i]
      BY <1>10, <1>12 DEF UnamePart
    <3>2. 3 + u - 1 <= Len(n) /\ 3 + u - 1 = 2 + u /\ 3 \in Nat \ {0}
      BY <1>5, <2>2
    <3> DEFINE x == q.uname
               f == 3
    <3>3. f \in Nat \ {0} /\ f + u - 1 <= Len(n) /\ \A i \in 0..(u - 1) : x[i] = n[f + i]
      BY <3>1, <3>2
    <3> HIDE DEF x, f
    <3>4. UpToNul(SubSeq(n, f, f + u - 1)) = CString(x, u)
      BY <1>3, <1>5, <3>3, StringInMessage
    <3> QED
      BY <3>2, <3>4 DEF x, f
  <2>4. UpToNul(SubSeq(n, 4 + u, 3 + u + w)) = CString(q.passwd, w)
    <3>1. PasswdPart(q, n, w)
      BY <1>13, <2>2
    <3>2. \A i \in 0..(w - 1) : q.passwd[i] = n[(4 + u) + i]
      BY <1>10, <3>1 DEF PasswdPart
    <3>3. /\ (4 + u) + w - 1 <= Len(n) /\ (4 + u) + w - 1 = 3 + u + w
          /\ 4 + u \in Nat \ {0} /\ w \in Nat
      BY <1>5, <2>2
    <3> DEFINE x == q.passwd
               f == 4 + u
    <3>4. f \in Nat \ {0} /\ f + w - 1 <= Len(n) /\ \A i \in 0..(w - 1) : x[i] = n[f + i]
      BY <3>2, <3>3
    <3>5. f + w - 1 = 3 + u + w
      BY <3>3
    <3> HIDE DEF x, f
    <3>6. UpToNul(SubSeq(n, f, f + w - 1)) = CString(x, w)
      BY <1>3, <3>3, <3>4, StringInMessage
    <3> QED
      BY <3>5, <3>6 DEF x, f
  <2>5. socks_auth_validate(q) <=>
           store_user_validate(UpToNul(SubSeq(n, 3, 2 + u)),
                               UpToNul(SubSeq(n, 4 + u, 3 + u + w)))
    BY <1>10, <2>3, <2>4 DEF socks_auth_validate
  <2> QED
    BY <1>10, <1>15, <2>1, <2>2, <2>5 DEF AuthFed, AuthState
<1> QED
  BY <1>17, <1>18

\* After each byte of the credentials the parser has kept what they are made
\* of, and the session goes where they, and the table, say.
LEMMA AuthByte ==
    ASSUME NEW p, NEW m, NEW b \in Byte, NEW n, NEW q, AuthKnows(p, m),
           Extended(m, b, n), q = socks_auth_parser_feed(p, b)
    PROVE  AuthFed(q, n)
<1>1. p.state \in {"VER", "ULEN", "UNAME", "PLEN", "PASSWD"}
  BY DEF AuthKnows, AuthSound, AuthParser
<1>2. CASE p.state \in {"VER", "ULEN"}
  BY <1>2, AuthHead
<1>3. CASE p.state = "UNAME"
  BY <1>3, AuthUname
<1>4. CASE p.state = "PLEN"
  BY <1>4, AuthPasswdLen
<1>5. CASE p.state = "PASSWD"
  BY <1>5, AuthPasswd
<1> QED
  BY <1>1, <1>2, <1>3, <1>4, <1>5

-----------------------------------------------------------------------------
(***************************************************************************)
(* The session                                                             *)
(***************************************************************************)
\* What the parser of this state was fed.
Said == IF from = st THEN message ELSE <<>>

\* The parser of a session that still parses, or has parsed its request, holds
\* what the client said.
HeardInv ==
    /\ from \in Parsing
    /\ st = "GREETING" => GreetingKnows(Current, Said)
    /\ st = "USERPASS" => AuthKnows(Current, Said)
    /\ st = "REQUEST" => RequestKnows(Current, Said)
    /\ st = "RESOLVING" => Requested(parser, message) /\ parser.atyp = 3
    /\ st = "CONNECTING" => Requested(parser, message) /\ parser.atyp # 3

\* A parser as its _init function leaves it knows of no byte.
LEMMA InitialKnowledge ==
    /\ GreetingKnows(socks_greeting_parser_init, <<>>)
    /\ AuthKnows(socks_auth_parser_init, <<>>)
    /\ RequestKnows(socks_request_parser_init, <<>>)
<1>1. <<>> \in Seq(Byte) /\ Len(<<>>) = 0
  OBVIOUS
<1>2. GreetingKnows(socks_greeting_parser_init, <<>>)
  <2>1. /\ socks_greeting_parser_init.state = "VER"
        /\ ~socks_greeting_parser_init.userpass /\ ~socks_greeting_parser_init.noauth
    BY DEF socks_greeting_parser_init
  <2> QED
    BY <1>1, <2>1, InitialParsers DEF GreetingKnows
<1>3. AuthKnows(socks_auth_parser_init, <<>>)
  <2>1. socks_auth_parser_init.state = "VER"
    BY DEF socks_auth_parser_init
  <2> QED
    BY <1>1, <2>1, InitialParsers DEF AuthKnows
<1>4. RequestKnows(socks_request_parser_init, <<>>)
  <2>1. socks_request_parser_init.state = "VER"
    BY DEF socks_request_parser_init
  <2> QED
    BY <1>1, <2>1, InitialParsers DEF RequestKnows
<1> QED
  BY <1>2, <1>3, <1>4

\* One byte of socks_client_read: what was said grows by it, the next state is
\* the one the whole message calls for, and the parser still holds the message.
LEMMA ByteHeard ==
    ASSUME HeardInv, NEW b \in Byte, socks_client_read(b)
    PROVE  HeardInv' /\ st' = Outcome(from', message')
<1> DEFINE m == Said
           n == message'
           p == Current
           q == parser'
<1>1. st \in Parsing /\ from' = st
  BY DEF socks_client_read
<1>2. m \in Seq(Byte)
  BY <1>1 DEF HeardInv, GreetingKnows, AuthKnows, RequestKnows, Parsing
<1>3. n = Append(m, b)
  <2>1. n = IF from = st THEN Append(message, b) ELSE <<b>>
    BY DEF socks_client_read
  <2>2. Append(<<>>, b) = <<b>>
    OBVIOUS
  <2> QED
    BY <2>1, <2>2 DEF Said
<1>4. Extended(m, b, n)
  <2> HIDE DEF m, n
  <2> QED
    BY <1>2, <1>3 DEF Extended
<1>5. from' \in Parsing
  BY <1>1
<1>6. /\ st' = st => Current' = q /\ Said' = n
      /\ st' # st /\ st' = "USERPASS" =>
           Current' = socks_auth_parser_init /\ Said' = <<>>
      /\ st' # st /\ st' = "REQUEST" =>
           Current' = socks_request_parser_init /\ Said' = <<>>
  BY <1>1 DEF Current, Said
<1>7. CASE socks_on_read_greeting(b)
  <2>1. st = "GREETING" /\ GreetingKnows(p, m) /\ q = socks_greeting_parser_feed(p, b)
    BY <1>7 DEF HeardInv, socks_on_read_greeting
  <2>2. st' = GreetingState(q)
    BY <1>7 DEF socks_on_read_greeting, GreetingState
  <2>3. GreetingFed(q, n)
    <3> HIDE DEF m, n, p, q
    <3> QED
      BY <1>4, <2>1, GreetingByte
  <2>4. st' = Outcome(from', n)
    BY <1>1, <2>1, <2>2, <2>3 DEF GreetingFed, Outcome
  <2>5. /\ st' \in {"GREETING", "USERPASS", "REQUEST", "DONE"}
        /\ st' = "GREETING" => q.status = "NEED_MORE"
    BY <2>2 DEF GreetingState
  <2>6. st' = "GREETING" => GreetingKnows(Current', Said')
    BY <1>6, <2>1, <2>3, <2>5 DEF GreetingFed
  <2>7. /\ st' = "USERPASS" => AuthKnows(Current', Said')
        /\ st' = "REQUEST" => RequestKnows(Current', Said')
    BY <1>6, <2>1, InitialKnowledge
  <2> QED
    BY <1>5, <2>4, <2>5, <2>6, <2>7 DEF HeardInv
<1>8. CASE socks_on_read_auth(b)
  <2>1. st = "USERPASS" /\ AuthKnows(p, m) /\ q = socks_auth_parser_feed(p, b)
    BY <1>8 DEF HeardInv, socks_on_read_auth
  <2>2. st' = AuthState(q)
    BY <1>8 DEF socks_on_read_auth, AuthState
  <2>3. AuthFed(q, n)
    <3> HIDE DEF m, n, p, q
    <3> QED
      BY <1>4, <2>1, AuthByte
  <2>4. st' = Outcome(from', n)
    BY <1>1, <2>1, <2>2, <2>3 DEF AuthFed, Outcome
  <2>5. /\ st' \in {"USERPASS", "REQUEST", "DONE"}
        /\ st' = "USERPASS" => q.status = "NEED_MORE"
    BY <2>2 DEF AuthState
  <2>6. st' = "USERPASS" => AuthKnows(Current', Said')
    BY <1>6, <2>1, <2>3, <2>5 DEF AuthFed
  <2>7. st' = "REQUEST" => RequestKnows(Current', Said')
    BY <1>6, <2>1, InitialKnowledge
  <2> QED
    BY <1>5, <2>4, <2>5, <2>6, <2>7 DEF HeardInv
<1>9. CASE socks_on_read_request(b)
  <2>1. st = "REQUEST" /\ RequestKnows(p, m) /\ q = socks_request_parser_feed(p, b)
    BY <1>9 DEF HeardInv, socks_on_read_request
  <2>2. st' = RequestState(q.status)
    BY <1>9 DEF socks_on_read_request, RequestState
  <2>3. RequestFed(q, n)
    <3> HIDE DEF m, n, p, q
    <3> QED
      BY <1>4, <2>1, RequestByte
  <2>4. st' = Outcome(from', n)
    BY <1>1, <2>1, <2>2, <2>3 DEF RequestFed, Outcome
  <2>5. /\ st' \in {"REQUEST", "RESOLVING", "CONNECTING", "DONE"}
        /\ st' = "REQUEST" => q.status = "NEED_MORE"
        /\ st' = "RESOLVING" => q.status = "PARSED_FQDN"
        /\ st' = "CONNECTING" => q.status = "PARSED_ADDR"
    BY <2>2 DEF RequestState
  <2>6. st' = "REQUEST" => RequestKnows(Current', Said')
    BY <1>6, <2>1, <2>3, <2>5 DEF RequestFed
  <2>7. /\ st' = "RESOLVING" => Requested(q, n) /\ q.atyp = 3
        /\ st' = "CONNECTING" => Requested(q, n) /\ q.atyp # 3
    BY <2>3, <2>5 DEF RequestFed
  <2> QED
    BY <1>5, <2>4, <2>5, <2>6, <2>7 DEF HeardInv
<1> QED
  BY <1>7, <1>8, <1>9 DEF socks_client_read

\* Each byte, each new client and each command keep what the parser holds.
LEMMA StepHears == HeardInv /\ [HandshakeNext]_hvars => HeardInv'
<1> SUFFICES ASSUME HeardInv, [HandshakeNext]_hvars
             PROVE  HeardInv'
  OBVIOUS
<1>1. ASSUME NEW b \in Byte, socks_client_read(b)
      PROVE  HeardInv'
  BY <1>1, ByteHeard
<1>2. CASE NextClient
  <2>1. /\ st' = "GREETING" /\ from' = "GREETING" /\ message' = <<>>
        /\ parser' = socks_greeting_parser_init
    BY <1>2 DEF NextClient
  <2>2. Current' = socks_greeting_parser_init /\ Said' = <<>>
    BY <2>1 DEF Current, Said
  <2> QED
    BY <2>1, <2>2, InitialKnowledge DEF HeardInv, Parsing
<1>3. CASE Administer \/ UNCHANGED hvars
  <2>1. UNCHANGED <<st, from, parser, message>>
    BY <1>3 DEF Administer, hvars, wire
  <2> QED
    BY <2>1 DEF HeardInv, Current, Said, Parsing
<1> QED
  BY <1>1, <1>2, <1>3 DEF HandshakeNext

\* The parsers always hold what the client said.
LEMMA AlwaysHeard == HandshakeSpec => []HeardInv
<1>1. HandshakeInit => HeardInv
  BY InitialKnowledge DEF HandshakeInit, HeardInv, Current, Said, Parsing
<1> QED
  BY <1>1, StepHears, PTL DEF HandshakeSpec

\* After every byte the session is where the whole message, and for the
\* credentials the user table at that moment, say it should be: the byte-wise
\* parsers accept the messages of RFC 1928 and 1929 and no others, for every
\* size of a byte and of an address.
THEOREM GrammarFollowed == HandshakeSpec => FollowsGrammar
<1>1. ASSUME HeardInv, [HandshakeNext]_hvars
      PROVE  [message' \notin {message, <<>>} => st' = Outcome(from', message')]_hvars
  <2>1. ASSUME NEW b \in Byte, socks_client_read(b)
        PROVE  st' = Outcome(from', message')
    BY <1>1, <2>1, ByteHeard
  <2>2. NextClient => message' = <<>>
    BY DEF NextClient
  <2>3. Administer => message' = message
    BY DEF Administer, wire
  <2> QED
    BY <1>1, <2>1, <2>2, <2>3 DEF HandshakeNext
<1> QED
  BY <1>1, AlwaysHeard, PTL DEF HandshakeSpec, FollowsGrammar

\* The proxy connects to the address, or has the name resolved, and takes the
\* port that stand in the request, whatever the request.
THEOREM DestinationIsExact == HandshakeSpec => []DestinationExact
<1>1. HeardInv => DestinationExact
  <2> SUFFICES ASSUME HeardInv, st \in {"RESOLVING", "CONNECTING"}
               PROVE  LET n == Len(message)
                      IN  /\ parser.port = message[n - 1] * (MaxByte + 1) + message[n]
                          /\ IF st = "RESOLVING"
                             THEN CString(parser.fqdn, MaxByte + 1) =
                                     UpToNul(SubSeq(message, 6, n - 2))
                             ELSE /\ message[4] = parser.atyp
                                  /\ \A i \in 5..(n - 2) : parser.addr[i - 5] = message[i]
    BY DEF DestinationExact
  <2> DEFINE n == Len(message)
             p == parser
             m == message
  <2>1. Requested(p, m)
    BY DEF HeardInv
  <2>2. /\ p \in RequestParser /\ m \in Seq(Byte)
        /\ Addressed(p, m) /\ n = 6 + Width(p)
        /\ p.port = m[n - 1] * (MaxByte + 1) + m[n]
    BY <2>1 DEF Requested
  <2>3. CASE st = "RESOLVING"
    <3>1. p.atyp = 3
      BY <2>3 DEF HeardInv
    <3> DEFINE f == p.fqdn
               l == p.fqdn_len
    <3>2. NamePart(p, m, l) /\ f[l] = 0 /\ Width(p) = 1 + l
      BY <2>2, <3>1 DEF Addressed, AddrPart, Width
    <3>3. MaxByte + 1 \in Nat /\ l \in 0..((MaxByte + 1) - 1) /\ l \in Nat
      BY <2>2, HandshakeAssumption DEF RequestParser, Byte
    <3>4. \A i \in 0..(l - 1) : f[i] = m[6 + i]
      BY <3>2 DEF NamePart
    <3> DEFINE s == 6
    <3>5. s \in Nat \ {0} /\ s + l - 1 <= n /\ s + l - 1 = n - 2
      BY <2>2, <3>2, <3>3
    <3>6. \A i \in 0..(l - 1) : f[i] = m[s + i]
      BY <3>4
    <3> HIDE DEF f, l, s, m, p
    <3>7. CString(f, MaxByte + 1) = CString(f, l)
      BY <3>2, <3>3, NulEnds
    <3>8. UpToNul(SubSeq(m, s, s + l - 1)) = CString(f, l)
      BY <2>2, <3>3, <3>5, <3>6, StringInMessage DEF m
    <3> QED
      BY <2>2, <2>3, <3>5, <3>7, <3>8 DEF f, s, m, p
  <2>4. CASE st = "CONNECTING"
    <3>1. p.atyp # 3
      BY <2>4 DEF HeardInv
    <3> DEFINE w == AddrLen(p.atyp)
    <3>2. AddrPart(p, m, w) /\ n = 6 + w
      BY <2>2, <3>1 DEF Addressed, NamePart, Width
    <3>3. w \in Nat
      BY HandshakeAssumption DEF AddrLen
    <3>4. ASSUME NEW i \in 5..(n - 2)
          PROVE  p.addr[i - 5] = m[i]
      <4>1. i - 5 \in 0..(w - 1) /\ 5 + (i - 5) = i
        BY <3>2, <3>3
      <4>2. p.addr[i - 5] = m[5 + (i - 5)]
        BY <3>2, <4>1 DEF AddrPart
      <4> QED
        BY <4>1, <4>2
    <3> QED
      BY <2>2, <2>4, <3>2, <3>4 DEF AddrPart
  <2> QED
    BY <2>3, <2>4
<1> QED
  BY <1>1, AlwaysHeard, PTL
=============================================================================
