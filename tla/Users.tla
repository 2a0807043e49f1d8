-------------------------------- MODULE Users --------------------------------
(***************************************************************************)
(* The user table of the store (src/server/monitor/store.c): filled from   *)
(* the -u and -a flags by main.c, then changed by the ADD_USER, DEL_USER   *)
(* and SET_PASSWORD commands of the monitor port, one call at a time.      *)
(***************************************************************************)
EXTENDS Integers, FiniteSets

CONSTANTS
    MaxUsers,     \* STORE_MAX_USERS
    Names,        \* user names a caller may pass
    Passwords,
    Stored,       \* Stored[n]: the first STORE_MAX_USERNAME bytes of n
    Kept,         \* Kept[p]: the first STORE_MAX_PASSWORD bytes of p
    NoName        \* the empty string

ASSUME UsersAssumption ==
    /\ MaxUsers \in Nat
    /\ Stored \in [Names -> Names]
    /\ \A n \in Names : Stored[Stored[n]] = Stored[n]
    /\ Kept \in [Passwords -> Passwords]
    /\ NoName \notin Names
    /\ NoName \notin Passwords

VARIABLES
    users,        \* the table
    user_count,
    phase         \* main: "users", "admins", "serving", or "exited"

vars == <<users, user_count, phase>>

Slots == 1..MaxUsers

User == [used : BOOLEAN, username : Names \cup {NoName},
         password : Passwords \cup {NoName}, role : {"user", "admin"}]

\* calloc: STORE_ROLE_USER is 0.
NoUser == [used |-> FALSE, username |-> NoName, password |-> NoName,
           role |-> "user"]

Init ==
    /\ users = [i \in Slots |-> NoUser]
    /\ user_count = 0
    /\ phase = "users"

-----------------------------------------------------------------------------
Used == {i \in Slots : users[i].used}

Admins == {i \in Used : users[i].role = "admin"}

\* The scans compare the name as passed with the names as stored, and stop at
\* the first match.
Matches(n) == {i \in Used : users[i].username = n}

IsFirst(i, S) == i \in S /\ \A j \in S : i <= j

store_admin_count == Cardinality(Admins)

\* STORE_USER_OK; otherwise the name is there or the table is full.
CanAdd(n) == Matches(n) = {} /\ Used # Slots

store_user_add(n, p, role) ==
    /\ Matches(n) = {}
    /\ \E i \in Slots :
          /\ IsFirst(i, Slots \ Used)
          /\ users' = [users EXCEPT ![i] =
                [used |-> TRUE, username |-> Stored[n], password |-> Kept[p],
                 role |-> role]]
    /\ user_count' = user_count + 1

\* Mutant (AdminRemains): the last administrator can be deleted.
store_user_delete_AnyAdmin(n) ==
    /\ \E i \in Slots :
          /\ IsFirst(i, Matches(n))
          /\ users' = [users EXCEPT ![i] = NoUser]
    /\ user_count' = IF user_count > 0 THEN user_count - 1 ELSE user_count

\* STORE_USER_LAST_ADMIN and STORE_USER_NOT_FOUND change nothing.
store_user_delete(n) ==
    /\ \E i \in Slots :
          /\ IsFirst(i, Matches(n))
          /\ ~(users[i].role = "admin" /\ store_admin_count <= 1)
          /\ users' = [users EXCEPT ![i] =
                [used |-> FALSE, username |-> NoName, password |-> NoName,
                 role |-> @.role]]
    /\ user_count' = IF user_count > 0 THEN user_count - 1 ELSE user_count

\* Mutant (CredentialsTakeEffect): the password goes to the first user.
store_user_set_password_First(n, p) ==
    /\ Matches(n) # {}
    /\ \E i \in Slots :
          /\ IsFirst(i, Used)
          /\ users' = [users EXCEPT ![i] =
                [used |-> TRUE, username |-> @.username, password |-> Kept[p],
                 role |-> @.role]]
    /\ UNCHANGED user_count

store_user_set_password(n, p) ==
    /\ \E i \in Slots :
          /\ IsFirst(i, Matches(n))
          /\ users' = [users EXCEPT ![i] =
                [used |-> TRUE, username |-> @.username, password |-> Kept[p],
                 role |-> @.role]]
    /\ UNCHANGED user_count

\* SOCKS authentication: any user with this name and password.
store_user_validate(n, p) == \E i \in Matches(n) : users[i].password = p

-----------------------------------------------------------------------------
\* main: every -u, then every -a; a flag that cannot be added ends the program.
FlagUser(n, p) ==
    /\ phase = "users"
    /\ store_user_add(n, p, "user")
    /\ UNCHANGED phase

FlagAdmin(n, p) ==
    /\ \/ phase = "users" /\ Used # {}        \* at least one -u is required
       \/ phase = "admins"
    /\ store_user_add(n, p, "admin")
    /\ phase' = "admins"

FlagRefused(n) ==
    /\ phase \in {"users", "admins"}
    /\ ~CanAdd(n)
    /\ phase' = "exited"
    /\ UNCHANGED <<users, user_count>>

\* add_flag_user takes no flag without a colon, a name and a password.
FlagMalformed ==
    /\ phase \in {"users", "admins"}
    /\ phase' = "exited"
    /\ UNCHANGED <<users, user_count>>

StartServing ==
    /\ phase = "admins"
    /\ phase' = "serving"
    /\ UNCHANGED <<users, user_count>>

Command(n, p) ==
    /\ phase = "serving"
    /\ \/ \E role \in {"user", "admin"} : store_user_add(n, p, role)
       \/ store_user_delete(n)
       \/ store_user_set_password(n, p)
    /\ UNCHANGED phase

Exited == phase = "exited" /\ UNCHANGED vars

Next ==
    \/ \E n \in Names, p \in Passwords :
          FlagUser(n, p) \/ FlagAdmin(n, p) \/ Command(n, p)
    \/ \E n \in Names : FlagRefused(n)
    \/ FlagMalformed
    \/ StartServing
    \/ Exited

Spec == Init /\ [][Next]_vars

-----------------------------------------------------------------------------
\* The table and the counters have the types of their declarations.
TypeOK ==
    /\ users \in [Slots -> User]
    /\ user_count \in Nat
    /\ phase \in {"users", "admins", "serving", "exited"}

\* store_user_delete: "falla si es el unico admin".  A proxy that serves always
\* has an administrator, also after its own accounts were edited in any order.
AdminRemains == phase \in {"admins", "serving"} => Admins # {}

\* user_count agrees with the table it summarises.
CountMatchesTable == user_count = Cardinality(Used)

\* False: no two users have the same stored name (main.c: "Fail if user already
\* exists").  Two names that are cut to one are added both.
UsernamesUnique ==
    \A i, j \in Used : users[i].username = users[j].username => i = j

\* A name that fits its field, and that no longer name is cut to.
Own(n) == \A k \in Names : Stored[k] = n <=> k = n

\* Among all accounts, also those of names that were cut, a name that is no cut
\* of another is there at most once: a command that names it finds its account.
OwnNamesUnique ==
    \A i, j \in Used :
        users[i].username = users[j].username /\ Own(users[i].username) => i = j

\* The passwords that authenticate n on the SOCKS port.
Accepted(n) == {q \in Passwords : store_user_validate(n, q)}

\* What the monitor port is told takes effect on the SOCKS port at once.  After
\* ADD_USER or SET_PASSWORD the password, as far as its field goes, is accepted
\* with the name, as far as its field goes.  If no other name is cut to the same
\* bytes it is also the only one, and after DEL_USER there is none.
CredentialsTakeEffect ==
    [][users' # users => \A n \in Names, p \in Passwords :
          /\ \/ \E role \in {"user", "admin"} : store_user_add(n, p, role)
             \/ store_user_set_password(n, p)
             => /\ Kept[p] \in Accepted(Stored[n])'
                /\ Own(n) => Accepted(n)' = {Kept[p]}
          /\ store_user_delete(n) /\ Own(n) => Accepted(n)' = {}]_vars
=============================================================================
