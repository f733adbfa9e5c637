------------------------------ MODULE Accounts ------------------------------
(***************************************************************************)
(* The auth service (internal/authservice, cmd/auth-service): the users    *)
(* table, the JSON web tokens it signs and the administrators who manage   *)
(* the accounts.                                                           *)
(*                                                                         *)
(* A token carries a name and a role and is believed until it expires: no  *)
(* handler asks the users table about its bearer.  A login and a change to *)
(* an account are two steps each, the row that is read and what follows    *)
(* from it, and requests interleave between them.  A request that is       *)
(* refused changes nothing and is no step.  Passwords are left out (a      *)
(* login with a wrong one is refused), and so is is_active, which nothing  *)
(* ever sets to FALSE.                                                     *)
(***************************************************************************)
EXTENDS FiniteSets, Naturals

CONSTANTS
  Names,      \* user names and vehicle ids
  Admin,      \* the name that is seeded
  Ids,        \* bound: SERIAL ids a run hands out
  Granted,    \* roles that administrators give
  Requests,   \* slots for requests that are served concurrently
  NoUser,     \* no row
  MaxTokens   \* bound: tokens that are valid at a time

OperatorRole == {"ADMIN", "ACTIVE_OPERATOR", "OBSERVER", "STANDBY", "VEHICLE"}

User == [name : Names, role : OperatorRole]

ASSUME AccountsAssumption ==
  /\ Admin \in Names
  /\ Ids # {}
  /\ Granted \subseteq OperatorRole
  /\ NoUser \notin User /\ NoUser \notin Ids
  /\ MaxTokens \in Nat

\* CreateUser refuses an empty name.
ASSUME NamesAssumption == "" \notin Names

Claims == [subject : Names, role : OperatorRole, ttl : {"1h", "24h", "168h"}]

VARIABLES
  users,   \* table users: id -> row, or NoUser
  serial,  \* ids handed out so far; none is handed out again
  tokens,  \* tokens that have not expired
  calls,   \* Requests -> the handler's progress
  held     \* history: <<name, role>> of every row there ever was

vars == <<users, serial, tokens, calls, held>>

Idle == [pc |-> "idle", name |-> Admin, id |-> NoUser, role |-> "OBSERVER"]

Rows == {id \in Ids : users[id] # NoUser}

RowsOf(name) == {id \in Rows : users[id].name = name}

Store(id, name, role) ==
  /\ users' = [users EXCEPT ![id] = [name |-> name, role |-> role]]
  /\ held' = held \cup {<<name, role>>}

\* The first start has seeded the administrator.
Init ==
  /\ \E id \in Ids :
       /\ users = [i \in Ids |-> IF i = id THEN [name |-> Admin, role |-> "ADMIN"] ELSE NoUser]
       /\ serial = {id}
  /\ tokens = {}
  /\ calls = [r \in Requests |-> Idle]
  /\ held = {<<Admin, "ADMIN">>}

-----------------------------------------------------------------------------
(* Tokens *)

IssueToken(subject, role, ttl) ==
  /\ tokens' = tokens \cup {[subject |-> subject, role |-> role, ttl |-> ttl]}
  /\ Cardinality(tokens') <= MaxTokens

\* ParseToken refuses it from now on.
Expire(token) ==
  /\ tokens' = tokens \ {token}
  /\ UNCHANGED <<users, serial, calls, held>>

\* The password matches; last_auth_at is of no consequence.
Authenticate(r, id) ==
  /\ calls[r].pc = "idle" /\ id \in Rows
  /\ calls' = [calls EXCEPT ![r] = [Idle EXCEPT !.pc = "login", !.name = users[id].name,
                                               !.role = users[id].role]]
  /\ UNCHANGED <<users, serial, tokens, held>>

\* The token carries the role that was read, whatever it is now.
Login(r) ==
  /\ calls[r].pc = "login"
  /\ IssueToken(calls[r].name, calls[r].role, "24h")
  /\ calls' = [calls EXCEPT ![r] = Idle]
  /\ UNCHANGED <<users, serial, held>>

\* Any name; no row is read.
VehicleRegister(name) ==
  /\ IssueToken(name, "VEHICLE", "168h")
  /\ UNCHANGED <<users, serial, calls, held>>

\* Same subject, same role, a new day.
RefreshToken(token) ==
  /\ IssueToken(token.subject, token.role, "24h")
  /\ UNCHANGED <<users, serial, calls, held>>

\* Fault: the target inherits the role of the operator who hands over.
handoverTokenInherits(current, target) ==
  /\ current \in tokens
  /\ IssueToken(target, current.role, "1h")
  /\ UNCHANGED <<users, serial, calls, held>>

\* The current token is optional: a target is enough.
handoverToken(current, target) ==
  /\ IssueToken(target, "ACTIVE_OPERATOR", "1h")
  /\ UNCHANGED <<users, serial, calls, held>>

-----------------------------------------------------------------------------
(* Accounts *)

RequireAdmin(token) == token \in tokens /\ token.role = "ADMIN"

\* Fault: a name may be taken twice.
CreateUserTwice(token, id, name, role) ==
  /\ RequireAdmin(token)
  /\ id \notin serial
  /\ Store(id, name, role)
  /\ serial' = serial \cup {id}
  /\ UNCHANGED <<tokens, calls>>

\* username is UNIQUE.
CreateUser(token, id, name, role) ==
  /\ RequireAdmin(token)
  /\ RowsOf(name) = {} /\ id \notin serial
  /\ Store(id, name, role)
  /\ serial' = serial \cup {id}
  /\ UNCHANGED <<tokens, calls>>

\* Fault: only the seeded account is looked after.
canModifyUnseeded(caller, target) == caller # Admin \/ target.name # Admin

canModifyUser(caller, target) == caller # target.name

\* The token is parsed a second time: "" when it has expired since the
\* middleware accepted it.  (A token with the same claims may still be valid.)
callerID(token) == {token.subject, ""}

\* FindByID and the guard of DELETE and PATCH /auth/users/{id}.
FindUser(r, token, id, pc, role) ==
  /\ calls[r].pc = "idle"
  /\ RequireAdmin(token)
  /\ id \in Rows
  /\ \E caller \in callerID(token) :
       /\ canModifyUser(caller, users[id])
       /\ calls' = [calls EXCEPT ![r] = [pc |-> pc, name |-> caller, id |-> id,
                                         role |-> role]]
  /\ UNCHANGED <<users, serial, tokens, held>>

\* The row may be gone by now: a 404.
DeleteUser(r) ==
  /\ calls[r].pc = "delete"
  /\ users' = [users EXCEPT ![calls[r].id] = NoUser]
  /\ calls' = [calls EXCEPT ![r] = Idle]
  /\ UNCHANGED <<serial, tokens, held>>

UpdateRole(r) ==
  LET id == calls[r].id
  IN  /\ calls[r].pc = "update"
      /\ IF id \in Rows THEN Store(id, users[id].name, calls[r].role)
         ELSE UNCHANGED <<users, held>>
      /\ calls' = [calls EXCEPT ![r] = Idle]
      /\ UNCHANGED <<serial, tokens>>

\* The service restarts: the requests die, the tokens stay valid, and the
\* administrator's account is there again or has its role again.
SeedAdmin ==
  /\ \/ \E id \in RowsOf(Admin) : Store(id, Admin, "ADMIN") /\ UNCHANGED serial
     \/ /\ RowsOf(Admin) = {}
        /\ \E id \in Ids \ serial : Store(id, Admin, "ADMIN") /\ serial' = serial \cup {id}
  /\ calls' = [r \in Requests |-> Idle]
  /\ UNCHANGED tokens

Next ==
  \/ \E r \in Requests, id \in Ids : Authenticate(r, id)
  \/ \E r \in Requests : Login(r) \/ DeleteUser(r) \/ UpdateRole(r)
  \/ \E name \in Names : VehicleRegister(name) \/ handoverToken(NoUser, name)
  \/ \E token \in tokens :
       \/ Expire(token) \/ RefreshToken(token)
       \/ \E name \in Names : handoverToken(token, name)
       \/ \E id \in Ids, name \in Names, role \in Granted : CreateUser(token, id, name, role)
       \/ \E r \in Requests, id \in Ids :
            \/ FindUser(r, token, id, "delete", "OBSERVER")
            \/ \E role \in Granted : FindUser(r, token, id, "update", role)
  \/ SeedAdmin

Spec == Init /\ [][Next]_vars

-----------------------------------------------------------------------------
Call == [pc : {"idle", "login", "delete", "update"}, name : Names \cup {""},
         id : Ids \cup {NoUser}, role : OperatorRole]

\* The variables stay in their types, a name has at most one row, and a change
\* is only under way for an id that was handed out.
AccountsTypeOK ==
  /\ users \in [Ids -> User \cup {NoUser}]
  /\ serial \subseteq Ids /\ Rows \subseteq serial
  /\ tokens \subseteq Claims
  /\ calls \in [Requests -> Call]
  /\ \A i, j \in Rows : users[i].name = users[j].name => i = j
  /\ \A r \in Requests : calls[r].pc \in {"delete", "update"} => calls[r].id \in serial
  /\ held \subseteq Names \X OperatorRole

\* Whoever bears a token with a role had that role in the users table, through
\* any chain of logins, refreshes and handovers; only ACTIVE_OPERATOR, which a
\* handover gives, and VEHICLE are given to others.
RolesAreEarned ==
  \A token \in tokens :
    token.role \in {"ACTIVE_OPERATOR", "VEHICLE"} \/ <<token.subject, token.role>> \in held

Administrators == {users[id].name : id \in {i \in Rows : users[i].role = "ADMIN"}}

\* The last administrator is removed or demoted in two ways only, however many
\* requests, logins and restarts overlap: by a request whose token expired while
\* it was served, so that the guard against one's own account compared "", or by
\* a caller whose own account was removed or demoted after the token was issued
\* (two administrators who remove each other).  (A restart brings the seeded one
\* back.)
AdministratorsKeepOne ==
  [][Administrators # {} /\ Administrators' = {} =>
       \E r \in Requests : /\ calls[r].pc \in {"delete", "update"}
                           /\ calls'[r].pc = "idle"
                           /\ \/ calls[r].name = ""
                              \/ calls[r].name \notin Administrators]_vars
=============================================================================
