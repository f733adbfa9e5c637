--------------------------- MODULE AccountsProofs ---------------------------
(***************************************************************************)
(* The properties of Accounts for any number of names, ids, requests and   *)
(* tokens.  RolesAreEarned is not inductive: a login under way must carry  *)
(* a role that its row had (LoginsAreEarned), and so must the row it reads *)
(* (RowsAreHeld).  AdministratorsKeepOne needs that a change under way     *)
(* never comes to name the account of its own caller, which holds because  *)
(* an id is not handed out twice (ChangesAreOfOthers).                     *)
(***************************************************************************)
EXTENDS Accounts, TLAPS

\* A login under way carries a role that the name has had.
LoginsAreEarned ==
  \A r \in Requests : calls[r].pc = "login" => <<calls[r].name, calls[r].role>> \in held

\* Every row is part of the history.
RowsAreHeld == \A id \in Rows : <<users[id].name, users[id].role>> \in held

\* A change under way is to somebody else's account, if it is still there and
\* the caller's token was valid when the guard was evaluated.
ChangesAreOfOthers ==
  \A r \in Requests :
    calls[r].pc \in {"delete", "update"} /\ calls[r].id \in Rows =>
      users[calls[r].id].name # calls[r].name

AccountsInv ==
  /\ AccountsTypeOK
  /\ RolesAreEarned
  /\ LoginsAreEarned
  /\ RowsAreHeld
  /\ ChangesAreOfOthers

-----------------------------------------------------------------------------
\* The first start satisfies the invariant.
LEMMA InitHolds == Init => AccountsInv
<1> SUFFICES ASSUME Init PROVE AccountsInv
  OBVIOUS
<1>1. PICK id \in Ids :
        /\ users = [i \in Ids |-> IF i = id THEN [name |-> Admin, role |-> "ADMIN"] ELSE NoUser]
        /\ serial = {id}
  BY DEF Init
<1>2. [name |-> Admin, role |-> "ADMIN"] \in User
  BY AccountsAssumption DEF User, OperatorRole
<1>3. Rows = {id}
  BY <1>1, <1>2, AccountsAssumption DEF Rows
<1>4. Idle \in Call /\ Idle.pc = "idle"
  BY AccountsAssumption DEF Idle, Call, OperatorRole
<1>5. \A r \in Requests : calls[r].pc = "idle"
  BY <1>4 DEF Init
<1>6. AccountsTypeOK
  BY <1>1, <1>2, <1>3, <1>4, <1>5, AccountsAssumption
  DEF AccountsTypeOK, Init, User, OperatorRole
<1>7. RolesAreEarned /\ LoginsAreEarned /\ ChangesAreOfOthers
  BY <1>5 DEF Init, RolesAreEarned, LoginsAreEarned, ChangesAreOfOthers
<1>8. RowsAreHeld
  BY <1>1, <1>3 DEF Init, RowsAreHeld
<1> QED
  BY <1>6, <1>7, <1>8 DEF AccountsInv

-----------------------------------------------------------------------------
\* A new token keeps the invariant when its role was earned or is free for all.
LEMMA IssueKeeps ==
  ASSUME AccountsInv, UNCHANGED <<users, serial, held>>,
         NEW s \in Names, NEW ro \in OperatorRole, NEW ttl \in {"1h", "24h", "168h"},
         ro \in {"ACTIVE_OPERATOR", "VEHICLE"} \/ <<s, ro>> \in held,
         IssueToken(s, ro, ttl),
         calls' = calls
           \/ \E r \in Requests : calls' = [calls EXCEPT ![r] = Idle]
  PROVE  AccountsInv'
<1> DEFINE tk == [subject |-> s, role |-> ro, ttl |-> ttl]
<1>1. tk \in Claims /\ tk.subject = s /\ tk.role = ro
  BY DEF Claims
<1>2. tokens' = tokens \cup {tk}
  BY DEF IssueToken
<1>3. Idle \in Call /\ Idle.pc = "idle"
  BY AccountsAssumption DEF Idle, Call, OperatorRole
<1>4. Rows' = Rows
  BY DEF Rows
<1>5. calls' \in [Requests -> Call]
      /\ \A r \in Requests : calls'[r] = calls[r] \/ calls'[r].pc = "idle"
  BY <1>3 DEF AccountsInv, AccountsTypeOK
<1>6. AccountsTypeOK'
  BY <1>1, <1>2, <1>4, <1>5 DEF AccountsInv, AccountsTypeOK
<1>7. RolesAreEarned'
  BY <1>1, <1>2 DEF AccountsInv, RolesAreEarned
<1>8. LoginsAreEarned' /\ RowsAreHeld' /\ ChangesAreOfOthers'
  BY <1>4, <1>5 DEF AccountsInv, LoginsAreEarned, RowsAreHeld, ChangesAreOfOthers
<1> QED
  BY <1>6, <1>7, <1>8 DEF AccountsInv

\* A row that is written keeps the invariant when its id is new and its name is
\* not taken, or when it only changes the role of the row.
LEMMA StoreKeeps ==
  ASSUME AccountsInv, UNCHANGED tokens,
         NEW id \in Ids, NEW n \in Names, NEW ro \in OperatorRole,
         Store(id, n, ro),
         \/ id \in Rows /\ users[id].name = n /\ serial' = serial
         \/ id \notin serial /\ RowsOf(n) = {} /\ serial' = serial \cup {id},
         calls' \in [Requests -> Call],
         \A r \in Requests : calls'[r] = calls[r] \/ calls'[r].pc = "idle"
  PROVE  AccountsInv'
<1> DEFINE row == [name |-> n, role |-> ro]
<1>1. row \in User /\ row.name = n /\ row.role = ro /\ row # NoUser
  BY AccountsAssumption DEF User
<1>2. users' = [users EXCEPT ![id] = row] /\ users \in [Ids -> User \cup {NoUser}]
  BY DEF Store, AccountsInv, AccountsTypeOK
<1>3. Rows' = Rows \cup {id}
  BY <1>1, <1>2 DEF Rows
<1>4. users'[id] = row /\ \A i \in Ids : i # id => users'[i] = users[i]
  BY <1>2
<1>5. held' = held \cup {<<n, ro>>}
  BY DEF Store
<1>6. Rows \subseteq serial /\ id \in serial' /\ serial \subseteq serial' /\ serial' \subseteq Ids
  BY DEF AccountsInv, AccountsTypeOK
<1>7. \A i, j \in Rows' : users'[i].name = users'[j].name => i = j
  <2> SUFFICES ASSUME NEW i \in Rows, i # id, users[i].name = n
               PROVE  FALSE
    BY <1>1, <1>3, <1>4 DEF AccountsInv, AccountsTypeOK, Rows
  <2>1. CASE id \in Rows /\ users[id].name = n
    BY <2>1 DEF AccountsInv, AccountsTypeOK
  <2>2. CASE RowsOf(n) = {}
    BY <2>2 DEF RowsOf
  <2> QED
    BY <2>1, <2>2
<1>8. AccountsTypeOK'
  <2>1. users' \in [Ids -> User \cup {NoUser}]
    BY <1>1, <1>2
  <2>2. serial' \subseteq Ids /\ Rows' \subseteq serial'
    BY <1>3, <1>6
  <2>3. tokens' \subseteq Claims
    BY DEF AccountsInv, AccountsTypeOK
  <2>4. \A r \in Requests : calls'[r].pc \in {"delete", "update"} => calls'[r].id \in serial'
    BY <1>6 DEF AccountsInv, AccountsTypeOK
  <2>5. held' \subseteq Names \X OperatorRole
    BY <1>5 DEF AccountsInv, AccountsTypeOK
  <2> QED
    BY <1>7, <2>1, <2>2, <2>3, <2>4, <2>5 DEF AccountsTypeOK
<1>9. RolesAreEarned' /\ LoginsAreEarned'
  BY <1>5 DEF AccountsInv, RolesAreEarned, LoginsAreEarned
<1>10. RowsAreHeld'
  BY <1>1, <1>3, <1>4, <1>5 DEF AccountsInv, RowsAreHeld, Rows
<1>11. ChangesAreOfOthers'
  <2> SUFFICES ASSUME NEW r \in Requests, calls'[r].pc \in {"delete", "update"},
                      calls'[r].id \in Rows'
               PROVE  users'[calls'[r].id].name # calls'[r].name
    BY DEF ChangesAreOfOthers
  <2>1. calls'[r] = calls[r]
    OBVIOUS
  <2>2. calls[r].id \in serial
    BY <2>1 DEF AccountsInv, AccountsTypeOK
  <2>3. calls[r].id \in Rows /\ users'[calls[r].id].name = users[calls[r].id].name
    BY <1>1, <1>3, <1>4, <2>1, <2>2 DEF Rows
  <2> QED
    BY <2>1, <2>3 DEF AccountsInv, ChangesAreOfOthers
<1> QED
  BY <1>8, <1>9, <1>10, <1>11 DEF AccountsInv

\* A row that is deleted keeps the invariant, whoever asked for it.
LEMMA DeleteUserKeeps ==
  ASSUME AccountsInv, NEW r \in Requests, DeleteUser(r)
  PROVE  AccountsInv'
<1>1. Idle \in Call /\ Idle.pc = "idle"
  BY AccountsAssumption DEF Idle, Call, OperatorRole
<1>2. calls' \in [Requests -> Call]
      /\ \A q \in Requests : calls'[q] = calls[q] \/ calls'[q].pc = "idle"
  BY <1>1 DEF DeleteUser, AccountsInv, AccountsTypeOK
<1>3. users \in [Ids -> User \cup {NoUser}] /\ users' = [users EXCEPT ![calls[r].id] = NoUser]
  BY DEF DeleteUser, AccountsInv, AccountsTypeOK
<1>4. Rows' \subseteq Rows /\ \A i \in Rows' : users'[i] = users[i]
  BY <1>3 DEF Rows
<1>5. AccountsTypeOK'
  BY <1>2, <1>3, <1>4 DEF DeleteUser, AccountsInv, AccountsTypeOK
<1>6. RolesAreEarned' /\ LoginsAreEarned'
  BY <1>2 DEF DeleteUser, AccountsInv, RolesAreEarned, LoginsAreEarned
<1>7. RowsAreHeld' /\ ChangesAreOfOthers'
  BY <1>2, <1>4 DEF DeleteUser, AccountsInv, RowsAreHeld, ChangesAreOfOthers
<1> QED
  BY <1>5, <1>6, <1>7 DEF AccountsInv

\* A handler that has read a row keeps the invariant: a login carries a role of
\* the history, a change is to somebody else's account.
LEMMA ReadKeeps ==
  ASSUME AccountsInv, UNCHANGED <<users, serial, tokens, held>>,
         NEW r \in Requests, NEW c \in Call,
         calls' = [calls EXCEPT ![r] = c],
         c.pc = "login" => <<c.name, c.role>> \in held,
         c.pc \in {"delete", "update"} => c.id \in Rows /\ users[c.id].name # c.name
  PROVE  AccountsInv'
<1>1. Rows' = Rows /\ Rows \subseteq serial
  BY DEF Rows, AccountsInv, AccountsTypeOK
<1>2. calls' \in [Requests -> Call] /\ calls'[r] = c
      /\ \A q \in Requests : q # r => calls'[q] = calls[q]
  BY DEF AccountsInv, AccountsTypeOK
<1>3. AccountsTypeOK'
  BY <1>1, <1>2 DEF AccountsInv, AccountsTypeOK
<1>4. RolesAreEarned' /\ RowsAreHeld'
  BY <1>1 DEF AccountsInv, RolesAreEarned, RowsAreHeld
<1>5. LoginsAreEarned'
  BY <1>2 DEF AccountsInv, LoginsAreEarned
<1>6. ChangesAreOfOthers'
  BY <1>1, <1>2 DEF AccountsInv, ChangesAreOfOthers
<1> QED
  BY <1>3, <1>4, <1>5, <1>6 DEF AccountsInv

-----------------------------------------------------------------------------
\* Every step of the service keeps the invariant.
LEMMA NextKeeps ==
  ASSUME AccountsInv, [Next]_vars
  PROVE  AccountsInv'
<1> USE DEF AccountsInv, AccountsTypeOK
<1>1. Idle \in Call /\ Idle.pc = "idle"
  BY AccountsAssumption DEF Idle, Call, OperatorRole
<1>2. \A id \in Rows : id \in Ids /\ users[id] \in User
                       /\ users[id].name \in Names /\ users[id].role \in OperatorRole
  BY DEF Rows, User
<1>3. \A tk \in tokens : tk.subject \in Names /\ tk.role \in OperatorRole
  BY DEF Claims
<1>4. \A r \in Requests : /\ calls[r].role \in OperatorRole
                          /\ calls[r].pc = "login" => calls[r].name \in Names
  <2>1. \A n, ro : <<n, ro>> \in held => n \in Names
    OBVIOUS
  <2> QED
    BY <2>1 DEF Call, LoginsAreEarned
<1>5. CASE UNCHANGED vars
  BY <1>5 DEF vars, Rows, RolesAreEarned, LoginsAreEarned, RowsAreHeld, ChangesAreOfOthers
<1>6. ASSUME NEW r \in Requests, NEW id \in Ids, Authenticate(r, id) PROVE AccountsInv'
  <2> DEFINE c == [Idle EXCEPT !.pc = "login", !.name = users[id].name, !.role = users[id].role]
  <2>1. id \in Rows /\ UNCHANGED <<users, serial, tokens, held>> /\ calls' = [calls EXCEPT ![r] = c]
    BY <1>6 DEF Authenticate
  <2>2. c \in Call /\ c.pc = "login" /\ c.name = users[id].name /\ c.role = users[id].role
    BY <1>2, <2>1, AccountsAssumption DEF Idle, Call, OperatorRole
  <2>3. <<c.name, c.role>> \in held
    BY <2>1, <2>2 DEF RowsAreHeld
  <2> HIDE DEF c, AccountsInv, AccountsTypeOK
  <2> QED
    BY <2>1, <2>2, <2>3, ReadKeeps
<1>7. ASSUME NEW r \in Requests, Login(r) PROVE AccountsInv'
  <2>1. <<calls[r].name, calls[r].role>> \in held
    BY <1>7 DEF Login, LoginsAreEarned
  <2> HIDE DEF AccountsInv, AccountsTypeOK
  <2>2. calls[r].name \in Names /\ calls[r].role \in OperatorRole
    BY <1>4, <1>7 DEF Login
  <2> QED
    BY <1>7, <2>1, <2>2, IssueKeeps DEF Login
<1>8. ASSUME NEW r \in Requests, DeleteUser(r) PROVE AccountsInv'
  BY <1>8, DeleteUserKeeps
<1>9. ASSUME NEW r \in Requests, UpdateRole(r) PROVE AccountsInv'
  <2>1. calls' = [calls EXCEPT ![r] = Idle] /\ UNCHANGED <<serial, tokens>>
    BY <1>9 DEF UpdateRole
  <2>2. CASE calls[r].id \in Rows
    <3>1. Store(calls[r].id, users[calls[r].id].name, calls[r].role)
      BY <1>9, <2>2 DEF UpdateRole
    <3>2. calls' \in [Requests -> Call]
          /\ \A q \in Requests : calls'[q] = calls[q] \/ calls'[q].pc = "idle"
      BY <1>1, <2>1
    <3> HIDE DEF AccountsInv, AccountsTypeOK
    <3> QED
      BY <1>2, <1>4, <2>1, <2>2, <3>1, <3>2, StoreKeeps
  <2>3. CASE calls[r].id \notin Rows
    <3>1. UNCHANGED <<users, held>>
      BY <1>9, <2>3 DEF UpdateRole
    <3> HIDE DEF AccountsInv, AccountsTypeOK
    <3> QED
      BY <1>1, <2>1, <3>1, ReadKeeps
  <2> QED
    BY <2>2, <2>3
<1>10. ASSUME NEW name \in Names, NEW current, VehicleRegister(name) \/ handoverToken(current, name)
       PROVE  AccountsInv'
  <2> HIDE DEF AccountsInv, AccountsTypeOK
  <2>1. {"ACTIVE_OPERATOR", "VEHICLE"} \subseteq OperatorRole
    BY DEF OperatorRole
  <2> QED
    BY <1>10, <2>1, IssueKeeps DEF VehicleRegister, handoverToken
<1>11. ASSUME NEW tk \in tokens, Expire(tk) PROVE AccountsInv'
  BY <1>11 DEF Expire, Rows, RolesAreEarned, LoginsAreEarned, RowsAreHeld, ChangesAreOfOthers
<1>12. ASSUME NEW tk \in tokens, RefreshToken(tk) PROVE AccountsInv'
  <2>1. tk.role \in {"ACTIVE_OPERATOR", "VEHICLE"} \/ <<tk.subject, tk.role>> \in held
    BY DEF RolesAreEarned
  <2> HIDE DEF AccountsInv, AccountsTypeOK
  <2> QED
    BY <1>3, <1>12, <2>1, IssueKeeps DEF RefreshToken
<1>13. ASSUME NEW tk \in tokens, NEW id \in Ids, NEW name \in Names, NEW role \in Granted,
              CreateUser(tk, id, name, role)
       PROVE  AccountsInv'
  <2>1. role \in OperatorRole
    BY AccountsAssumption
  <2>2. calls' = calls /\ calls \in [Requests -> Call]
    BY <1>13 DEF CreateUser
  <2> HIDE DEF AccountsInv, AccountsTypeOK
  <2> QED
    BY <1>13, <2>1, <2>2, StoreKeeps DEF CreateUser
<1>14. ASSUME NEW tk \in tokens, NEW r \in Requests, NEW id \in Ids, NEW role \in OperatorRole,
              NEW pc \in {"delete", "update"}, FindUser(r, tk, id, pc, role)
       PROVE  AccountsInv'
  <2>0. PICK caller \in {tk.subject, ""} :
          /\ users[id].name # caller
          /\ calls' = [calls EXCEPT ![r] = [pc |-> pc, name |-> caller, id |-> id, role |-> role]]
    BY <1>14 DEF FindUser, canModifyUser, callerID
  <2> DEFINE c == [pc |-> pc, name |-> caller, id |-> id, role |-> role]
  <2>1. c \in Call /\ c.pc # "login" /\ c.id = id /\ c.name = caller
    BY <1>3, <2>0 DEF Call
  <2>2. id \in Rows /\ users[id].name # caller
        /\ UNCHANGED <<users, serial, tokens, held>> /\ calls' = [calls EXCEPT ![r] = c]
    BY <1>14, <2>0 DEF FindUser
  <2> HIDE DEF c, AccountsInv, AccountsTypeOK
  <2> QED
    BY <2>1, <2>2, ReadKeeps
<1>15. CASE SeedAdmin
  <2>1. calls' \in [Requests -> Call] /\ \A q \in Requests : calls'[q].pc = "idle"
    BY <1>1, <1>15 DEF SeedAdmin
  <2>2. Admin \in Names /\ "ADMIN" \in OperatorRole /\ UNCHANGED tokens
    BY <1>15, AccountsAssumption DEF SeedAdmin, OperatorRole
  <2>3. \E id \in Ids :
          /\ Store(id, Admin, "ADMIN")
          /\ \/ id \in Rows /\ users[id].name = Admin /\ serial' = serial
             \/ id \notin serial /\ RowsOf(Admin) = {} /\ serial' = serial \cup {id}
    BY <1>2, <1>15 DEF SeedAdmin, RowsOf
  <2> HIDE DEF AccountsInv, AccountsTypeOK
  <2> QED
    BY <2>1, <2>2, <2>3, StoreKeeps
<1> HIDE DEF AccountsInv, AccountsTypeOK
<1>16. "OBSERVER" \in OperatorRole /\ Granted \subseteq OperatorRole
  BY AccountsAssumption DEF OperatorRole
<1> QED
  BY <1>5, <1>6, <1>7, <1>8, <1>9, <1>10, <1>11, <1>12, <1>13, <1>14, <1>15, <1>16 DEF Next

-----------------------------------------------------------------------------
\* The invariant holds in every state of the service.
LEMMA Invariance == Spec => []AccountsInv
<1>1. AccountsInv /\ [Next]_vars => AccountsInv'
  BY NextKeeps
<1> QED
  BY <1>1, InitHolds, PTL DEF Spec

\* The tables and the requests stay in their types, and a user name has at most
\* one row (the UNIQUE column, the serial ids and the seeding at a restart).
THEOREM AccountsTypeCorrect == Spec => []AccountsTypeOK
<1>1. AccountsInv => AccountsTypeOK
  BY DEF AccountsInv
<1> QED
  BY <1>1, Invariance, PTL

\* No chain of logins, refreshes and handovers ends in a role that its bearer
\* never had in the users table, other than the two that are given freely.
THEOREM RolesSafety == Spec => []RolesAreEarned
<1>1. AccountsInv => RolesAreEarned
  BY DEF AccountsInv
<1> QED
  BY <1>1, Invariance, PTL

\* A step that removes the last administrator is a delete or a change of role
\* whose caller is no administrator any more, or is not known any more.
LEMMA LastAdministrator ==
  ASSUME AccountsInv, [Next]_vars, Administrators # {}, Administrators' = {}
  PROVE  \E r \in Requests : /\ calls[r].pc \in {"delete", "update"}
                             /\ calls'[r].pc = "idle"
                             /\ \/ calls[r].name = ""
                                \/ calls[r].name \notin Administrators
<1>1. PICK a \in Rows : users[a].role = "ADMIN"
  BY DEF Administrators
<1>2. \A i \in Ids : ~(i \in Rows' /\ users'[i].role = "ADMIN")
  BY DEF Administrators, Rows
<1>3. users[a] # NoUser /\ a \in Ids /\ users \in [Ids -> User \cup {NoUser}]
  BY <1>1 DEF Rows, AccountsInv, AccountsTypeOK
<1>4. users' # users
  BY <1>1, <1>2, <1>3 DEF Rows
<1>5. \A id \in Ids, n \in Names : ~Store(id, n, "ADMIN")
  <2> SUFFICES ASSUME NEW id \in Ids, NEW n \in Names, Store(id, n, "ADMIN") PROVE FALSE
    OBVIOUS
  <2>1. [name |-> n, role |-> "ADMIN"] \in User
    BY DEF User, OperatorRole
  <2> QED
    BY <1>2, <1>3, <2>1, AccountsAssumption DEF Store, Rows
<1>6. \A id \in Ids, n \in Names, ro \in OperatorRole : Store(id, n, ro) => id = a
  BY <1>1, <1>2, <1>3 DEF Store, Rows
<1>7. ~SeedAdmin
  BY <1>5, AccountsAssumption DEF SeedAdmin, RowsOf, Rows
<1>8. \A tk, id, n, ro : ~(id \in Ids /\ n \in Names /\ ro \in Granted /\ CreateUser(tk, id, n, ro))
  BY <1>1, <1>6, AccountsAssumption DEF CreateUser, AccountsInv, AccountsTypeOK
<1>9. PICK r \in Requests : DeleteUser(r) \/ UpdateRole(r)
  BY <1>4, <1>7, <1>8
  DEF Next, vars, Authenticate, Login, VehicleRegister, handoverToken, Expire, RefreshToken, FindUser
<1>10. calls[r].pc \in {"delete", "update"} /\ calls'[r].pc = "idle"
  BY <1>9 DEF DeleteUser, UpdateRole, Idle, AccountsInv, AccountsTypeOK
<1>11. \A i \in Ids : i # calls[r].id => users'[i] = users[i]
  BY <1>3, <1>9 DEF DeleteUser, UpdateRole, Store
<1>12. \A i \in Rows : users[i].role = "ADMIN" => i = calls[r].id
  BY <1>2, <1>11 DEF Rows
<1>13. users[calls[r].id].name # calls[r].name
  BY <1>1, <1>10, <1>12 DEF AccountsInv, ChangesAreOfOthers
<1>14. calls[r].name \notin Administrators
  BY <1>12, <1>13 DEF Administrators
<1> QED
  BY <1>10, <1>14

\* The last administrator is removed by a request whose token expired while it
\* was served or by a caller who is no administrator any more, and in no other
\* way, however many requests are under way: an id that canModifyUser has checked
\* never comes to name another account.
THEOREM LastAdministratorSafety == Spec => AdministratorsKeepOne
<1>1. AccountsInv /\ [Next]_vars =>
        [Administrators # {} /\ Administrators' = {} =>
           \E r \in Requests : /\ calls[r].pc \in {"delete", "update"}
                               /\ calls'[r].pc = "idle"
                               /\ \/ calls[r].name = ""
                                  \/ calls[r].name \notin Administrators]_vars
  BY LastAdministrator
<1> QED
  BY <1>1, Invariance, PTL DEF Spec, AdministratorsKeepOne
=============================================================================
