---------------------------- MODULE UsersProofs ----------------------------
(***************************************************************************)
(* Theorems of Users, for any addresses, slots and bound.  Whatever a      *)
(* request has checked still holds when it writes unless another request   *)
(* has written in between (UnracedSound): that is the inductive invariant, *)
(* and the guards of the handlers are sound up to that race.               *)
(***************************************************************************)
EXTENDS Users, TLAPS

\* A slot's new request is typed and sound, the others keep theirs.
LEMMA RequestStep ==
    ASSUME IInv, NEW s \in Slot, NEW r \in Request, UNCHANGED users,
           req' = [req EXCEPT ![s] = r], UnracedSound(r)
    PROVE  IInv'
<1>1. TypeOK' BY DEF IInv, TypeOK, UserId
<1>2. OneAccountEach' BY DEF IInv, OneAccountEach, UserId
<1>3. ASSUME NEW t \in Slot PROVE UnracedSound(req[t])'
  <2>1. CASE t = s
    BY <2>1 DEF IInv, TypeOK, UnracedSound, UserId, LastAdmin, Admins
  <2>2. CASE t # s
    <3>1. req'[t] = req[t] BY <2>2 DEF IInv, TypeOK
    <3>2. UnracedSound(req[t]) BY DEF IInv
    <3>. QED BY <3>1, <3>2 DEF UnracedSound, UserId, LastAdmin, Admins
  <2>. QED BY <2>1, <2>2
<1>. QED BY <1>1, <1>2, <1>3 DEF IInv

LEMMA RefuseKeeps ==
    ASSUME IInv, NEW s \in Slot, Refuse(s)
    PROVE  IInv'
<1>1. Idle \in Request /\ UnracedSound(Idle) BY DEF Request, UnracedSound
<1>. QED BY <1>1, RequestStep DEF Refuse

\* Writing the table answers one request and marks the others as raced.
LEMMA WriteKeeps ==
    ASSUME IInv, NEW s \in Slot, NEW table, Write(s, table),
           DOMAIN table \subseteq Nat, table \in [DOMAIN table -> User],
           \A i, j \in DOMAIN table : table[i].email = table[j].email => i = j
    PROVE  IInv'
<1>1. users' = table BY DEF Write
<1>2. ASSUME NEW t \in Slot
      PROVE  req'[t] \in Request /\ UnracedSound(req[t])'
  <2>1. req[t] \in Request BY DEF IInv, TypeOK
  <2>2. CASE t = s
    <3>1. req'[t] = Idle BY <2>2 DEF Write
    <3>. QED BY <3>1 DEF Request, UnracedSound
  <2>3. CASE t # s /\ (req[t] = Idle \/ table = users)
    <3>1. req'[t] = req[t] BY <2>3 DEF Write
    <3>2. CASE req[t] = Idle
      BY <3>1, <3>2 DEF Request, UnracedSound
    <3>3. CASE users' = users
      <4>1. UnracedSound(req[t]) BY DEF IInv
      <4>. QED BY <2>1, <3>1, <3>3, <4>1 DEF UnracedSound, UserId, LastAdmin, Admins
    <3>. QED BY <1>1, <2>3, <3>2, <3>3
  <2>4. CASE t # s /\ req[t] # Idle /\ table # users
    <3>1. req'[t] = [req[t] EXCEPT !.raced = TRUE] BY <2>4 DEF Write
    <3>2. req'[t] \in Request /\ req'[t].raced BY <2>1, <2>4, <3>1 DEF Request
    <3>. QED BY <3>2 DEF UnracedSound
  <2>. QED BY <2>2, <2>3, <2>4
<1>3. req' \in [Slot -> Request] BY <1>2 DEF Write
<1>4. TypeOK' BY <1>1, <1>3 DEF TypeOK, UserId
<1>5. OneAccountEach' BY <1>1 DEF OneAccountEach, UserId
<1>. QED BY <1>2, <1>4, <1>5 DEF IInv

\* The tables the handlers write are tables of accounts with distinct addresses.
LEMMA TablesInOrder ==
    ASSUME IInv
    PROVE  /\ \A i \in Nat, row \in User :
                (i \notin UserId /\ \A j \in UserId : users[j].email # row.email)
                => /\ DOMAIN WithRow(i, row) \subseteq Nat
                   /\ WithRow(i, row) \in [DOMAIN WithRow(i, row) -> User]
                   /\ \A j, k \in DOMAIN WithRow(i, row) :
                        WithRow(i, row)[j].email = WithRow(i, row)[k].email => j = k
           /\ \A i : /\ DOMAIN Without(i) \subseteq Nat
                     /\ Without(i) \in [DOMAIN Without(i) -> User]
                     /\ \A j, k \in DOMAIN Without(i) :
                          Without(i)[j].email = Without(i)[k].email => j = k
<1>. USE DEF IInv, TypeOK, OneAccountEach, UserId
<1>1. ASSUME NEW i \in Nat, NEW row \in User, i \notin UserId,
             \A j \in UserId : users[j].email # row.email
      PROVE  /\ DOMAIN WithRow(i, row) \subseteq Nat
             /\ WithRow(i, row) \in [DOMAIN WithRow(i, row) -> User]
             /\ \A j, k \in DOMAIN WithRow(i, row) :
                  WithRow(i, row)[j].email = WithRow(i, row)[k].email => j = k
  BY <1>1 DEF WithRow
<1>2. ASSUME NEW i
      PROVE  /\ DOMAIN Without(i) \subseteq Nat
             /\ Without(i) \in [DOMAIN Without(i) -> User]
             /\ \A j, k \in DOMAIN Without(i) :
                  Without(i)[j].email = Without(i)[k].email => j = k
  BY DEF Without
<1>. QED BY <1>1, <1>2

\* A new password changes neither the ids nor the addresses.
LEMMA PasswordTable ==
    ASSUME IInv, NEW i, NEW pw \in Email
    PROVE  /\ DOMAIN WithPassword(i, pw) = UserId
           /\ WithPassword(i, pw) \in [UserId -> User]
           /\ \A j \in UserId : WithPassword(i, pw)[j].email = users[j].email
  BY DEF IInv, TypeOK, UserId, WithPassword, User


\* Nor does the admin flag.
LEMMA AdminTable ==
    ASSUME IInv, NEW i, NEW admin \in BOOLEAN
    PROVE  /\ DOMAIN WithAdmin(i, admin) = UserId
           /\ WithAdmin(i, admin) \in [UserId -> User]
           /\ \A j \in UserId : WithAdmin(i, admin)[j].email = users[j].email
  BY DEF IInv, TypeOK, UserId, WithAdmin, User

LEMMA AuthenticateKeeps ==
    ASSUME IInv, NEW s \in Slot, NEW who \in Email, NEW op \in Op, Authenticate(s, who, op)
    PROVE  IInv'
<1>1. PICK i \in UserId :
        /\ users[i].email = who
        /\ op \in ManageOp => users[i].admin
        /\ req' = [req EXCEPT ![s] = [pc |-> "authed", op |-> op, who |-> who,
                                      caller |-> i, raced |-> FALSE]]
  BY DEF Authenticate
<1> DEFINE r == [pc |-> "authed", op |-> op, who |-> who, caller |-> i, raced |-> FALSE]
<1>2. r \in Request BY DEF IInv, TypeOK, Request
<1>3. UnracedSound(r) BY <1>1 DEF UnracedSound
<1>4. UNCHANGED users BY DEF Authenticate
<1>. QED BY <1>1, <1>2, <1>3, <1>4, RequestStep

LEMMA ChangeMyPasswordKeeps ==
    ASSUME IInv, NEW s \in Slot, HandleChangeMyPassword(s)
    PROVE  IInv'
<1>1. PICK pw \in Email : pw = req[s].who
  BY DEF IInv, TypeOK, Request, Idle, HandleChangeMyPassword
<1> DEFINE table == WithPassword(req[s].caller, pw)
<1>2. /\ DOMAIN table = UserId
      /\ table \in [UserId -> User]
      /\ \A j \in UserId : table[j].email = users[j].email
  BY PasswordTable
<1>3. UserId \subseteq Nat /\ OneAccountEach BY DEF IInv, TypeOK
<1>4. Write(s, table) BY <1>1 DEF HandleChangeMyPassword
<1> HIDE DEF table
<1>5. DOMAIN table \subseteq Nat BY <1>2, <1>3
<1>6. table \in [DOMAIN table -> User] BY <1>2
<1>7. \A i, j \in DOMAIN table : table[i].email = table[j].email => i = j
  BY <1>2, <1>3 DEF OneAccountEach
<1>. QED BY <1>4, <1>5, <1>6, <1>7, WriteKeeps

LEMMA ResetUserPasswordKeeps ==
    ASSUME IInv, NEW s \in Slot, HandleResetUserPassword(s)
    PROVE  IInv'
<1>1. PICK pw \in Email : pw = req[s].email
  BY DEF IInv, TypeOK, Request, Idle, HandleResetUserPassword
<1> DEFINE table == WithPassword(req[s].target, pw)
<1>2. /\ DOMAIN table = UserId
      /\ table \in [UserId -> User]
      /\ \A j \in UserId : table[j].email = users[j].email
  BY PasswordTable
<1>3. UserId \subseteq Nat /\ OneAccountEach BY DEF IInv, TypeOK
<1>4. Write(s, table) BY <1>1 DEF HandleResetUserPassword
<1> HIDE DEF table
<1>5. DOMAIN table \subseteq Nat BY <1>2, <1>3
<1>6. table \in [DOMAIN table -> User] BY <1>2
<1>7. \A i, j \in DOMAIN table : table[i].email = table[j].email => i = j
  BY <1>2, <1>3 DEF OneAccountEach
<1>. QED BY <1>4, <1>5, <1>6, <1>7, WriteKeeps

LEMMA SetUserAdminKeeps ==
    ASSUME IInv, NEW s \in Slot, HandleSetUserAdmin(s)
    PROVE  IInv'
<1> DEFINE table == WithAdmin(req[s].target, req[s].op = "promote")
<1>1. (req[s].op = "promote") \in BOOLEAN OBVIOUS
<1>2. /\ DOMAIN table = UserId
      /\ table \in [UserId -> User]
      /\ \A j \in UserId : table[j].email = users[j].email
  BY <1>1, AdminTable
<1>3. UserId \subseteq Nat /\ OneAccountEach BY DEF IInv, TypeOK
<1>4. Write(s, table) BY DEF HandleSetUserAdmin
<1> HIDE DEF table
<1>5. DOMAIN table \subseteq Nat BY <1>2, <1>3
<1>6. table \in [DOMAIN table -> User] BY <1>2
<1>7. \A i, j \in DOMAIN table : table[i].email = table[j].email => i = j
  BY <1>2, <1>3 DEF OneAccountEach
<1>. QED BY <1>4, <1>5, <1>6, <1>7, WriteKeeps

LEMMA DeleteUserKeeps ==
    ASSUME IInv, NEW s \in Slot, HandleDeleteUser(s)
    PROVE  IInv'
<1> DEFINE table == Without(req[s].target)
<1>1. /\ DOMAIN table \subseteq Nat
      /\ table \in [DOMAIN table -> User]
      /\ \A j, k \in DOMAIN table : table[j].email = table[k].email => j = k
  BY TablesInOrder
<1>2. Write(s, table) BY DEF HandleDeleteUser
<1> HIDE DEF table
<1>. QED BY <1>1, <1>2, WriteKeeps

\* An INSERT of an address that the table does not have.
LEMMA InsertKeeps ==
    ASSUME IInv, NEW s \in Slot, NEW i \in Nat, NEW row \in User, NewId(i),
           \A j \in UserId : users[j].email # row.email,
           Write(s, WithRow(i, row))
    PROVE  IInv'
<1> DEFINE table == WithRow(i, row)
<1>1. i \notin UserId BY DEF NewId, IInv, TypeOK
<1>2. /\ DOMAIN table \subseteq Nat
      /\ table \in [DOMAIN table -> User]
      /\ \A j, k \in DOMAIN table : table[j].email = table[k].email => j = k
  BY <1>1, TablesInOrder
<1>3. Write(s, table) OBVIOUS
<1> HIDE DEF table
<1>. QED BY <1>2, <1>3, WriteKeeps

LEMMA SetupKeeps ==
    ASSUME IInv, NEW s \in Slot, NEW email \in Email, HandleSetup(s, email)
    PROVE  IInv'
<1> DEFINE row == [email |-> email, admin |-> TRUE, pw |-> email]
<1>1. row \in User BY DEF User
<1>2. UserId = {} BY DEF HandleSetup
<1>3. NewId(1) BY <1>2 DEF NewId
<1>4. Write(s, WithRow(1, row)) BY DEF HandleSetup
<1> HIDE DEF row
<1>. QED BY <1>1, <1>2, <1>3, <1>4, InsertKeeps

LEMMA CreateUserKeeps ==
    ASSUME IInv, NEW s \in Slot, NEW email \in Email, NEW admin \in BOOLEAN,
           HandleCreateUser(s, email, admin)
    PROVE  IInv'
<1> DEFINE row == [email |-> email, admin |-> admin, pw |-> email]
<1>1. row \in User /\ row.email = email BY DEF User
<1>2. CASE \E i \in UserId : users[i].email = email
  BY <1>2, RefuseKeeps DEF HandleCreateUser
<1>3. CASE ~ \E i \in UserId : users[i].email = email
  <2>1. PICK i \in 1 .. MaxId : NewId(i) /\ Write(s, WithRow(i, row))
    BY <1>3 DEF HandleCreateUser
  <2>2. i \in Nat BY IdAssumption
  <2>3. \A j \in UserId : users[j].email # row.email BY <1>1, <1>3
  <2> HIDE DEF row
  <2>. QED BY <1>1, <2>1, <2>2, <2>3, InsertKeeps
<1>. QED BY <1>2, <1>3

LEMMA UserByParamKeeps ==
    ASSUME IInv, NEW s \in Slot, NEW i \in UserId, UserByParam(s, i)
    PROVE  IInv'
<1> DEFINE r == [pc |-> "found", op |-> req[s].op, who |-> req[s].who,
                 caller |-> req[s].caller, target |-> i, email |-> users[i].email,
                 admin |-> users[i].admin, raced |-> req[s].raced]
<1>1. CASE req[s].op = "delete" /\ i = req[s].caller
  BY <1>1, RefuseKeeps DEF UserByParam
<1>2. CASE ~(req[s].op = "delete" /\ i = req[s].caller)
  <2>1. UNCHANGED users /\ req' = [req EXCEPT ![s] = r] BY <1>2 DEF UserByParam
  <2>2. PICK q \in Request : q = req[s] BY DEF IInv, TypeOK
  <2>3. /\ q.pc = "authed" /\ q.op \in TargetOp
        /\ q.who \in Email /\ q.caller \in Nat /\ q.raced \in BOOLEAN
    BY <2>2 DEF UserByParam, Request, Idle
  <2>4. i \in Nat /\ users[i].email \in Email /\ users[i].admin \in BOOLEAN
    BY DEF IInv, TypeOK, User
  <2>5. r \in Request BY <2>2, <2>3, <2>4 DEF Request
  <2>6. UnracedSound(q) BY <2>2 DEF IInv
  <2>7. q # Idle /\ r # Idle BY <2>3 DEF Idle
  <2>8. UnracedSound(r)
    BY <1>2, <2>2, <2>3, <2>6, <2>7 DEF UnracedSound
  <2> HIDE DEF r
  <2>. QED BY <2>1, <2>5, <2>8, RequestStep
<1>. QED BY <1>1, <1>2

LEMMA CountAdminsKeeps ==
    ASSUME IInv, NEW s \in Slot, CountAdmins(s)
    PROVE  IInv'
<1> DEFINE r == [req[s] EXCEPT !.pc = "counted"]
<1>1. CASE LastAdmin
  BY <1>1, RefuseKeeps DEF CountAdmins
<1>2. CASE ~LastAdmin
  <2>1. UNCHANGED users /\ req' = [req EXCEPT ![s] = r]
    BY <1>2 DEF CountAdmins
  <2>2. PICK q \in Request : q = req[s] BY DEF IInv, TypeOK
  <2>3. /\ q \in [pc : {"found", "counted"}, op : TargetOp, who : Email, caller : Nat,
                  target : Nat, email : Email, admin : BOOLEAN, raced : BOOLEAN]
        /\ q.pc = "found" /\ q.op = "demote"
    BY <2>2 DEF CountAdmins, Request, Idle
  <2>4. r \in Request /\ r.pc = "counted" /\ r # Idle /\ q # Idle
    BY <2>2, <2>3 DEF Request, Idle
  <2>5. UnracedSound(q) BY <2>2 DEF IInv
  <2>6. UnracedSound(r)
    BY <1>2, <2>2, <2>3, <2>4, <2>5 DEF UnracedSound
  <2> HIDE DEF r
  <2>. QED BY <2>1, <2>4, <2>6, RequestStep
<1>. QED BY <1>1, <1>2

LEMMA StutterKeeps == IInv /\ UNCHANGED vars => IInv'
  BY DEF IInv, TypeOK, OneAccountEach, UnracedSound, UserId, LastAdmin, Admins, vars

LEMMA InitInv == Init => IInv
  BY DEF Init, IInv, TypeOK, OneAccountEach, UnracedSound, UserId, Request, Idle

LEMMA NextInv == IInv /\ [Next]_vars => IInv'
<1>. SUFFICES ASSUME IInv, [Next]_vars PROVE IInv' OBVIOUS
<1>1. CASE UNCHANGED vars BY <1>1, StutterKeeps
<1>2. CASE Next
  <2>1. PICK s \in Slot :
          \/ \E email \in Email : HandleSetup(s, email)
          \/ \E who \in Email, op \in Op : Authenticate(s, who, op)
          \/ HandleChangeMyPassword(s)
          \/ \E email \in Email, admin \in BOOLEAN : HandleCreateUser(s, email, admin)
          \/ \E i \in UserId : UserByParam(s, i)
          \/ HandleDeleteUser(s)
          \/ CountAdmins(s)
          \/ HandleSetUserAdmin(s)
          \/ HandleResetUserPassword(s)
          \/ GiveUp(s)
    BY <1>2 DEF Next
  <2>2. CASE \E email \in Email : HandleSetup(s, email) BY <2>2, SetupKeeps
  <2>3. CASE \E who \in Email, op \in Op : Authenticate(s, who, op)
    BY <2>3, AuthenticateKeeps
  <2>4. CASE HandleChangeMyPassword(s) BY <2>4, ChangeMyPasswordKeeps
  <2>5. CASE \E email \in Email, admin \in BOOLEAN : HandleCreateUser(s, email, admin)
    BY <2>5, CreateUserKeeps
  <2>6. CASE \E i \in UserId : UserByParam(s, i) BY <2>6, UserByParamKeeps
  <2>7. CASE HandleDeleteUser(s) BY <2>7, DeleteUserKeeps
  <2>8. CASE CountAdmins(s) BY <2>8, CountAdminsKeeps
  <2>9. CASE HandleSetUserAdmin(s) BY <2>9, SetUserAdminKeeps
  <2>10. CASE HandleResetUserPassword(s) BY <2>10, ResetUserPasswordKeeps
  <2>11. CASE GiveUp(s) BY <2>11, RefuseKeeps DEF GiveUp
  <2>. QED BY <2>1, <2>2, <2>3, <2>4, <2>5, <2>6, <2>7, <2>8, <2>9, <2>10, <2>11
<1>. QED BY <1>1, <1>2

\* The accounts and the requests keep their types, every address has at most one
\* account, and what an unraced request has read is still what the table says
\* (users.go of the store and of the server).
THEOREM Invariance == Spec => []IInv
  BY InitInv, NextInv, PTL DEF Spec

\* An address has one account, whatever setups and creations run beside each other
\* (CreateFirstAdmin and CreateUser).
THEOREM UniqueAccounts == Spec => []OneAccountEach
<1>1. IInv => OneAccountEach BY DEF IInv
<1>. QED BY <1>1, Invariance, PTL

----------------------------------------------------------------------------
(* What a step may do to the accounts *)

\* A request whose slot is raced loses the race when it writes.
LEMMA RacedWrite ==
    ASSUME NEW s \in Slot, NEW table, Write(s, table), req[s] # Idle, req[s].raced
    PROVE  LosesRace
<1>1. req'[s] = Idle BY DEF Write
<1>. QED BY <1>1 DEF LosesRace

\* A step leaves the table alone, or it is one of the six writes.
LEMMA StepWrites ==
    ASSUME [Next]_vars, users' # users
    PROVE  \E s \in Slot :
             \/ \E email \in Email : HandleSetup(s, email)
             \/ HandleChangeMyPassword(s)
             \/ \E email \in Email, admin \in BOOLEAN :
                  /\ HandleCreateUser(s, email, admin)
                  /\ \E i \in 1 .. MaxId :
                       NewId(i) /\ Write(s, WithRow(i, [email |-> email, admin |-> admin, pw |-> email]))
             \/ HandleDeleteUser(s)
             \/ HandleSetUserAdmin(s)
             \/ HandleResetUserPassword(s)
<1>1. Next BY DEF vars
<1>. QED BY <1>1 DEF Next, Authenticate, UserByParam, CountAdmins, GiveUp, Refuse, HandleCreateUser

\* A request that has found its target and lost no race knows both rows.
LEMMA FoundSound ==
    ASSUME IInv, NEW s \in Slot, req[s].pc \in {"found", "counted"}
    PROVE  /\ req[s] # Idle
           /\ req[s].raced \in BOOLEAN
           /\ req[s].op \in TargetOp
           /\ req[s].email \in Email
           /\ ~req[s].raced =>
                /\ req[s].caller \in UserId
                /\ users[req[s].caller].admin
                /\ req[s].target \in UserId
                /\ users[req[s].target].email = req[s].email
                /\ users[req[s].target].admin = req[s].admin
                /\ req[s].op = "delete" => req[s].target # req[s].caller
                /\ req[s].pc = "counted" => req[s].op = "demote" /\ ~LastAdmin
<1>1. PICK q \in Request : q = req[s] BY DEF IInv, TypeOK
<1>2. q # Idle BY <1>1 DEF Idle
<1>3. q.raced \in BOOLEAN /\ q.op \in TargetOp /\ q.email \in Email
  BY <1>1 DEF Request, Idle
<1>4. UnracedSound(q) BY <1>1 DEF IInv
<1>5. q.op \in ManageOp BY <1>3 DEF ManageOp
<1>. QED BY <1>1, <1>2, <1>3, <1>4, <1>5 DEF UnracedSound

\* The same for one that only passed requireOperator.
LEMMA AuthedSound ==
    ASSUME IInv, NEW s \in Slot, req[s].pc = "authed"
    PROVE  /\ req[s] # Idle
           /\ req[s].raced \in BOOLEAN
           /\ req[s].who \in Email
           /\ ~req[s].raced =>
                /\ req[s].caller \in UserId
                /\ users[req[s].caller].email = req[s].who
                /\ req[s].op \in ManageOp => users[req[s].caller].admin
<1>1. PICK q \in Request : q = req[s] BY DEF IInv, TypeOK
<1>2. q # Idle BY <1>1 DEF Idle
<1>3. q.raced \in BOOLEAN /\ q.who \in Email BY <1>1 DEF Request, Idle
<1>4. UnracedSound(q) BY <1>1 DEF IInv
<1>. QED BY <1>1, <1>2, <1>3, <1>4 DEF UnracedSound

LEMMA DeleteKeepsAdmin ==
    ASSUME IInv, NEW s \in Slot, HandleDeleteUser(s), Admins' = {}
    PROVE  LosesRace
<1>1. req[s].pc = "found" /\ req[s].op = "delete" /\ Write(s, Without(req[s].target))
  BY DEF HandleDeleteUser
<1>2. CASE req[s].raced BY <1>1, <1>2, FoundSound, RacedWrite
<1>3. CASE ~req[s].raced
  <2>1. /\ req[s].caller \in UserId /\ users[req[s].caller].admin
        /\ req[s].target # req[s].caller
    BY <1>1, <1>3, FoundSound
  <2>2. users' = Without(req[s].target) BY <1>1 DEF Write
  <2>3. req[s].caller \in Admins' BY <2>1, <2>2 DEF Admins, UserId, Without
  <2>. QED BY <2>3
<1>. QED BY <1>1, <1>2, <1>3, FoundSound

LEMMA SetAdminKeepsAdmin ==
    ASSUME IInv, NEW s \in Slot, HandleSetUserAdmin(s), Admins # {}, Admins' = {}
    PROVE  LosesRace
<1> DEFINE i == req[s].target
<1> DEFINE promote == req[s].op = "promote"
<1>1. req[s].pc \in {"found", "counted"} /\ Write(s, WithAdmin(i, promote))
  BY DEF HandleSetUserAdmin
<1>2. users' = WithAdmin(i, promote) BY <1>1 DEF Write
<1>3. users \in [UserId -> User] BY DEF IInv, TypeOK
<1>4. \A j \in UserId : j # i => j \in UserId' /\ users'[j] = users[j]
  BY <1>2, <1>3 DEF WithAdmin, UserId
<1>5. CASE req[s].raced BY <1>1, <1>5, FoundSound, RacedWrite
<1>6. CASE ~req[s].raced
  <2>1. i \in UserId /\ users[i].admin = req[s].admin
    BY <1>1, <1>6, FoundSound
  <2>2. i \in UserId' /\ users'[i].admin = promote
    BY <1>2, <1>3, <2>1 DEF WithAdmin, UserId, User
  <2>3. CASE req[s].pc = "found" /\ req[s].op = "promote"
    BY <2>2, <2>3 DEF Admins
  <2>4. CASE req[s].pc = "found" /\ ~req[s].admin
    <3>1. PICK a \in Admins : TRUE OBVIOUS
    <3>2. a \in UserId /\ a # i BY <2>1, <2>4 DEF Admins
    <3>3. a \in Admins' BY <1>4, <3>2 DEF Admins
    <3>. QED BY <3>3
  <2>5. CASE req[s].pc = "counted"
    <3>1. ~LastAdmin BY <1>1, <1>6, <2>5, FoundSound
    <3>2. PICK a \in Admins : a # i BY <3>1 DEF LastAdmin
    <3>3. a \in Admins' BY <1>4, <3>2 DEF Admins
    <3>. QED BY <3>3
  <2>. QED BY <2>3, <2>4, <2>5 DEF HandleSetUserAdmin
<1>. QED BY <1>1, <1>5, <1>6, FoundSound

\* A new password leaves every admin an admin.
LEMMA PasswordKeepsAdmins ==
    ASSUME IInv, NEW i, NEW pw, users' = WithPassword(i, pw)
    PROVE  UserId' = UserId /\ \A j \in UserId : users'[j].admin = users[j].admin
  BY DEF IInv, TypeOK, UserId, WithPassword, User

LEMMA AdminStep ==
    ASSUME IInv, [Next]_vars, Admins # {}, Admins' = {}
    PROVE  LosesRace
<1>1. users' # users BY DEF Admins, UserId
<1>2. PICK s \in Slot :
             \/ \E email \in Email : HandleSetup(s, email)
             \/ HandleChangeMyPassword(s)
             \/ \E email \in Email, admin \in BOOLEAN :
                  /\ HandleCreateUser(s, email, admin)
                  /\ \E i \in 1 .. MaxId :
                       NewId(i) /\ Write(s, WithRow(i, [email |-> email, admin |-> admin, pw |-> email]))
             \/ HandleDeleteUser(s)
             \/ HandleSetUserAdmin(s)
             \/ HandleResetUserPassword(s)
  BY <1>1, StepWrites
<1>3. CASE \E email \in Email : HandleSetup(s, email)
  BY <1>3 DEF HandleSetup, Admins
<1>4. CASE HandleChangeMyPassword(s)
  <2>1. users' = WithPassword(req[s].caller, req[s].who)
    BY <1>4 DEF HandleChangeMyPassword, Write
  <2>. QED BY <2>1, PasswordKeepsAdmins DEF Admins
<1>5. CASE \E i \in Nat : \E row : NewId(i) /\ users' = WithRow(i, row)
  <2>1. PICK i \in Nat : \E row : NewId(i) /\ users' = WithRow(i, row) BY <1>5
  <2>2. i \notin UserId BY <2>1 DEF NewId, IInv, TypeOK
  <2>3. \A j \in UserId : j \in UserId' /\ users'[j] = users[j]
    BY <2>1, <2>2 DEF WithRow, UserId
  <2>. QED BY <2>3 DEF Admins
<1>6. CASE HandleDeleteUser(s) BY <1>6, DeleteKeepsAdmin
<1>7. CASE HandleSetUserAdmin(s) BY <1>7, SetAdminKeepsAdmin
<1>8. CASE HandleResetUserPassword(s)
  <2>1. users' = WithPassword(req[s].target, req[s].email)
    BY <1>8 DEF HandleResetUserPassword, Write
  <2>. QED BY <2>1, PasswordKeepsAdmins DEF Admins
<1>9. CASE \E email \in Email, admin \in BOOLEAN, i \in 1 .. MaxId :
             NewId(i) /\ Write(s, WithRow(i, [email |-> email, admin |-> admin, pw |-> email]))
  BY <1>5, <1>9, IdAssumption DEF Write
<1>. QED BY <1>2, <1>3, <1>4, <1>6, <1>7, <1>8, <1>9

\* handleDeleteUser's and handleSetUserAdmin's checks keep an admin: the last one
\* is lost only in a step that answers a request another one has raced with.
THEOREM LastAdminKept == Spec => AdminLostOnlyByRace
<1>1. IInv /\ [Next]_vars => [Admins # {} /\ Admins' = {} => LosesRace]_vars
  BY AdminStep
<1>. QED BY <1>1, Invariance, PTL DEF Spec, AdminLostOnlyByRace

\* Every write of a request for managing users is by an admin, or has lost a race.
LEMMA ManagedWrite ==
    ASSUME IInv, NEW s \in Slot, NEW table, Write(s, table),
           \/ req[s].pc = "authed" /\ req[s].op \in ManageOp
           \/ req[s].pc \in {"found", "counted"}
    PROVE  \E t \in Slot :
            /\ req[t] # Idle /\ req'[t] = Idle
            /\ req[t].raced \/ req[t].caller \in Admins
<1>1. req'[s] = Idle BY DEF Write
<1>2. CASE req[s].pc = "authed" /\ req[s].op \in ManageOp
  BY <1>1, <1>2, AuthedSound DEF Admins
<1>3. CASE req[s].pc \in {"found", "counted"}
  BY <1>1, <1>3, FoundSound DEF Admins
<1>. QED BY <1>2, <1>3

LEMMA ManagedStep ==
    ASSUME IInv, [Next]_vars, UserId # {},
           UserId' # UserId \/ \E i \in UserId : users'[i].admin # users[i].admin
    PROVE  \E s \in Slot :
            /\ req[s] # Idle /\ req'[s] = Idle
            /\ req[s].raced \/ req[s].caller \in Admins
<1>1. users' # users BY DEF UserId
<1>2. PICK s \in Slot :
             \/ \E email \in Email : HandleSetup(s, email)
             \/ HandleChangeMyPassword(s)
             \/ \E email \in Email, admin \in BOOLEAN :
                  /\ HandleCreateUser(s, email, admin)
                  /\ \E i \in 1 .. MaxId :
                       NewId(i) /\ Write(s, WithRow(i, [email |-> email, admin |-> admin, pw |-> email]))
             \/ HandleDeleteUser(s)
             \/ HandleSetUserAdmin(s)
             \/ HandleResetUserPassword(s)
  BY <1>1, StepWrites
<1>3. CASE \E email \in Email : HandleSetup(s, email)
  BY <1>3 DEF HandleSetup
<1>4. CASE HandleChangeMyPassword(s)
  <2>1. users' = WithPassword(req[s].caller, req[s].who)
    BY <1>4 DEF HandleChangeMyPassword, Write
  <2>. QED BY <2>1, PasswordKeepsAdmins
<1>5. CASE \E email \in Email, admin \in BOOLEAN :
             /\ HandleCreateUser(s, email, admin)
             /\ \E i \in 1 .. MaxId :
                  NewId(i) /\ Write(s, WithRow(i, [email |-> email, admin |-> admin, pw |-> email]))
  <2>1. PICK table : Write(s, table) BY <1>5
  <2>2. req[s].pc = "authed" /\ req[s].op = "create" BY <1>5 DEF HandleCreateUser
  <2>. QED BY <2>1, <2>2, ManagedWrite DEF ManageOp
<1>6. CASE HandleDeleteUser(s)
  BY <1>6, ManagedWrite DEF HandleDeleteUser
<1>7. CASE HandleSetUserAdmin(s)
  BY <1>7, ManagedWrite DEF HandleSetUserAdmin
<1>8. CASE HandleResetUserPassword(s)
  <2>1. users' = WithPassword(req[s].target, req[s].email)
    BY <1>8 DEF HandleResetUserPassword, Write
  <2>. QED BY <2>1, PasswordKeepsAdmins
<1>. QED BY <1>2, <1>3, <1>4, <1>5, <1>6, <1>7, <1>8

\* Only admins manage users (requireAdmin reads the row once, so but for a race):
\* no account appears, disappears or changes rights otherwise after setup.
THEOREM AdminsManage == Spec => ManagedByAdmins
<1>1. IInv /\ [Next]_vars =>
        [ (/\ UserId # {}
           /\ UserId' # UserId \/ \E i \in UserId : users'[i].admin # users[i].admin)
          => \E s \in Slot :
              /\ req[s] # Idle /\ req'[s] = Idle
              /\ req[s].raced \/ req[s].caller \in Admins ]_vars
  BY ManagedStep
<1>. QED BY <1>1, Invariance, PTL DEF Spec, ManagedByAdmins

----------------------------------------------------------------------------
(* Passwords *)

\* A password written for the address of its row leaves no row worse off.
LEMMA OwnPassword ==
    ASSUME IInv, NEW i \in UserId, users' = WithPassword(i, users[i].email),
           NEW j \in UserId', users'[j].pw # users'[j].email
    PROVE  j \in UserId /\ users[j].pw # users[j].email
  BY DEF IInv, TypeOK, UserId, WithPassword, User

LEMMA PasswordStep ==
    ASSUME IInv, [Next]_vars, NEW j \in UserId', users'[j].pw # users'[j].email,
           j \in UserId => users[j].pw = users[j].email
    PROVE  LosesRace
<1>1. users' # users BY DEF UserId
<1>2. PICK s \in Slot :
             \/ \E email \in Email : HandleSetup(s, email)
             \/ HandleChangeMyPassword(s)
             \/ \E email \in Email, admin \in BOOLEAN :
                  /\ HandleCreateUser(s, email, admin)
                  /\ \E i \in 1 .. MaxId :
                       NewId(i) /\ Write(s, WithRow(i, [email |-> email, admin |-> admin, pw |-> email]))
             \/ HandleDeleteUser(s)
             \/ HandleSetUserAdmin(s)
             \/ HandleResetUserPassword(s)
  BY <1>1, StepWrites
<1>3. CASE \E i \in Nat, row \in User : row.pw = row.email /\ users' = WithRow(i, row)
  BY <1>3 DEF WithRow, UserId
<1>4. ASSUME NEW email \in Email, NEW admin \in BOOLEAN
      PROVE  /\ [email |-> email, admin |-> admin, pw |-> email] \in User
             /\ [email |-> email, admin |-> admin, pw |-> email].pw
                  = [email |-> email, admin |-> admin, pw |-> email].email
  BY DEF User
<1>5. CASE \E email \in Email : HandleSetup(s, email)
  <2>1. \E email \in Email : users' = WithRow(1, [email |-> email, admin |-> TRUE, pw |-> email])
    BY <1>5 DEF HandleSetup, Write
  <2>. QED BY <1>3, <1>4, <2>1
<1>6. CASE \E email \in Email, admin \in BOOLEAN, i \in 1 .. MaxId :
             Write(s, WithRow(i, [email |-> email, admin |-> admin, pw |-> email]))
  <2>1. \E email \in Email, admin \in BOOLEAN, i \in Nat :
          users' = WithRow(i, [email |-> email, admin |-> admin, pw |-> email])
    BY <1>6, IdAssumption DEF Write
  <2>. QED BY <1>3, <1>4, <2>1
<1>7. CASE HandleChangeMyPassword(s)
  <2>1. /\ req[s].pc = "authed"
        /\ Write(s, WithPassword(req[s].caller, req[s].who))
    BY <1>7 DEF HandleChangeMyPassword
  <2>2. CASE req[s].raced BY <2>1, <2>2, AuthedSound, RacedWrite
  <2>3. CASE ~req[s].raced
    <3>1. PICK i \in UserId : i = req[s].caller /\ users[i].email = req[s].who
      BY <2>1, <2>3, AuthedSound
    <3>2. users' = WithPassword(i, users[i].email) BY <2>1, <3>1 DEF Write
    <3>. QED BY <3>2, OwnPassword
  <2>. QED BY <2>1, <2>2, <2>3, AuthedSound
<1>8. CASE HandleResetUserPassword(s)
  <2>1. /\ req[s].pc = "found"
        /\ Write(s, WithPassword(req[s].target, req[s].email))
    BY <1>8 DEF HandleResetUserPassword
  <2>2. CASE req[s].raced BY <2>1, <2>2, FoundSound, RacedWrite
  <2>3. CASE ~req[s].raced
    <3>1. PICK i \in UserId : i = req[s].target /\ users[i].email = req[s].email
      BY <2>1, <2>3, FoundSound
    <3>2. users' = WithPassword(i, users[i].email) BY <2>1, <3>1 DEF Write
    <3>. QED BY <3>2, OwnPassword
  <2>. QED BY <2>1, <2>2, <2>3, FoundSound
<1>9. CASE HandleDeleteUser(s)
  <2>1. users' = Without(req[s].target) BY <1>9 DEF HandleDeleteUser, Write
  <2>. QED BY <2>1 DEF Without, UserId
<1>10. CASE HandleSetUserAdmin(s)
  <2>1. PICK i, admin : users' = WithAdmin(i, admin)
    BY <1>10 DEF HandleSetUserAdmin, Write
  <2>2. j \in UserId /\ users'[j].pw = users[j].pw /\ users'[j].email = users[j].email
    BY <2>1 DEF IInv, TypeOK, UserId, WithAdmin, User
  <2>. QED BY <2>2
<1>. QED BY <1>2, <1>5, <1>6, <1>7, <1>8, <1>9, <1>10

\* A password ends up at the row of another address only by a write that another
\* request has raced with (handleChangeMyPassword, handleResetUserPassword).
THEOREM PasswordsKept == Spec => PasswordStraysOnlyByRace
<1>1. IInv /\ [Next]_vars =>
        [ (\E i \in UserId' :
              /\ users'[i].pw # users'[i].email
              /\ i \in UserId => users[i].pw = users[i].email)
          => LosesRace ]_vars
  BY PasswordStep
<1>. QED BY <1>1, Invariance, PTL DEF Spec, PasswordStraysOnlyByRace
=============================================================================
