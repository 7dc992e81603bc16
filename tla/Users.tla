------------------------------- MODULE Users -------------------------------
(***************************************************************************)
(* The operator accounts: the table of internal/store/users.go and the     *)
(* handlers of internal/server/users.go and auth.go that read and change   *)
(* it.  A handler checks rows it has read (the caller's, the target's, the *)
(* number of admins) and writes in a later call; other requests run in     *)
(* between.  Each call of the store is one step, as in Threads.            *)
(*                                                                         *)
(* Signing in changes nothing on the server: the session is a signed       *)
(* address in the client's cookie, and requireOperator looks its row up    *)
(* anew for every request.  A password is stood for by the address of the  *)
(* person it was chosen for, so that a row is in order when its password   *)
(* is the one of its own address.                                          *)
(***************************************************************************)
EXTENDS Naturals

CONSTANTS
    Email,     \* addresses, and the persons that have them
    Slot,      \* requests that may be in progress at the same time
    MaxId      \* bound on the row ids

ASSUME IdAssumption == MaxId \in Nat

VARIABLES
    users,     \* table users: a function from row ids to rows
    req        \* what each request slot is doing

vars == <<users, req>>

----------------------------------------------------------------------------
(* Types *)

User == [email : Email, admin : BOOLEAN, pw : Email]

TargetOp == {"delete", "promote", "demote", "reset"}
ManageOp == TargetOp \cup {"create"}
Op == ManageOp \cup {"myPassword"}

Idle == [pc |-> "idle"]

\* A request that passed requireOperator (and requireAdmin), and one that has
\* also read its target's row, or counted the admins after that.  raced is not
\* in the code: another request has written to the table since this one began.
Request ==
    {Idle}
    \cup [pc : {"authed"}, op : Op, who : Email, caller : Nat, raced : BOOLEAN]
    \cup [pc : {"found", "counted"}, op : TargetOp, who : Email, caller : Nat,
          target : Nat, email : Email, admin : BOOLEAN, raced : BOOLEAN]

UserId == DOMAIN users

TypeOK ==
    /\ UserId \subseteq Nat
    /\ users \in [UserId -> User]
    /\ req \in [Slot -> Request]

----------------------------------------------------------------------------
(* The store *)

Init == users = [i \in {} |-> 0] /\ req = [s \in Slot |-> Idle]

Admins == {i \in UserId : users[i].admin}

\* SQLite gives a new row the highest id in the table plus one: the id of a
\* removed row comes back when it was the highest (0002_users.sql:2 does not
\* say AUTOINCREMENT).
NewId(i) ==
    /\ \A j \in UserId : j < i
    /\ i = 1 \/ i - 1 \in UserId

WithRow(i, row) == [j \in UserId \cup {i} |-> IF j = i THEN row ELSE users[j]]
Without(i) == [j \in UserId \ {i} |-> users[j]]

\* execOnUser: an UPDATE of a row that is gone changes nothing.
WithAdmin(i, admin) ==
    IF i \in UserId THEN [users EXCEPT ![i].admin = admin] ELSE users
WithPassword(i, pw) ==
    IF i \in UserId THEN [users EXCEPT ![i].pw = pw] ELSE users

\* Faulty: the count is compared with zero.
LastAdmin_OffByOne == Admins = {}

\* CountAdmins() <= 1
LastAdmin == \A a, b \in Admins : a = b

----------------------------------------------------------------------------
(* The handlers *)

\* The last call of request s writes the table; it is answered.
Write(s, table) ==
    /\ users' = table
    /\ req' = [t \in Slot |->
                IF t = s THEN Idle
                ELSE IF req[t] = Idle \/ table = users THEN req[t]
                ELSE [req[t] EXCEPT !.raced = TRUE]]

Refuse(s) == req' = [req EXCEPT ![s] = Idle] /\ UNCHANGED users

\* handleSetup: INSERT ... WHERE NOT EXISTS, so that only one of two can win.
HandleSetup(s, email) ==
    /\ req[s] = Idle
    /\ UserId = {}
    /\ MaxId > 0
    /\ Write(s, WithRow(1, [email |-> email, admin |-> TRUE, pw |-> email]))

\* Faulty: everyone who is signed in may manage users.
Authenticate_NoAdminCheck(s, who, op) ==
    /\ req[s] = Idle
    /\ \E i \in UserId :
        /\ users[i].email = who
        /\ op = "myPassword" => users[i].pw = who
        /\ req' = [req EXCEPT ![s] = [pc |-> "authed", op |-> op, who |-> who,
                                      caller |-> i, raced |-> FALSE]]
    /\ UNCHANGED users

\* requireOperator and requireAdmin: the caller's row is read once, and that
\* reading is what the handler uses.  Changing one's own password takes the
\* current one, checked against it.
Authenticate(s, who, op) ==
    /\ req[s] = Idle
    /\ \E i \in UserId :
        /\ users[i].email = who
        /\ op \in ManageOp => users[i].admin
        /\ op = "myPassword" => users[i].pw = who
        /\ req' = [req EXCEPT ![s] = [pc |-> "authed", op |-> op, who |-> who,
                                      caller |-> i, raced |-> FALSE]]
    /\ UNCHANGED users

\* Faulty: the new password goes to the first account.
HandleChangeMyPassword_First(s) ==
    /\ req[s].pc = "authed"
    /\ req[s].op = "myPassword"
    /\ Write(s, WithPassword(1, req[s].who))

\* handleChangeMyPassword writes to the id of the row it authenticated with.
HandleChangeMyPassword(s) ==
    /\ req[s].pc = "authed"
    /\ req[s].op = "myPassword"
    /\ Write(s, WithPassword(req[s].caller, req[s].who))

\* Faulty: a schema without UNIQUE.
HandleCreateUser_Twice(s, email, admin) ==
    /\ req[s].pc = "authed"
    /\ req[s].op = "create"
    /\ \E i \in 1 .. MaxId :
            NewId(i) /\ Write(s, WithRow(i, [email |-> email, admin |-> admin, pw |-> email]))

HandleCreateUser(s, email, admin) ==
    /\ req[s].pc = "authed"
    /\ req[s].op = "create"
    /\ IF \E i \in UserId : users[i].email = email
       THEN Refuse(s)
       ELSE \E i \in 1 .. MaxId :
                NewId(i) /\ Write(s, WithRow(i, [email |-> email, admin |-> admin, pw |-> email]))

\* Faulty: one may remove one's own account.
UserByParam_AllowsSelf(s, i) ==
    /\ req[s].pc = "authed"
    /\ req[s].op \in TargetOp
    /\ req' = [req EXCEPT ![s] =
                [pc |-> "found", op |-> req[s].op, who |-> req[s].who,
                 caller |-> req[s].caller, target |-> i, email |-> users[i].email,
                 admin |-> users[i].admin, raced |-> req[s].raced]]
    /\ UNCHANGED users

\* userByParam, and handleDeleteUser's refusal to remove the caller.
UserByParam(s, i) ==
    /\ req[s].pc = "authed"
    /\ req[s].op \in TargetOp
    /\ IF req[s].op = "delete" /\ i = req[s].caller
       THEN Refuse(s)
       ELSE /\ req' = [req EXCEPT ![s] =
                [pc |-> "found", op |-> req[s].op, who |-> req[s].who,
                 caller |-> req[s].caller, target |-> i, email |-> users[i].email,
                 admin |-> users[i].admin, raced |-> req[s].raced]]
            /\ UNCHANGED users

HandleDeleteUser(s) ==
    /\ req[s].pc = "found"
    /\ req[s].op = "delete"
    /\ Write(s, Without(req[s].target))

\* handleSetUserAdmin counts the admins before it demotes one ...
CountAdmins(s) ==
    /\ req[s].pc = "found"
    /\ req[s].op = "demote"
    /\ req[s].admin
    /\ IF LastAdmin
       THEN Refuse(s)
       ELSE /\ req' = [req EXCEPT ![s].pc = "counted"]
            /\ UNCHANGED users

\* ... and writes the flag in a call of its own.
HandleSetUserAdmin(s) ==
    /\ \/ req[s].pc = "found" /\ req[s].op = "promote"
       \/ req[s].pc = "found" /\ req[s].op = "demote" /\ ~req[s].admin
       \/ req[s].pc = "counted"
    /\ Write(s, WithAdmin(req[s].target, req[s].op = "promote"))

\* handleResetUserPassword: the password is meant for the address that was read.
HandleResetUserPassword(s) ==
    /\ req[s].pc = "found"
    /\ req[s].op = "reset"
    /\ Write(s, WithPassword(req[s].target, req[s].email))

\* A call fails, the client goes away, the target does not exist, the body of
\* the request is refused.
GiveUp(s) == req[s] # Idle /\ Refuse(s)

Next ==
    \E s \in Slot :
        \/ \E email \in Email : HandleSetup(s, email)
        \/ \E who \in Email, op \in Op : Authenticate(s, who, op)
        \/ HandleChangeMyPassword(s)
        \/ \E email \in Email, admin \in BOOLEAN : HandleCreateUser(s, email, admin)
        \/ \E i \in UserId : UserByParam(s, i)
        \/ HandleDeleteUser(s)
        \/ CountAdmins(s)
        \/ HandleSetUserAdmin(s)
        \/ HandleResetUserPassword(s)
        \/ GiveUp(s)

Spec == Init /\ [][Next]_vars

----------------------------------------------------------------------------
(* Safety *)

\* An address has one account, though setup and creation run beside each other.
OneAccountEach ==
    \A i, j \in UserId : users[i].email = users[j].email => i = j

\* Between two states a request was answered that another one had raced with.
LosesRace == \E s \in Slot : req[s] # Idle /\ req'[s] = Idle /\ req[s].raced

\* The guards of handleDeleteUser and handleSetUserAdmin do keep an admin, and
\* with it the setup screen closed, unless another request wrote to the table
\* between their checks and their write.
AdminLostOnlyByRace ==
    [][ Admins # {} /\ Admins' = {} => LosesRace ]_vars

\* A password ends up at another address's row only by such a race (with a
\* removal and a creation that takes the id over).
PasswordStraysOnlyByRace ==
    [][ (\E i \in UserId' :
            /\ users'[i].pw # users'[i].email
            /\ i \in UserId => users[i].pw = users[i].email)
        => LosesRace ]_vars

\* Accounts other than a first one appear, change rights and disappear only by
\* a request of somebody who, but for a race, is an admin when it takes effect.
ManagedByAdmins ==
    [][ (/\ UserId # {}
         /\ UserId' # UserId \/ \E i \in UserId : users'[i].admin # users[i].admin)
        => \E s \in Slot :
            /\ req[s] # Idle /\ req'[s] = Idle
            /\ req[s].raced \/ req[s].caller \in Admins ]_vars

\* What the handlers rely on, as long as nothing raced with them: the inductive
\* invariant of the proofs.
UnracedSound(r) ==
    (r # Idle /\ ~r.raced) =>
        /\ r.caller \in UserId
        /\ users[r.caller].email = r.who
        /\ r.op \in ManageOp => users[r.caller].admin
        /\ r.pc \in {"found", "counted"} =>
            /\ r.target \in UserId
            /\ users[r.target].email = r.email
            /\ users[r.target].admin = r.admin
            /\ r.op = "delete" => r.target # r.caller
        /\ r.pc = "counted" => r.op = "demote" /\ ~LastAdmin

IInv ==
    /\ TypeOK
    /\ OneAccountEach
    /\ \A s \in Slot : UnracedSound(req[s])

----------------------------------------------------------------------------
(* What comments of the code say and the code does not do *)

\* server/users.go:177 and store/users.go:138: an admin survives every delete,
\* and the inbox is kept from going without one.
AdminSurvives ==
    [][ Admins # {} => Admins' # {} ]_vars

\* server/users.go:104: operators rotate their own password, and no other.
PasswordStaysOwn ==
    \A i \in UserId : users[i].pw = users[i].email
=============================================================================
