---------------------------- MODULE UsersProofs ----------------------------
(***************************************************************************)
(* Proofs about Users, for every set of names, passwords and sessions and  *)
(* for every bound.  The argument is that _ensure_admin_invariants leaves  *)
(* the administrator no way to change a role: the first row of the table   *)
(* is the administrator for ever, in the database and in every package,    *)
(* and every other row is an operator.                                     *)
(***************************************************************************)
EXTENDS AccountPages, TLAPS

RoleOf(u) == IF u = 1 THEN "admin" ELSE "operator"

\* A row in its place: the administrator is there and active, and must change
\* the password exactly while nothing has given the row a second version.
GoodRow(u, row) ==
    /\ row \in Row
    /\ row.role = RoleOf(u)
    /\ u = 1 => row.active /\ ~ row.deleted
    /\ row.mustChange <=> u = 1 /\ row.version = 1

Table(t) == t \in Seq(Row) /\ \A u \in DOMAIN t : GoodRow(u, t[u])

\* A session that knows a row: it is not ahead of it, and when it is not behind
\* it either, the row may be used with the session's password.
Knows(x, row) ==
    /\ x.version <= row.version
    /\ x.version = row.version => row.active /\ ~ row.deleted /\ x.secret = row.password

SessionInv(s) ==
    /\ s \in entered => sessions[s] # NoSession
    /\ sessions[s] # NoSession =>
        /\ sessions[s].role = RoleOf(sessions[s].uid)
        /\ s \in entered /\ sessions[s].uid = 1 => sessions[s].version > 1
        /\ s \notin carried =>
               sessions[s].uid \in Ids /\ Knows(sessions[s], users[sessions[s].uid])

IInv == /\ TypeOK
        /\ phase # "failed"
        /\ Table(users)
        /\ Table(package.users) /\ Len(package.users) <= MaxUsers
        /\ \A s \in Sids : SessionInv(s)
-----------------------------------------------------------------------------
\* The table after an update or an insertion.
LEMMA UpdatedTable ==
    ASSUME Table(users), NEW u \in Ids, NEW row, GoodRow(u, row),
           users' = [users EXCEPT ![u] = row]
    PROVE  /\ Table(users') /\ Len(users') = Len(users) /\ DOMAIN users' = Ids
           /\ users'[u] = row
           /\ \A v \in Ids \ {u} : users'[v] = users[v]
<1>1. row \in Row
  BY DEF GoodRow
<1>2. QED
  BY <1>1 DEF Table, Ids

LEMMA InsertedTable ==
    ASSUME Table(users), NEW row, GoodRow(Len(users) + 1, row), Insert(row)
    PROVE  /\ Table(users') /\ Len(users') <= MaxUsers /\ Ids \subseteq DOMAIN users'
           /\ \A v \in Ids : users'[v] = users[v]
<1>1. row \in Row /\ users' = Append(users, row) /\ Len(users) < MaxUsers
  BY DEF GoodRow, Insert
<1>2. QED
  BY <1>1, UsersAssumption DEF Table, Ids

\* The administrator is one of the active administrators.
LEMMA AdminIsActive ==
    ASSUME Table(users), users # <<>>
    PROVE  1 \in Ids /\ ActiveAdmins = {1}
<1>1. 1 \in Ids
  BY DEF Table, Ids
<1>2. QED
  BY <1>1 DEF Table, GoodRow, RoleOf, ActiveAdmins, Live, Ids

\* What the guards of UserService leave of a change of role and state.
LEMMA RolesStay ==
    ASSUME Table(users), NEW u \in Ids, NEW role \in Roles, NEW active \in BOOLEAN,
           AdminInvariants(u, role, active)
    PROVE  role = RoleOf(u) /\ (u = 1 => active)
<1>1. ActiveAdmins = {1}
  BY AdminIsActive DEF Table, Ids
<1>2. CASE u = 1
  <2>1. users[u].role = "admin" /\ users[u].active
    BY <1>2 DEF Table, GoodRow, RoleOf, Ids
  <2>2. ActiveAdmins \ {u} = {}
    BY <1>1, <1>2
  <2>3. role = "admin" /\ active
    BY <2>1, <2>2 DEF AdminInvariants
  <2>4. QED
    BY <1>2, <2>3 DEF RoleOf
<1>3. CASE u # 1
  <2>1. users[u].role = "operator"
    BY <1>3 DEF Table, GoodRow, RoleOf, Ids
  <2>2. role # "admin"
    BY <1>1, <2>1 DEF AdminInvariants
  <2>3. QED
    BY <1>3, <2>2 DEF RoleOf, Roles
<1>4. QED
  BY <1>2, <1>3
-----------------------------------------------------------------------------
\* One lemma for each way a step changes the tables.
LEMMA DataTypes ==
    ASSUME TypeOK PROVE /\ users \in Seq(Row) /\ package.users \in Seq(Row)
                        /\ \A u \in Ids : users[u] \in Row
BY DEF TypeOK, Ids

\* A row is updated; sessions of its user follow it or fall behind.
LEMMA UpdatedInv ==
    ASSUME IInv, NEW u \in Ids, NEW row, GoodRow(u, row), Update(u, row),
           UNCHANGED <<phase, carried, licence, package, restores>>,
           sessions' \in [Sids -> SessionRecord \union {NoSession}], entered' \subseteq Sids,
           \A s \in Sids :
               /\ s \in entered' => sessions'[s] # NoSession
               /\ sessions'[s] # NoSession =>
                   /\ sessions[s] # NoSession
                   /\ sessions'[s].role = sessions[s].role
                   /\ sessions'[s].uid = sessions[s].uid
                   /\ s \in entered' /\ sessions[s].uid = 1 => sessions'[s].version > 1
                   /\ s \notin carried => IF sessions[s].uid = u THEN Knows(sessions'[s], row)
                                          ELSE sessions'[s] = sessions[s]
    PROVE  IInv'
<1>1. /\ Table(users') /\ Len(users') = Len(users) /\ DOMAIN users' = Ids
      /\ users'[u] = row
      /\ \A v \in Ids \ {u} : users'[v] = users[v]
  BY UpdatedTable DEF IInv, Update
<1>2. TypeOK'
  BY <1>1 DEF IInv, TypeOK, Table
<1>3. ASSUME NEW s \in Sids PROVE SessionInv(s)'
  <2>1. Ids' = Ids
    BY <1>1 DEF Ids
  <2>2. CASE sessions'[s] = NoSession
    BY <2>2 DEF SessionInv
  <2>3. CASE sessions'[s] # NoSession
    <3>1. sessions[s].role = RoleOf(sessions[s].uid)
          /\ (s \notin carried => /\ sessions[s].uid \in Ids
                                 /\ Knows(sessions[s], users[sessions[s].uid]))
      BY <2>3 DEF IInv, SessionInv
    <3>2. s \notin carried => Knows(sessions'[s], users'[sessions'[s].uid])
      BY <1>1, <2>3, <3>1
    <3>3. QED
      BY <2>1, <2>3, <3>1, <3>2 DEF SessionInv
  <2>4. QED
    BY <2>2, <2>3
<1>4. QED
  BY <1>1, <1>2, <1>3 DEF IInv

\* ... and when the row gets a new version they all fall behind.
LEMMA FallsBehind ==
    ASSUME IInv, NEW s \in Sids, sessions[s] # NoSession, s \notin carried, NEW row,
           row.version = users[sessions[s].uid].version + 1
    PROVE  Knows(sessions[s], row)
<1>1. sessions[s].version \in Nat
  BY DEF IInv, TypeOK, SessionRecord
<1>2. sessions[s].uid \in Ids /\ Knows(sessions[s], users[sessions[s].uid])
  BY DEF IInv, SessionInv
<1>3. users[sessions[s].uid].version \in Nat
  BY <1>2, DataTypes DEF IInv, Row
<1>4. QED
  BY <1>1, <1>2, <1>3 DEF Knows

LEMMA BumpedInv ==
    ASSUME IInv, NEW u \in Ids, NEW row, GoodRow(u, row), Update(u, row),
           row.version = users[u].version + 1,
           UNCHANGED <<phase, sessionVars, licence, package, restores>>
    PROVE  IInv'
<1>1. sessions' = sessions /\ entered' = entered /\ carried' = carried
  BY DEF sessionVars
<1>2. ASSUME NEW s \in Sids, sessions[s] # NoSession, s \notin carried, sessions[s].uid = u
      PROVE  Knows(sessions[s], row)
  BY <1>2, FallsBehind
<1>3. QED
  BY <1>1, <1>2, UpdatedInv DEF IInv, TypeOK, SessionInv

\* A row is added.
LEMMA InsertedInv ==
    ASSUME IInv, NEW row, GoodRow(Len(users) + 1, row), Insert(row),
           phase' \in {"up", "down"},
           UNCHANGED <<sessionVars, licence, package, restores>>
    PROVE  IInv'
<1>1. /\ Table(users') /\ Len(users') <= MaxUsers /\ Ids \subseteq DOMAIN users'
      /\ \A v \in Ids : users'[v] = users[v]
  BY InsertedTable DEF IInv
<1>2. sessions' = sessions /\ entered' = entered /\ carried' = carried
  BY DEF sessionVars
<1>3. TypeOK'
  BY <1>1, <1>2 DEF IInv, TypeOK, Table
<1>4. \A s \in Sids : SessionInv(s)'
  BY <1>1, <1>2 DEF IInv, SessionInv, Ids
<1>5. QED
  BY <1>1, <1>3, <1>4 DEF IInv
-----------------------------------------------------------------------------
\* A session that validates belongs to a row of the table.
LEMMA ValidRow ==
    ASSUME IInv, NEW s \in Sids, Valid(s)
    PROVE  /\ sessions[s].uid \in Ids /\ sessions[s] # NoSession
           /\ users # <<>> /\ users \in Seq(Row)
BY DEF Valid, IInv, TypeOK, NoSession, Ids

\* The row after a change of password, which every session must catch up with.
LEMMA PasswordRow ==
    ASSUME NEW u \in Nat, NEW old, GoodRow(u, old), NEW new \in Passwords, NEW row,
           row = WithPassword(old, new),
           row.version <= MaxVersion
    PROVE  /\ GoodRow(u, row)
           /\ old.version \in Nat \ {0} /\ row.version = old.version + 1
           /\ row.active = old.active /\ row.deleted = old.deleted /\ row.password = new
<1>1. old \in Row /\ old.version \in Nat \ {0}
  BY UsersAssumption DEF GoodRow, Row
<1>2. /\ row.version = old.version + 1 /\ row.role = old.role /\ row.mustChange = FALSE
      /\ row.active = old.active /\ row.deleted = old.deleted /\ row.password = new
  BY <1>1 DEF WithPassword, Bumped, Row
<1>3. row.version \in 1..MaxVersion
  BY <1>1, <1>2, UsersAssumption
<1>4. row \in Row
  BY <1>1, <1>3 DEF WithPassword, Bumped, Row
<1>5. GoodRow(u, row)
  BY <1>1, <1>2, <1>4 DEF GoodRow
<1>6. QED
  BY <1>1, <1>2, <1>5

LEMMA ChangePasswordInv ==
    ASSUME IInv, NEW s \in Sids, NEW old \in Passwords, NEW new \in Passwords,
           ChangePassword(s, old, new)
    PROVE  IInv'
<1>1. PICK u \in Ids : u = sessions[s].uid
  BY ValidRow DEF ChangePassword, Refreshed
<1>2. PICK row : row = WithPassword(users[u], new)
  OBVIOUS
<1>3. /\ Valid(s) /\ Update(u, row)
      /\ sessions' = [sessions EXCEPT ![s].version = users'[u].version,
                                      ![s].mustChange = FALSE, ![s].secret = new]
      /\ entered' = entered \union {s}
      /\ UNCHANGED <<phase, carried, licence, package, restores>>
  BY <1>1, <1>2 DEF ChangePassword, Refreshed
<1>4. GoodRow(u, users[u]) /\ u \in Nat /\ row.version <= MaxVersion
  BY <1>3 DEF IInv, Table, Update, Ids
<1>5. /\ GoodRow(u, row) /\ row.version = users[u].version + 1
      /\ users[u].version \in Nat \ {0} /\ row.password = new
      /\ row.active = users[u].active /\ row.deleted = users[u].deleted
  BY <1>2, <1>4, PasswordRow
<1>6. users'[u] = row
  BY <1>3, <1>5, UpdatedTable DEF IInv, Update
<1>7. sessions[s] \in SessionRecord /\ sessions[s] # NoSession
  BY <1>3, ValidRow DEF IInv, TypeOK
<1>8. row.version \in 1..MaxVersion
  BY <1>5 DEF GoodRow, Row
<1>9. /\ sessions'[s] \in SessionRecord
      /\ sessions'[s].role = sessions[s].role /\ sessions'[s].uid = u
      /\ sessions'[s].version = row.version /\ sessions'[s].secret = new
      /\ \A x \in Sids \ {s} : sessions'[x] = sessions[x]
  <2>1. /\ sessions'[s] = [sessions[s] EXCEPT !.version = row.version, !.mustChange = FALSE,
                                              !.secret = new]
        /\ \A x \in Sids \ {s} : sessions'[x] = sessions[x]
    BY <1>3, <1>6 DEF IInv, TypeOK
  <2>2. QED
    BY <1>1, <1>7, <1>8, <2>1 DEF SessionRecord
<1>10. sessions' \in [Sids -> SessionRecord \union {NoSession}] /\ entered' \subseteq Sids
  BY <1>3, <1>9 DEF IInv, TypeOK
<1>11. sessions'[s] # NoSession
  BY <1>9 DEF SessionRecord, Roles, NoSession
<1>12. Knows(sessions'[s], row)
  BY <1>1, <1>3, <1>5, <1>9 DEF Valid, Live, Knows
<1>13. ASSUME NEW x \in Sids \ {s}, sessions[x] # NoSession, x \notin carried,
              sessions[x].uid = u
       PROVE  Knows(sessions[x], row)
  BY <1>5, <1>13, FallsBehind DEF IInv, SessionInv
<1>14. ASSUME NEW x \in Sids
       PROVE  /\ x \in entered' => sessions'[x] # NoSession
              /\ sessions'[x] # NoSession =>
                  /\ sessions[x] # NoSession
                  /\ sessions'[x].role = sessions[x].role
                  /\ sessions'[x].uid = sessions[x].uid
                  /\ x \in entered' /\ sessions[x].uid = 1 => sessions'[x].version > 1
                  /\ x \notin carried => IF sessions[x].uid = u THEN Knows(sessions'[x], row)
                                         ELSE sessions'[x] = sessions[x]
  <2>1. CASE x = s
    BY <1>1, <1>5, <1>7, <1>9, <1>11, <1>12, <2>1
  <2>2. CASE x # s
    <3>1. sessions'[x] = sessions[x] /\ (x \in entered' => x \in entered) /\ SessionInv(x)
      BY <1>3, <1>9, <2>2 DEF IInv
    <3>2. QED
      BY <1>13, <2>2, <3>1 DEF SessionInv
  <2>3. QED
    BY <2>1, <2>2
<1>15. QED
  BY <1>3, <1>5, <1>10, <1>14, UpdatedInv

LEMMA RecoverInv ==
    ASSUME IInv, NEW name \in Names, NEW new \in Passwords, Recover(name, new) PROVE IInv'
<1>1. PICK u \in Ids : /\ Update(u, WithPassword(users[u], new))
                       /\ UNCHANGED <<phase, sessionVars, licence, package, restores>>
  BY DEF Recover, Recoverable
<1>2. PICK row : row = WithPassword(users[u], new)
  OBVIOUS
<1>3. GoodRow(u, users[u]) /\ u \in Nat /\ row.version <= MaxVersion
  BY <1>1, <1>2 DEF IInv, Table, Update, Ids
<1>4. GoodRow(u, row) /\ row.version = users[u].version + 1
  BY <1>2, <1>3, PasswordRow
<1>5. QED
  BY <1>1, <1>2, <1>4, BumpedInv

LEMMA CreateUserInv ==
    ASSUME IInv, NEW s \in Sids, NEW name \in Names, NEW password \in Passwords,
           NEW role \in Roles, NEW active \in BOOLEAN,
           CreateUser(s, name, password, role, active)
    PROVE  IInv'
<1>1. Valid(s) /\ (role = "admin" => ActiveAdmins = {})
  BY DEF CreateUser, MayManage
<1>2. users # <<>> /\ users \in Seq(Row)
  BY <1>1, ValidRow
<1>3. Len(users) + 1 \in Nat /\ Len(users) + 1 # 1
  BY <1>2
<1>4. role = "operator"
  BY <1>1, <1>2, AdminIsActive DEF IInv, Roles
<1>5. GoodRow(Len(users) + 1, NewRow(name, password, role, active, FALSE))
  <2>1. NewRow(name, password, role, active, FALSE) \in Row
    BY UsersAssumption DEF NewRow, Row
  <2>2. QED
    BY <1>3, <1>4, <2>1 DEF GoodRow, NewRow, RoleOf
<1>6. phase' \in {"up", "down"}
  BY DEF CreateUser, IInv, TypeOK
<1>7. QED
  BY <1>5, <1>6, InsertedInv DEF CreateUser

\* DisableUser and DeleteUser cannot name the administrator.
LEMMA RemoveUserInv ==
    ASSUME IInv, NEW s \in Sids, NEW u \in Ids, DisableUser(s, u) \/ DeleteUser(s, u)
    PROVE  IInv'
<1>1. users[u] \in Row /\ GoodRow(u, users[u]) /\ users[u].version \in Nat \ {0}
  BY UsersAssumption, DataTypes DEF IInv, Table, Ids, Row
<1>2. u # 1
  <2>1. AdminInvariants(u, users[u].role, FALSE) /\ users[u].role \in Roles
    BY <1>1 DEF DisableUser, DeleteUser, Row
  <2>2. QED
    BY <2>1, RolesStay DEF IInv
<1>3. PICK row : /\ Update(u, row)
                 /\ \/ row = Bumped([users[u] EXCEPT !.active = FALSE])
                    \/ row = Bumped([users[u] EXCEPT !.active = FALSE, !.deleted = TRUE])
  BY DEF DisableUser, DeleteUser
<1>4. /\ row.version = users[u].version + 1 /\ row.role = users[u].role
      /\ row.mustChange = users[u].mustChange
  BY <1>1, <1>3 DEF Bumped, Row
<1>5. row \in Row
  <2>1. users[u].version + 1 \in 1..MaxVersion
    BY <1>1, <1>3, <1>4, UsersAssumption DEF Update
  <2>2. QED
    BY <1>1, <1>3, <2>1 DEF Bumped, Row
<1>6. GoodRow(u, row)
  BY <1>1, <1>2, <1>4, <1>5 DEF GoodRow
<1>7. QED
  BY <1>3, <1>4, <1>6, BumpedInv DEF DisableUser, DeleteUser

\* UpdateUser changes the role of nobody and the state of an operator only; a
\* password it sets is the one the user's sessions rest on from then on.
LEMMA UpdateUserInv ==
    ASSUME IInv, NEW s \in Sids, NEW u \in Ids, NEW name \in Names, NEW role \in Roles,
           NEW active \in BOOLEAN, NEW password \in Passwords,
           UpdateUser(s, u, name, role, active, password)
    PROVE  IInv'
<1>1. /\ users[u] \in Row /\ GoodRow(u, users[u]) /\ users[u].version \in Nat \ {0}
      /\ u \in Nat \ {0}
  BY UsersAssumption, DataTypes DEF IInv, Table, Ids, Row
<1>2. role = users[u].role /\ (u = 1 => active /\ users[u].active)
  BY <1>1, RolesStay DEF IInv, UpdateUser, GoodRow
<1>3. PICK row : /\ Update(u, row)
                 /\ row = BumpedIf(role # users[u].role \/ active # users[u].active,
                             [users[u] EXCEPT !.name = name, !.role = role,
                                              !.active = active, !.password = password])
  BY DEF UpdateUser
<1>4. /\ row.role = users[u].role /\ row.active = active /\ row.deleted = users[u].deleted
      /\ row.mustChange = users[u].mustChange /\ row.password = password
  BY <1>1, <1>2, <1>3 DEF BumpedIf, Bumped, Row
<1>5. \/ row.version = users[u].version /\ active = users[u].active
      \/ row.version = users[u].version + 1 /\ u # 1
  BY <1>1, <1>2, <1>3 DEF BumpedIf, Bumped, Row
<1>6. row \in Row
  <2>1. row.version \in 1..MaxVersion
    BY <1>1, <1>3, <1>5, UsersAssumption DEF Update
  <2>2. QED
    BY <1>1, <1>3, <2>1 DEF BumpedIf, Bumped, Row
<1>7. GoodRow(u, row)
  BY <1>1, <1>2, <1>4, <1>5, <1>6 DEF GoodRow
<1>8. /\ sessions' = [x \in Sids |-> IF sessions[x].uid = u /\ password # users[u].password
                                    THEN [sessions[x] EXCEPT !.secret = password]
                                    ELSE sessions[x]]
      /\ UNCHANGED <<phase, entered, carried, licence, package, restores>>
  BY DEF UpdateUser
<1>9. ASSUME NEW x \in Sids
      PROVE  /\ sessions'[x] \in SessionRecord \union {NoSession}
             /\ sessions'[x].role = sessions[x].role /\ sessions'[x].uid = sessions[x].uid
             /\ sessions'[x].version = sessions[x].version
             /\ sessions[x] # NoSession <=> sessions'[x] # NoSession
             /\ sessions[x].uid # u => sessions'[x] = sessions[x]
             /\ sessions[x].uid = u => sessions'[x].secret =
                    IF password # users[u].password THEN password ELSE sessions[x].secret
  <2>1. CASE sessions[x].uid = u /\ password # users[u].password
    <3>1. sessions[x] \in SessionRecord
      BY <1>1, <2>1 DEF IInv, TypeOK, NoSession
    <3>2. sessions'[x] = [sessions[x] EXCEPT !.secret = password]
      BY <1>8, <2>1
    <3>3. QED
      BY <1>1, <2>1, <3>1, <3>2 DEF SessionRecord, NoSession
  <2>2. CASE ~ (sessions[x].uid = u /\ password # users[u].password)
    BY <1>8, <2>2 DEF IInv, TypeOK
  <2>3. QED
    BY <2>1, <2>2
<1>10. ASSUME NEW x \in Sids, sessions[x] # NoSession, x \notin carried, sessions[x].uid = u
       PROVE  Knows(sessions'[x], row)
  <2>1. sessions[x].version \in Nat
    BY <1>10 DEF IInv, TypeOK, SessionRecord
  <2>2. Knows(sessions[x], users[u])
    BY <1>10 DEF IInv, SessionInv
  <2>3. QED
    BY <1>1, <1>4, <1>5, <1>9, <1>10, <2>1, <2>2 DEF Knows
<1>11. ASSUME NEW x \in Sids
       PROVE  /\ x \in entered' => sessions'[x] # NoSession
              /\ sessions'[x] # NoSession =>
                  /\ sessions[x] # NoSession
                  /\ sessions'[x].role = sessions[x].role
                  /\ sessions'[x].uid = sessions[x].uid
                  /\ x \in entered' /\ sessions[x].uid = 1 => sessions'[x].version > 1
                  /\ x \notin carried => IF sessions[x].uid = u THEN Knows(sessions'[x], row)
                                         ELSE sessions'[x] = sessions[x]
  BY <1>8, <1>9, <1>10 DEF IInv, SessionInv
<1>12. sessions' \in [Sids -> SessionRecord \union {NoSession}] /\ entered' \subseteq Sids
  BY <1>8, <1>9 DEF IInv, TypeOK
<1>13. UNCHANGED <<phase, carried, licence, package, restores>>
  BY <1>8
<1>14. QED
  BY <1>3, <1>7, <1>11, <1>12, <1>13, UpdatedInv
-----------------------------------------------------------------------------
\* A login opens a session that knows its row; the administrator's shell is not
\* entered with the first version of the row.
LEMMA LoginInv ==
    ASSUME IInv, NEW s \in Sids, NEW name \in Names, NEW password \in Passwords,
           Login(s, name, password)
    PROVE  IInv'
<1>1. PICK u \in Ids :
          /\ Live(u) /\ users[u].active /\ Open(s, u)
          /\ entered' = IF users[u].mustChange THEN entered ELSE entered \union {s}
  BY DEF Login, Authenticates, Recoverable
<1>2. UNCHANGED <<phase, carried, users, licence, package, restores>> /\ sessions[s] = NoSession
  BY DEF Login, Authenticates, Recoverable, dbVars
<1>3. /\ users[u] \in Row /\ GoodRow(u, users[u]) /\ users[u].version \in Nat \ {0}
      /\ u \in Nat \ {0}
  BY UsersAssumption, DataTypes DEF IInv, Table, Ids, Row
<1>4. /\ sessions'[s] = [uid |-> u, role |-> users[u].role, version |-> users[u].version,
                         mustChange |-> users[u].mustChange, secret |-> users[u].password]
      /\ sessions' \in [Sids -> SessionRecord \union {NoSession}]
      /\ \A x \in Sids \ {s} : sessions'[x] = sessions[x]
  <2>1. [uid |-> u, role |-> users[u].role, version |-> users[u].version,
         mustChange |-> users[u].mustChange, secret |-> users[u].password] \in SessionRecord
    BY <1>3 DEF Row, SessionRecord
  <2>2. QED
    BY <1>1, <2>1 DEF Open, IInv, TypeOK
<1>5. s \notin entered
  BY <1>2 DEF IInv, SessionInv
<1>6. SessionInv(s)'
  <2>1. sessions'[s] # NoSession
    BY <1>3, <1>4 DEF NoSession
  <2>2. sessions'[s].role = RoleOf(u)
    BY <1>3, <1>4 DEF GoodRow
  <2>3. s \in entered' /\ u = 1 => sessions'[s].version > 1
    BY <1>1, <1>3, <1>4, <1>5 DEF GoodRow
  <2>4. u \in Ids' /\ Knows(sessions'[s], users'[u])
    BY <1>1, <1>2, <1>3, <1>4 DEF Knows, Live, Ids
  <2>5. QED
    BY <1>4, <2>1, <2>2, <2>3, <2>4 DEF SessionInv
<1>7. ASSUME NEW x \in Sids \ {s} PROVE SessionInv(x)'
  <2>1. /\ sessions'[x] = sessions[x] /\ (x \in entered' <=> x \in entered)
        /\ SessionInv(x)
    BY <1>1, <1>4, <1>7 DEF IInv
  <2>2. QED
    BY <1>2, <2>1 DEF SessionInv, Ids
<1>8. TypeOK'
  BY <1>1, <1>2, <1>4 DEF IInv, TypeOK
<1>9. QED
  BY <1>2, <1>6, <1>7, <1>8 DEF IInv

LEMMA DropInv ==
    ASSUME IInv, NEW s \in Sids, Logout(s) \/ CallRefused(s) PROVE IInv'
<1>1. /\ sessions' = [sessions EXCEPT ![s] = NoSession]
      /\ entered' = entered \ {s} /\ carried' = carried \ {s}
      /\ UNCHANGED <<phase, users, licence, package, restores>>
  BY DEF Logout, CallRefused, Drop, dbVars
<1>2. sessions'[s] = NoSession /\ \A x \in Sids \ {s} : sessions'[x] = sessions[x]
  BY <1>1 DEF IInv, TypeOK
<1>3. ASSUME NEW x \in Sids PROVE SessionInv(x)'
  <2>1. SessionInv(x)
    BY DEF IInv
  <2>2. QED
    BY <1>1, <1>2, <2>1 DEF SessionInv, Ids
<1>4. TypeOK'
  BY <1>1 DEF IInv, TypeOK
<1>5. QED
  BY <1>1, <1>3, <1>4 DEF IInv

\* A package holds a table as good as the database's, and sessions that a
\* restore finds open are carried.
LEMMA PackageInv ==
    ASSUME IInv, NEW s \in Sids, TakeBackup(s) \/ Restore(s) PROVE IInv'
<1>1. CASE TakeBackup(s)
  <2>1. /\ package' = [users |-> users, licence |-> licence]
        /\ UNCHANGED <<phase, sessions, entered, carried, users, licence, restores>>
    BY <1>1 DEF TakeBackup, sessionVars
  <2>2. package'.users = users /\ package' \in [users : Seq(Row), licence : BOOLEAN]
    BY <2>1 DEF IInv, TypeOK
  <2>3. TypeOK' /\ \A x \in Sids : SessionInv(x)'
    BY <2>1, <2>2 DEF IInv, TypeOK, SessionInv, Ids
  <2>4. QED
    BY <2>1, <2>2, <2>3 DEF IInv, TypeOK
<1>2. CASE Restore(s)
  <2>1. /\ users' = package.users /\ licence' = package.licence
        /\ restores' = restores + 1 /\ package' \in {package, NoPackage}
        /\ carried' = {x \in Sids : sessions[x] # NoSession}
        /\ UNCHANGED <<phase, sessions, entered>>
    BY <1>2 DEF Restore
  <2>2. Table(package'.users) /\ Len(package'.users) <= MaxUsers
        /\ package' \in [users : Seq(Row), licence : BOOLEAN]
    <3>1. Table(<<>>) /\ Len(<<>>) <= MaxUsers
      BY UsersAssumption DEF Table
    <3>2. CASE package' = package
      BY <3>2 DEF IInv, TypeOK
    <3>3. CASE package' = NoPackage
      BY <3>1, <3>3 DEF NoPackage
    <3>4. QED
      BY <2>1, <3>2, <3>3
  <2>3. TypeOK'
    BY <2>1, <2>2 DEF IInv, TypeOK
  <2>4. ASSUME NEW x \in Sids PROVE SessionInv(x)'
    <3>1. SessionInv(x)
      BY DEF IInv
    <3>2. QED
      BY <2>1, <3>1 DEF SessionInv
  <2>5. QED
    BY <2>1, <2>2, <2>3, <2>4 DEF IInv
<1>3. QED
  BY <1>1, <1>2

\* Only an empty table needs the default administrator, and nothing in it can
\* be in his way.
LEMMA StartInv == ASSUME IInv, Start PROVE IInv'
<1>1. CASE ~ NeedsDefaultAdmin
  <2>1. phase' = "up" /\ UNCHANGED <<users, sessions, entered, carried, licence, package, restores>>
    BY <1>1 DEF Start, sessionVars
  <2>2. QED
    BY <2>1 DEF IInv, TypeOK, SessionInv, Ids
<1>2. CASE NeedsDefaultAdmin
  <2>1. users = <<>>
    BY <1>2, AdminIsActive DEF NeedsDefaultAdmin, IInv
  <2>2. Len(users) + 1 = 1 /\ Constraints(1, DefaultAdmin)
    BY <2>1 DEF Constraints, NameFree, AdminFree, Ids
  <2>3. /\ phase' = "up" /\ Insert(DefaultAdmin)
        /\ UNCHANGED <<sessionVars, licence, package, restores>>
    BY <1>2, <2>2 DEF Start
  <2>4. GoodRow(1, DefaultAdmin)
    BY UsersAssumption DEF DefaultAdmin, NewRow, GoodRow, RoleOf, Row, Roles
  <2>5. QED
    BY <2>2, <2>3, <2>4, InsertedInv
<1>3. QED
  BY <1>1, <1>2

LEMMA OtherInv ==
    ASSUME IInv, Stop \/ LicenceEnds \/ (\E code \in Codes : Activate(code)) \/ UNCHANGED vars
    PROVE  IInv'
<1>1. CASE Stop
  <2>1. /\ phase' = "down" /\ sessions' = [s \in Sids |-> NoSession]
        /\ entered' = {} /\ carried' = {}
        /\ UNCHANGED <<users, licence, package, restores>>
    BY <1>1 DEF Stop, dbVars
  <2>2. QED
    BY <2>1 DEF IInv, TypeOK, SessionInv, Ids
<1>2. CASE LicenceEnds \/ (\E code \in Codes : Activate(code)) \/ UNCHANGED vars
  <2>1. /\ licence' \in BOOLEAN
        /\ UNCHANGED <<phase, users, sessions, entered, carried, package, restores>>
    BY <1>2 DEF LicenceEnds, Activate, vars, sessionVars, dbVars, IInv, TypeOK
  <2>2. QED
    BY <2>1 DEF IInv, TypeOK, SessionInv, Ids
<1>3. QED
  BY <1>1, <1>2

LEMMA InvInit == ASSUME Init PROVE IInv
<1>1. /\ users = <<>> /\ package.users = <<>> /\ phase = "down"
      /\ \A s \in Sids : sessions[s] = NoSession /\ s \notin entered
  BY DEF Init, NoPackage
<1>2. TypeOK
  <2>1. package \in [users : Seq(Row), licence : BOOLEAN]
    BY DEF Init, NoPackage
  <2>2. sessions \in [Sids -> SessionRecord \union {NoSession}]
    BY DEF Init
  <2>3. users \in Seq(Row) /\ Len(users) <= MaxUsers
    BY <1>1, UsersAssumption
  <2>4. entered \subseteq Sids /\ carried \subseteq Sids /\ restores \in Nat
    BY DEF Init
  <2>5. licence \in BOOLEAN
    BY DEF Init
  <2>6. QED
    BY <1>1, <2>1, <2>2, <2>3, <2>4, <2>5, Zenon DEF TypeOK
<1>3. QED
  BY <1>1, <1>2, UsersAssumption DEF IInv, Table, SessionInv

LEMMA InvStep == ASSUME IInv, [Next]_vars PROVE IInv'
<1>1. ASSUME NEW s \in Sids, Manage(s) PROVE IInv'
  BY <1>1, CreateUserInv, RemoveUserInv, UpdateUserInv, PackageInv DEF Manage
<1>2. ASSUME NEW s \in Sids, NEW old \in Passwords, NEW new \in Passwords,
             ChangePassword(s, old, new)
      PROVE  IInv'
  BY <1>2, ChangePasswordInv
<1>3. ASSUME NEW s \in Sids, NEW name \in Names, NEW password \in Passwords,
             Login(s, name, password)
      PROVE  IInv'
  BY <1>3, LoginInv
<1>4. ASSUME NEW s \in Sids, Logout(s) \/ CallRefused(s) PROVE IInv'
  BY <1>4, DropInv
<1>5. ASSUME NEW name \in Names, NEW new \in Passwords, Recover(name, new) PROVE IInv'
  BY <1>5, RecoverInv
<1>6. CASE \/ Start \/ Stop \/ LicenceEnds
           \/ (\E code \in Codes : Activate(code)) \/ UNCHANGED vars
  BY <1>6, StartInv, OtherInv
<1>7. QED
  BY <1>1, <1>2, <1>3, <1>4, <1>5, <1>6 DEF Next

\* The inductive invariant, for all names, passwords, sessions and bounds.
THEOREM UsersInvariance == Spec => []IInv
BY InvInit, InvStep, PTL DEF Spec

\* Every variable holds a value of its kind.
THEOREM TypeCorrect == Spec => []TypeOK
BY UsersInvariance, PTL DEF IInv

\* There is always one live administrator, and active, once there is a user.
THEOREM OneAdministratorHolds == Spec => []OneAdministrator
<1>1. ASSUME IInv PROVE OneAdministrator
  <2>1. SUFFICES ASSUME users # <<>> PROVE OneAdministrator
    BY DEF OneAdministrator
  <2>2. 1 \in Ids /\ users[1].role = "admin" /\ users[1].active /\ Live(1)
    BY <1>1, <2>1, AdminIsActive DEF IInv, ActiveAdmins
  <2>3. \A v \in Ids : users[v].role = "admin" => v = 1
    BY <1>1 DEF IInv, Table, GoodRow, RoleOf, Ids
  <2>4. QED
    BY <2>2, <2>3 DEF OneAdministrator
<1>2. QED
  BY <1>1, UsersInvariance, PTL

\* No start-up fails on the unguarded insertion of the default administrator.
THEOREM StartUpSucceedsHolds == Spec => []StartUpSucceeds
<1>1. IInv => StartUpSucceeds
  BY DEF IInv, StartUpSucceeds
<1>2. QED
  BY <1>1, UsersInvariance, PTL

\* A session that validates has the role its user has now.
THEOREM RightsAreCurrentHolds == Spec => []RightsAreCurrent
<1>1. ASSUME IInv, NEW s \in Sids, sessions[s] # NoSession, Valid(s)
      PROVE  sessions[s].role = users[sessions[s].uid].role
  BY <1>1 DEF IInv, SessionInv, Valid, Table, GoodRow, Ids
<1>2. IInv => RightsAreCurrent
  BY <1>1 DEF RightsAreCurrent
<1>3. QED
  BY <1>2, UsersInvariance, PTL

\* No session rests on a password its user has replaced.
THEOREM SessionsRestOnPasswordHolds == Spec => []SessionsRestOnPassword
<1>1. ASSUME IInv, NEW s \in Sids \ carried, sessions[s] # NoSession, Valid(s)
      PROVE  sessions[s].secret = users[sessions[s].uid].password
  BY <1>1 DEF IInv, SessionInv, Knows, Valid
<1>2. IInv => SessionsRestOnPassword
  BY <1>1 DEF SessionsRestOnPassword
<1>3. QED
  BY <1>2, UsersInvariance, PTL

\* Nobody is in a shell with a password that has to be changed.
THEOREM ShellAfterChangeHolds == Spec => []ShellAfterChange
<1>1. ASSUME IInv, NEW s \in entered, Valid(s) PROVE ~ users[sessions[s].uid].mustChange
  <2>1. s \in Sids /\ SessionInv(s) /\ sessions[s] # NoSession
    BY <1>1 DEF IInv, TypeOK, SessionInv
  <2>2. sessions[s].uid \in Ids /\ users[sessions[s].uid].version = sessions[s].version
    BY <1>1 DEF Valid
  <2>3. GoodRow(sessions[s].uid, users[sessions[s].uid])
    BY <1>1, <2>2 DEF IInv, Table, Ids
  <2>4. sessions[s].uid = 1 => sessions[s].version # 1
    BY <1>1, <2>1 DEF SessionInv
  <2>5. QED
    BY <2>2, <2>3, <2>4 DEF GoodRow
<1>2. IInv => ShellAfterChange
  BY <1>1 DEF ShellAfterChange
<1>3. QED
  BY <1>2, UsersInvariance, PTL

-----------------------------------------------------------------------------
\* Outside a restore rows are never taken away and never lose a version.
Grows == \A u \in Ids : u \in Ids' /\ users'[u].version >= users[u].version

LEMMA UpdateGrows ==
    ASSUME IInv, NEW u \in Ids, NEW row, Update(u, row), row.version >= users[u].version
    PROVE  Grows
<1>1. \A v \in Ids : users[v].version \in Nat
  BY DataTypes DEF IInv, Row
<1>2. QED
  BY <1>1, DataTypes DEF IInv, Update, Grows, Ids

LEMMA InsertGrows == ASSUME IInv, NEW row, Insert(row) PROVE Grows
<1>1. \A v \in Ids : users[v].version \in Nat
  BY DataTypes DEF IInv, Row
<1>2. QED
  BY <1>1, DataTypes DEF IInv, Insert, Grows, Ids

LEMMA AloneGrows == ASSUME IInv, UNCHANGED users PROVE Grows
<1>1. \A v \in Ids : users[v].version \in Nat
  BY DataTypes DEF IInv, Row
<1>2. QED
  BY <1>1 DEF Grows, Ids

LEMMA StepGrows ==
    ASSUME IInv, [Next]_vars, \A s \in Sids : ~ Restore(s) PROVE Grows
<1>1. ASSUME NEW u \in Ids, NEW new \in Passwords, Update(u, WithPassword(users[u], new))
      PROVE  Grows
  <2>1. users[u] \in Row /\ users[u].version \in Nat
    BY DataTypes DEF IInv, Row
  <2>2. WithPassword(users[u], new).version >= users[u].version
    BY <2>1 DEF WithPassword, Bumped, Row
  <2>3. QED
    BY <1>1, <2>2, UpdateGrows
<1>2. ASSUME NEW s \in Sids, NEW old \in Passwords, NEW new \in Passwords,
             ChangePassword(s, old, new)
      PROVE  Grows
  BY <1>1, <1>2, ValidRow DEF ChangePassword, Refreshed
<1>3. ASSUME NEW name \in Names, NEW new \in Passwords, Recover(name, new) PROVE Grows
  BY <1>1, <1>3 DEF Recover, Recoverable
<1>4. ASSUME NEW s \in Sids, NEW u \in Ids, NEW name \in Names, NEW role \in Roles,
             NEW active \in BOOLEAN, NEW password \in Passwords,
             UpdateUser(s, u, name, role, active, password)
      PROVE  Grows
  <2>1. users[u] \in Row /\ users[u].version \in Nat
    BY DataTypes DEF IInv, Row
  <2>2. PICK row : /\ Update(u, row)
                   /\ row = BumpedIf(role # users[u].role \/ active # users[u].active,
                               [users[u] EXCEPT !.name = name, !.role = role,
                                                !.active = active, !.password = password])
    BY <1>4 DEF UpdateUser
  <2>3. row.version >= users[u].version
    BY <2>1, <2>2 DEF BumpedIf, Bumped, Row
  <2>4. QED
    BY <2>2, <2>3, UpdateGrows
<1>5. ASSUME NEW s \in Sids, NEW u \in Ids, DisableUser(s, u) \/ DeleteUser(s, u) PROVE Grows
  <2>1. users[u] \in Row /\ users[u].version \in Nat
    BY DataTypes DEF IInv, Row
  <2>2. PICK row : /\ Update(u, row)
                   /\ \/ row = Bumped([users[u] EXCEPT !.active = FALSE])
                      \/ row = Bumped([users[u] EXCEPT !.active = FALSE, !.deleted = TRUE])
    BY <1>5 DEF DisableUser, DeleteUser
  <2>3. row.version >= users[u].version
    <3>1. CASE row = Bumped([users[u] EXCEPT !.active = FALSE])
      BY <2>1, <3>1 DEF Bumped, Row
    <3>2. CASE row = Bumped([users[u] EXCEPT !.active = FALSE, !.deleted = TRUE])
      BY <2>1, <3>2 DEF Bumped, Row
    <3>3. QED
      BY <2>2, <3>1, <3>2
  <2>4. QED
    BY <2>2, <2>3, UpdateGrows
<1>6. ASSUME NEW s \in Sids, NEW name \in Names, NEW password \in Passwords,
             NEW role \in Roles, NEW active \in BOOLEAN,
             CreateUser(s, name, password, role, active)
      PROVE  Grows
  BY <1>6, InsertGrows DEF CreateUser
<1>7. CASE Start
  BY <1>7, InsertGrows, AloneGrows DEF Start
<1>8. ASSUME NEW s \in Sids, NEW name \in Names, NEW password \in Passwords,
             Login(s, name, password)
      PROVE  Grows
  BY <1>8, AloneGrows DEF Login, Authenticates, Recoverable, dbVars
<1>9. ASSUME NEW s \in Sids, Logout(s) \/ CallRefused(s) \/ TakeBackup(s) PROVE Grows
  BY <1>9, AloneGrows DEF Logout, CallRefused, TakeBackup, dbVars
<1>10. CASE Stop \/ LicenceEnds \/ (\E code \in Codes : Activate(code)) \/ UNCHANGED vars
  BY <1>10, AloneGrows DEF Stop, LicenceEnds, Activate, vars, dbVars
<1>11. ASSUME NEW s \in Sids, Manage(s) PROVE Grows
  BY <1>4, <1>5, <1>6, <1>9, <1>11 DEF Manage
<1>12. QED
  BY <1>2, <1>3, <1>7, <1>8, <1>9, <1>10, <1>11 DEF Next

\* A step that leaves an open session alone carries it or leaves it uncarried.
LEMMA StaysUncarried ==
    ASSUME IInv, [Next]_vars, NEW s \in Sids, sessions[s] # NoSession,
           sessions'[s] = sessions[s], s \notin carried'
    PROVE  s \notin carried /\ \A x \in Sids : ~ Restore(x)
<1>1. \A x \in Sids : ~ Restore(x)
  BY DEF Restore
<1>2. CASE UNCHANGED carried
  BY <1>1, <1>2
<1>3. ASSUME NEW x \in Sids, Drop(x) PROVE s \notin carried
  BY <1>3 DEF Drop, IInv, TypeOK
<1>4. CASE Stop
  BY <1>4 DEF Stop
<1>5. ASSUME NEW x \in Sids, Manage(x) PROVE UNCHANGED carried
  BY <1>1, <1>5
     DEF Manage, CreateUser, UpdateUser, DisableUser, DeleteUser, TakeBackup, sessionVars
<1>6. CASE Start \/ LicenceEnds \/ (\E code \in Codes : Activate(code)) \/ UNCHANGED vars
  BY <1>2, <1>6, <1>1 DEF Start, LicenceEnds, Activate, vars, sessionVars
<1>7. QED
  BY <1>1, <1>2, <1>3, <1>4, <1>5, <1>6
     DEF Next, Login, Authenticates, Recoverable, ChangePassword, Refreshed, Recover, Logout, CallRefused, sessionVars

\* A session that fails to validate never validates again, unless it is carried
\* over a restore.
THEOREM SessionsStayDeadHolds == Spec => SessionsStayDead
<1>1. ASSUME IInv, [Next]_vars, NEW s \in Sids, sessions[s] # NoSession, ~ Valid(s),
             sessions'[s] = sessions[s], s \notin carried'
      PROVE  ~ Valid(s)'
  <2>1. s \notin carried /\ Grows
    BY <1>1, StaysUncarried, StepGrows
  <2>2. /\ sessions[s].uid \in Ids /\ Knows(sessions[s], users[sessions[s].uid])
        /\ sessions[s].version \in Nat
    BY <1>1, <2>1 DEF IInv, SessionInv, TypeOK, SessionRecord
  <2>3. users[sessions[s].uid].version \in Nat
    BY <1>1, <2>2, DataTypes DEF IInv, Row
  <2>4. sessions[s].version < users[sessions[s].uid].version
    BY <1>1, <2>2, <2>3 DEF Knows, Valid, Live
  <2>5. users'[sessions[s].uid].version >= users[sessions[s].uid].version
    BY <2>1, <2>2 DEF Grows
  <2>6. users'[sessions[s].uid].version # sessions[s].version
    BY <2>2, <2>3, <2>4, <2>5
  <2>7. QED
    BY <1>1, <2>6 DEF Valid
<1>2. ASSUME IInv, [Next]_vars
      PROVE  \A s \in Sids : /\ sessions[s] # NoSession /\ ~ Valid(s)
                             /\ sessions'[s] = sessions[s] /\ s \notin carried'
                             => ~ Valid(s)'
  BY <1>1, <1>2
<1>3. QED
  BY <1>2, UsersInvariance, PTL DEF SessionsStayDead, Spec

\* The accounts admit their one administrator: the parts together.
THEOREM AccountsSoundHolds == Spec => []AccountsSound
  BY TypeCorrect, OneAdministratorHolds, StartUpSucceedsHolds, PTL DEF AccountsSound

\* Sessions rest on what the database holds: the parts together.
THEOREM SessionsSoundHolds == Spec => []SessionsSound
  BY RightsAreCurrentHolds, SessionsRestOnPasswordHolds, ShellAfterChangeHolds, PTL DEF SessionsSound
-----------------------------------------------------------------------------
(* The page over the accounts: a behaviour of AccountPages is one of Users. *)

\* The page calls the services with values they take: what is edited comes from the
\* form, what is not from the row itself.
LEMMA ManagedStep == ASSUME NEW s \in Sids, Manage(s) PROVE Next
BY DEF Next

LEMMA EnableStep ==
    ASSUME IInv, NEW s \in Sids, NEW u \in Ids,
           UpdateUser(s, u, users[u].name, users[u].role, TRUE, users[u].password)
    PROVE  Next
<1>1. users[u].name \in Names /\ users[u].role \in Roles /\ users[u].password \in Passwords
  BY DataTypes DEF IInv, Row
<1>2. Manage(s)
  BY <1>1 DEF Manage
<1>3. QED
  BY <1>2, ManagedStep

LEMMA CallStep ==
    ASSUME NEW s \in Sids, Fails(s) PROVE Next \/ UNCHANGED vars
BY DEF Fails, Next

LEMMA PageStep ==
    ASSUME IInv, PagesNext PROVE Next \/ UNCHANGED vars
<1>1. CASE follows = Nobody /\ Next /\ UNCHANGED <<follows, pageVars>>
  BY <1>1
<1>2. ASSUME NEW s \in Sids, Followed(s) PROVE Next \/ UNCHANGED vars
  <2>1. CASE _users_page(s)
    BY <2>1, CallStep DEF _users_page
  <2>2. ASSUME apply_filters(s) PROVE Next \/ UNCHANGED vars
    BY <2>2, CallStep DEF apply_filters
  <2>3. CASE _selection_changed
    BY <2>3 DEF _selection_changed
  <2>4. CASE open_create_dialog(s)
    <3>1. Manage(s)
      BY <2>4 DEF open_create_dialog, Manage
    <3>2. QED
      BY <3>1, ManagedStep
  <2>5. CASE open_edit_dialog(s)
    <3>1. PICK form \in Forms : /\ chosen \in Ids
                                /\ UpdateUser(s, chosen, form.name, form.role, form.active, form.password)
      BY <2>5 DEF open_edit_dialog
    <3>2. form.name \in Names /\ form.role \in Roles /\ form.active \in BOOLEAN
          /\ form.password \in Passwords
      BY DEF Forms
    <3>3. Manage(s)
      BY <3>1, <3>2 DEF Manage
    <3>4. QED
      BY <3>3, ManagedStep
  <2>6. CASE DialogFails(s)
    BY <2>6, CallStep DEF DialogFails
  <2>7. ASSUME NEW active \in BOOLEAN, set_selected_active(s, active) PROVE Next \/ UNCHANGED vars
    <3>1. CASE Fails(s)
      BY <3>1, CallStep
    <3>2. CASE /\ chosen \in Ids
               /\ UpdateUser(s, chosen, users[chosen].name, users[chosen].role, TRUE,
                             users[chosen].password)
      BY <3>2, EnableStep
    <3>3. CASE chosen \in Ids /\ DisableUser(s, chosen)
      <4>1. Manage(s)
        BY <3>3 DEF Manage
      <4>2. QED
        BY <4>1, ManagedStep
    <3>4. QED
      BY <2>7, <3>1, <3>2, <3>3 DEF set_selected_active
  <2>8. CASE enter_shell(s)
    BY <2>8 DEF enter_shell, ChangePasswordDialog, Next
  <2>9. CASE LoginDialogs(s)
    BY <2>9 DEF LoginDialogs, PasswordRecoveryDialog, LicenseDialog, Next
  <2>10. CASE return_to_login(s)
    BY <2>10 DEF return_to_login, Next
  <2>11. CASE OtherPages(s)
    BY <2>11, ManagedStep DEF OtherPages, Manage, Next
  <2>12. CASE AfterDrop(s)
    BY <2>2, <2>12 DEF AfterDrop
  <2>13. CASE Elsewhere
    BY <2>13 DEF Elsewhere, Next
  <2>14. QED
    BY <1>2, <2>1, <2>2, <2>3, <2>4, <2>5, <2>6, <2>7, <2>8, <2>9, <2>10, <2>11, <2>12, <2>13
       DEF Followed
<1>3. QED
  BY <1>1, <1>2 DEF PagesNext

\* The page, its dialogs and the shell call the services and nothing else: the
\* accounts, the sessions and the licence under them behave as Users says.
THEOREM PagesImplementUsers == PagesSpec => Spec
<1>1. PagesInit => Init
  BY DEF PagesInit
<1>2. IInv /\ [PagesNext]_everything => [Next]_vars
  BY PageStep DEF everything
<1>3. Init => IInv
  BY InvInit
<1>4. IInv /\ [Next]_vars => IInv'
  BY InvStep
<1>5. QED
  BY <1>1, <1>2, <1>3, <1>4, PTL DEF PagesSpec, Spec

\* So what is proved of the accounts holds under the pages.
THEOREM PagesKeepAccounts ==
    PagesSpec => []AccountsSound /\ []SessionsSound /\ SessionsStayDead
BY PagesImplementUsers, AccountsSoundHolds, SessionsSoundHolds, SessionsStayDeadHolds
-----------------------------------------------------------------------------
(* What the page shows, while no package was restored behind it, is what   *)
(* the table holds.                                                        *)

Mirrors(rows, table) ==
    \A u \in DOMAIN rows :
        /\ u \in DOMAIN table
        /\ rows[u].name = table[u].name /\ rows[u].role = table[u].role
        /\ rows[u].active = table[u].active

ShownInv == /\ follows = Nobody => ~ opened
            /\ opened /\ ~ stale => Mirrors(shown, users)

\* However a call ends, the rows are those of the table after it, or none.
LEMMA ReloadMirrors ==
    ASSUME NEW s, Reloads(s) \/ _show_load_error \/ \E f \in Filters : load_users(f)
    PROVE  Mirrors(shown', users')
<1>1. ASSUME NEW f, load_users(f) PROVE Mirrors(shown', users')
  BY <1>1 DEF load_users, list_users, Mirrors
<1>2. CASE _show_load_error
  BY <1>2 DEF _show_load_error, NoRows, Mirrors
<1>3. QED
  BY <1>1, <1>2 DEF Reloads

LEMMA LeftMirrors ==
    ASSUME ShownInv, follows' = follows, opened' = opened,
           stale' = stale, shown' = shown, users' = users
    PROVE  ShownInv'
BY DEF ShownInv

\* Only the followed session's dialogs, a restore and a start change the table.
LEMMA RefusedTable == ASSUME NEW s, Fails(s) PROVE users' = users
BY DEF Fails, CallRefused, dbVars, vars

LEMMA StartTable ==
    ASSUME IInv, Start PROVE \A u \in Ids : u \in DOMAIN users' /\ users'[u] = users[u]
<1>1. CASE users = <<>>
  BY <1>1 DEF Ids
<1>2. CASE users # <<>>
  <2>1. 1 \in Ids /\ Live(1)
    BY <1>2, AdminIsActive DEF IInv, ActiveAdmins
  <2>2. ~ NeedsDefaultAdmin
    BY <2>1 DEF NeedsDefaultAdmin
  <2>3. users' = users
    BY <2>2 DEF Start
  <2>4. QED
    BY <2>3 DEF Ids
<1>3. QED
  BY <1>1, <1>2

LEMMA ShownStep ==
    ASSUME IInv, ShownInv, [PagesNext]_everything PROVE ShownInv'
<1>1. CASE UNCHANGED everything \/ (follows = Nobody /\ Next /\ UNCHANGED <<follows, pageVars>>)
  BY <1>1 DEF ShownInv, everything, pageVars, vars, dbVars
<1>2. ASSUME NEW s \in Sids, Followed(s) PROVE ShownInv'
  <2>0. follows' = follows /\ follows # Nobody
    BY <1>2, PagesAssumption DEF Followed
  <2>1. ASSUME Mirrors(shown', users') PROVE ShownInv'
    BY <2>0, <2>1 DEF ShownInv
  <2>2. ASSUME stale' \/ ~ opened' PROVE ShownInv'
    BY <2>0, <2>2 DEF ShownInv
  <2>3. CASE _users_page(s)
    <3>1. Mirrors(shown', users')
      BY <2>3, ReloadMirrors DEF _users_page, NoFilter, Filters, Roles
    <3>2. QED
      BY <2>1, <3>1
  <2>4. ASSUME apply_filters(s) PROVE ShownInv'
    BY <2>1, <2>4, ReloadMirrors DEF apply_filters
  <2>5. CASE _selection_changed
    BY <2>0, <2>5, LeftMirrors DEF _selection_changed, vars, dbVars
  <2>6. CASE open_create_dialog(s) \/ open_edit_dialog(s)
    BY <2>1, <2>6, ReloadMirrors DEF open_create_dialog, open_edit_dialog
  <2>7. CASE DialogFails(s)
    BY <2>0, <2>7, RefusedTable, LeftMirrors DEF DialogFails, pageVars
  <2>8. ASSUME NEW active \in BOOLEAN, set_selected_active(s, active) PROVE ShownInv'
    <3>1. Reloads(s) \/ _show_load_error
      BY <2>8 DEF set_selected_active
    <3>2. QED
      BY <2>1, <3>1, ReloadMirrors
  <2>9. CASE enter_shell(s) \/ LoginDialogs(s)
    BY <2>2, <2>9 DEF enter_shell, LoginDialogs, pageVars
  <2>10. CASE return_to_login(s)
    BY <2>2, <2>10 DEF return_to_login, Closed
  <2>11. CASE OtherPages(s)
    <3>1. CASE Restore(s) /\ stale' = TRUE
      BY <2>2, <3>1
    <3>2. CASE (TakeBackup(s) \/ CallRefused(s)) /\ UNCHANGED pageVars
      BY <2>0, <3>2, LeftMirrors DEF TakeBackup, CallRefused, dbVars, pageVars
    <3>3. QED
      BY <2>11, <3>1, <3>2 DEF OtherPages
  <2>12. CASE AfterDrop(s)
    BY <2>2, <2>4, <2>12 DEF AfterDrop, Closed
  <2>13. CASE Elsewhere
    <3>1. CASE Start /\ UNCHANGED pageVars
      <4>1. \A u \in Ids : u \in DOMAIN users' /\ users'[u] = users[u]
        BY <3>1, StartTable
      <4>2. QED
        BY <2>0, <3>1, <4>1 DEF ShownInv, Mirrors, Ids, pageVars
    <3>2. CASE Stop /\ Closed
      BY <2>2, <3>2 DEF Closed
    <3>3. CASE LicenceEnds /\ UNCHANGED pageVars
      BY <2>0, <3>3, LeftMirrors DEF LicenceEnds, pageVars
    <3>4. QED
      BY <2>13, <3>1, <3>2, <3>3 DEF Elsewhere
  <2>14. QED
    BY <1>2, <2>3, <2>4, <2>5, <2>6, <2>7, <2>8, <2>9, <2>10, <2>11, <2>12, <2>13
       DEF Followed
<1>3. QED
  BY <1>1, <1>2 DEF PagesNext

\* The rows the page shows are those of the table, unless a package was restored
\* since they were loaded.
THEOREM PageShowsTheTable == PagesSpec => []ShownInv
<1>1. PagesInit => ShownInv
  BY DEF PagesInit, ShownInv
<1>2. QED
  BY <1>1, ShownStep, PagesImplementUsers, UsersInvariance, PTL DEF PagesSpec

\* A row that is left alone differs in no field; one that is written, where the
\* fields sent are not those it had.
LEMMA AloneDiffers ==
    ASSUME NEW u, users'[u] = users[u] PROVE Differs(u) = {}
BY DEF Differs

Edited == \A u \in Ids : Differs(u) # {} => u = chosen /\ Differs(u) \subseteq edited'

LEMMA UnchangedEdited ==
    ASSUME \A u \in Ids : users'[u] = users[u] PROVE Edited
BY AloneDiffers DEF Edited

LEMMA WrittenEdited ==
    ASSUME IInv, NEW row, chosen \in Ids, users' = [users EXCEPT ![chosen] = row],
           \A f \in Fields : row[f] # users[chosen][f] => f \in edited'
    PROVE  Edited
<1>1. users'[chosen] = row /\ \A u \in Ids \ {chosen} : users'[u] = users[u]
  BY DataTypes DEF IInv, Ids
<1>2. \A u \in Ids : u # chosen => Differs(u) = {}
  BY <1>1, AloneDiffers
<1>3. Differs(chosen) \subseteq edited'
  BY <1>1 DEF Differs
<1>4. QED
  BY <1>2, <1>3 DEF Edited

\* A row before its version is held against the bound.
WideRow == [name : Names, role : Roles, active : BOOLEAN, deleted : BOOLEAN,
            version : Nat, password : Passwords, mustChange : BOOLEAN]

LEMMA WideOff ==
    ASSUME NEW r \in Row
    PROVE  LET row == [r EXCEPT !.active = FALSE] IN
           /\ row \in WideRow
           /\ row["name"] = r["name"] /\ row["role"] = r["role"]
           /\ row["password"] = r["password"]
<1>1. r \in WideRow
  BY UsersAssumption DEF Row, WideRow
<1>2. QED
  BY <1>1 DEF WideRow

LEMMA BumpedFields ==
    ASSUME NEW row \in WideRow, NEW c, NEW f \in Fields
    PROVE  BumpedIf(c, row)[f] = row[f] /\ Bumped(row)[f] = row[f]
BY DEF BumpedIf, Bumped, Fields, WideRow

LEMMA UpdatedEdited ==
    ASSUME IInv, NEW s \in Sids, chosen \in Ids, NEW name \in Names, NEW role \in Roles,
           NEW active \in BOOLEAN, NEW password \in Passwords,
           UpdateUser(s, chosen, name, role, active, password),
           name # users[chosen].name => "name" \in edited',
           role # users[chosen].role => "role" \in edited',
           active # users[chosen].active => "active" \in edited',
           password # users[chosen].password => "password" \in edited'
    PROVE  Edited
<1> DEFINE old == users[chosen]
           row == [old EXCEPT !.name = name, !.role = role, !.active = active,
                              !.password = password]
           new == BumpedIf(role # old.role \/ active # old.active, row)
<1>1. old \in Row
  BY DataTypes DEF IInv
<1>2. /\ row \in WideRow
      /\ row["name"] = name /\ row["role"] = role /\ row["active"] = active
      /\ row["password"] = password
  <2>1. old \in WideRow
    BY <1>1, UsersAssumption DEF Row, WideRow
  <2> HIDE DEF old
  <2>2. QED
    BY <2>1 DEF WideRow
<1>3. \A f \in Fields : new[f] = row[f]
  <2> HIDE DEF row
  <2> QED BY <1>2, BumpedFields
<1>4. users' = [users EXCEPT ![chosen] = new]
  BY DEF UpdateUser, Update
<1>5. \A f \in Fields : new[f] # old[f] => f \in edited'
  <2> HIDE DEF row, new, old
  <2>1. ASSUME NEW f \in Fields, row[f] # old[f] PROVE f \in edited'
    <3>1. row.name # old.name => "name" \in edited'
      BY <1>2 DEF old
    <3>2. row.role # old.role => "role" \in edited'
      BY <1>2 DEF old
    <3>3. row.active # old.active => "active" \in edited'
      BY <1>2 DEF old
    <3>4. row.password # old.password => "password" \in edited'
      BY <1>2 DEF old
    <3>5. QED
      BY <2>1, <3>1, <3>2, <3>3, <3>4 DEF Fields
  <2>2. QED
    BY <1>3, <2>1
<1>6. QED
  <2> HIDE DEF row, new
  <2> QED BY <1>4, <1>5, WrittenEdited

LEMMA EditedByDialog ==
    ASSUME IInv, ShownInv, opened, ~ stale, NEW s \in Sids, open_edit_dialog(s)
    PROVE  Edited
<1>1. PICK form \in Forms, fields \in SUBSET Fields :
          /\ Filled(chosen, form, fields) /\ Changes(fields)
          /\ UpdateUser(s, chosen, form.name, form.role, form.active, form.password)
  BY DEF open_edit_dialog
<1>2. chosen \in Ids /\ chosen \in DOMAIN shown /\ edited' = fields
  BY <1>1 DEF open_edit_dialog, Changes
<1>3. /\ shown[chosen].name = users[chosen].name /\ shown[chosen].role = users[chosen].role
      /\ shown[chosen].active = users[chosen].active
  BY <1>2 DEF ShownInv, Mirrors
<1>4. /\ form.name \in Names /\ form.role \in Roles /\ form.active \in BOOLEAN
      /\ form.password \in Passwords
  BY DEF Forms
<1>5. /\ form["name"] # shown[chosen]["name"] => "name" \in fields
      /\ form["role"] # shown[chosen]["role"] => "role" \in fields
      /\ form["active"] # shown[chosen]["active"] => "active" \in fields
      /\ form.password # users[chosen].password => "password" \in fields
  BY <1>1 DEF Filled
<1>6. QED
  BY <1>1, <1>2, <1>3, <1>4, <1>5, UpdatedEdited

LEMMA EditedByButton ==
    ASSUME IInv, opened, NEW s \in Sids, NEW active \in BOOLEAN, set_selected_active(s, active)
    PROVE  Edited
<1>1. CASE Fails(s)
  BY <1>1, RefusedTable, UnchangedEdited
<1>2. CASE chosen \in Ids /\ Changes({"active"})
           /\ UpdateUser(s, chosen, users[chosen].name, users[chosen].role, TRUE,
                         users[chosen].password)
  <2>1. /\ users[chosen].name \in Names /\ users[chosen].role \in Roles
        /\ users[chosen].password \in Passwords
    BY <1>2, DataTypes DEF IInv, Row
  <2>2. "active" \in edited'
    BY <1>2 DEF Changes
  <2>3. QED
    BY <1>2, <2>1, <2>2, UpdatedEdited
<1>3. CASE chosen \in Ids /\ Changes({"active"}) /\ DisableUser(s, chosen)
  <2> DEFINE row == [users[chosen] EXCEPT !.active = FALSE]
  <2>1. users[chosen] \in Row
    BY <1>3, DataTypes DEF IInv
  <2>2. /\ row \in WideRow
        /\ row["name"] = users[chosen]["name"] /\ row["role"] = users[chosen]["role"]
        /\ row["password"] = users[chosen]["password"]
    BY <2>1, WideOff
  <2>3. \A f \in Fields : Bumped(row)[f] = row[f]
    <3> HIDE DEF row
    <3> QED BY <2>2, BumpedFields
  <2>4. "active" \in edited'
    BY <1>3 DEF Changes
  <2>5. users' = [users EXCEPT ![chosen] = Bumped(row)]
    BY <1>3 DEF DisableUser, Update
  <2>6. \A f \in Fields : Bumped(row)[f] # users[chosen][f] => f \in edited'
    <3> HIDE DEF row
    <3> QED BY <2>2, <2>3, <2>4 DEF Fields
  <2>7. QED
    <3> HIDE DEF row
    <3> QED BY <1>3, <2>5, <2>6, WrittenEdited
<1>4. QED
  BY <1>1, <1>2, <1>3 DEF set_selected_active

LEMMA EditedStep ==
    ASSUME IInv, ShownInv, [PagesNext]_everything, opened, opened', ~ stale, ~ stale'
    PROVE  Edited
<1>1. CASE UNCHANGED everything
  BY <1>1, UnchangedEdited DEF everything, vars, dbVars
<1>2. CASE follows = Nobody
  BY <1>2 DEF ShownInv
<1>3. ASSUME NEW s \in Sids, Followed(s) PROVE Edited
  <2>1. CASE _users_page(s) \/ enter_shell(s) \/ LoginDialogs(s)
    BY <2>1 DEF _users_page, enter_shell, LoginDialogs
  <2>2. CASE return_to_login(s) \/ Closed
    BY <2>2 DEF return_to_login, Closed
  <2>3. ASSUME apply_filters(s) PROVE Edited
    BY <2>3, RefusedTable, UnchangedEdited DEF apply_filters, vars, dbVars
  <2>4. CASE _selection_changed
    BY <2>4, UnchangedEdited DEF _selection_changed, vars, dbVars
  <2>5. CASE open_create_dialog(s)
    <3>1. PICK row : users' = Append(users, row)
      BY <2>5 DEF open_create_dialog, CreateUser, Insert
    <3>2. \A u \in Ids : users'[u] = users[u]
      BY <3>1, DataTypes DEF IInv, Ids
    <3>3. QED
      BY <3>2, UnchangedEdited
  <2>6. CASE open_edit_dialog(s)
    BY <2>6, EditedByDialog
  <2>7. CASE DialogFails(s)
    BY <2>7, RefusedTable, UnchangedEdited DEF DialogFails
  <2>8. CASE \E active \in BOOLEAN : set_selected_active(s, active)
    BY <2>8, EditedByButton
  <2>9. CASE OtherPages(s)
    <3>1. stale' # TRUE
      OBVIOUS
    <3>2. users' = users
      BY <2>9, <3>1 DEF OtherPages, TakeBackup, CallRefused, dbVars
    <3>3. QED
      BY <3>2, UnchangedEdited
  <2>10. CASE AfterDrop(s)
    BY <2>2, <2>3, <2>10 DEF AfterDrop
  <2>11. CASE Elsewhere
    <3>1. CASE Start
      BY <3>1, StartTable, UnchangedEdited
    <3>2. CASE LicenceEnds
      BY <3>2, UnchangedEdited DEF LicenceEnds
    <3>3. QED
      BY <2>2, <2>11, <3>1, <3>2 DEF Elsewhere
  <2>12. QED
    BY <1>3, <2>1, <2>2, <2>3, <2>4, <2>5, <2>6, <2>7, <2>8, <2>9, <2>10, <2>11 DEF Followed
<1>4. QED
  BY <1>1, <1>2, <1>3 DEF PagesNext

\* The page changes of an account only the row chosen, and of it only the fields
\* edited by hand: what it sends besides is what the table holds.
THEOREM AccountsEditedAsShownAlways == PagesSpec => AccountsEditedAsShown
<1>1. IInv /\ ShownInv /\ [PagesNext]_everything
      => [opened /\ opened' /\ ~ stale /\ ~ stale' => Edited]_everything
  BY EditedStep
<1>2. [opened /\ opened' /\ ~ stale /\ ~ stale' => Edited]_everything
      <=> [opened /\ opened' /\ ~ stale /\ ~ stale' =>
              \A u \in Ids : Differs(u) # {} => u = chosen /\ Differs(u) \subseteq edited']_everything
  BY DEF Edited
<1>3. QED
  BY <1>1, <1>2, PageShowsTheTable, PagesImplementUsers, UsersInvariance, PTL
     DEF PagesSpec, AccountsEditedAsShown
=============================================================================
