------------------------------- MODULE Users -------------------------------
(***************************************************************************)
(* Accounts, sessions and the licence: services/auth_service.py,           *)
(* services/user_service.py, services/permission_guard.py,                 *)
(* services/permissions.py, services/license_service.py, and the way the   *)
(* login window leads into the shell (main.py, ui/login).                  *)
(*                                                                         *)
(* Every call is made on the GUI thread and is one step.  SessionStore     *)
(* holds any number of sessions, as the tests use it; the shell opens one  *)
(* at a time.  The users and the licence are tables of the database, so a  *)
(* restored package brings back those of the time of the backup, while the *)
(* sessions are in memory.                                                 *)
(***************************************************************************)
EXTENDS Naturals, Sequences

CONSTANTS Names,         \* user names; DefaultName is one of them
          Passwords,     \* passwords that satisfy the policy; DefaultPassword is one
          DefaultName, DefaultPassword,
          Sids,          \* sessions
          MaxUsers,      \* bound: rows of the table users
          MaxVersion,    \* bound: permission_version
          MaxRestores    \* bound: restores

ASSUME UsersAssumption ==
    /\ DefaultName \in Names /\ DefaultPassword \in Passwords
    /\ MaxUsers \in Nat /\ MaxVersion \in Nat \ {0} /\ MaxRestores \in Nat

VARIABLES phase,         \* "down", "up", or "failed" when start-up raises
          users,         \* the table users; the id of a row is its position
          licence,       \* can_enter_main_system of get_license_status
          sessions,      \* SessionStore._sessions
          entered,       \* sessions that have a shell
          package,       \* a backup package, or NoPackage
          restores,      \* history: number of restores
          carried        \* history: sessions that were open when a package was restored

dbVars == <<users, licence, package, restores>>
sessionVars == <<sessions, entered, carried>>
vars == <<phase, sessionVars, dbVars>>

Roles == {"admin", "operator"}
NoSession == [uid |-> 0, role |-> "none", version |-> 0, mustChange |-> FALSE, secret |-> DefaultPassword]
NoPackage == [users |-> <<>>, licence |-> FALSE]

Row == [name : Names, role : Roles, active : BOOLEAN, deleted : BOOLEAN,
        version : 1..MaxVersion, password : Passwords, mustChange : BOOLEAN]
SessionRecord == [uid : Nat, role : Roles, version : 1..MaxVersion, mustChange : BOOLEAN,
                  secret : Passwords]
\* secret is history: the password the session was opened with, or the one its
\* user or the administrator has replaced it by since.

NewRow(name, password, role, active, mustChange) ==
    [name |-> name, role |-> role, active |-> active, deleted |-> FALSE,
     version |-> 1, password |-> password, mustChange |-> mustChange]

Init == /\ phase = "down" /\ users = <<>> /\ licence = FALSE
        /\ sessions = [s \in Sids |-> NoSession] /\ entered = {}
        /\ package = NoPackage /\ restores = 0 /\ carried = {}
-----------------------------------------------------------------------------
(* Queries of UserRepository and the constraints of the table.             *)

Ids == DOMAIN users
Live(u) == ~ users[u].deleted
ActiveAdmins == {u \in Ids : users[u].role = "admin" /\ users[u].active /\ Live(u)}

\* UNIQUE(username), deleted rows included.
NameFree(name, own) == \A v \in Ids \ {own} : users[v].name # name

\* idx_users_single_active_admin: one row per role among live administrators,
\* active or not.
AdminFree(own) == \A v \in Ids \ {own} : ~ (users[v].role = "admin" /\ Live(v))

\* The constraints on a row about to be written at id u.
Constraints(u, row) == /\ NameFree(row.name, u)
                       /\ row.role = "admin" /\ ~ row.deleted => AdminFree(u)

Insert(row) == /\ Len(users) < MaxUsers
               /\ Constraints(Len(users) + 1, row)
               /\ users' = Append(users, row)

\* Mutant: a change of role or of is_active leaves permission_version alone.
BugBumped(row) == row
Bumped(row) == [row EXCEPT !.version = @ + 1]
WithPassword(row, password) ==
    Bumped([row EXCEPT !.password = password, !.mustChange = FALSE])
BumpedIf(cond, row) == IF cond THEN Bumped(row) ELSE row

Update(u, row) == /\ row.version <= MaxVersion
                  /\ Constraints(u, row)
                  /\ users' = [users EXCEPT ![u] = row]

\* _ensure_admin_invariants
\* Mutant: only a demotion is looked at, not a deactivation.
BugAdminInvariants(u, role, active) ==
    LET isAdmin == users[u].role = "admin" /\ users[u].active IN
    /\ role = "admin" /\ ~ isAdmin => ActiveAdmins = {}
    /\ isAdmin /\ role # "admin" => ActiveAdmins \ {u} # {}

AdminInvariants(u, role, active) ==
    LET isAdmin == users[u].role = "admin" /\ users[u].active IN
    /\ role = "admin" /\ ~ isAdmin => ActiveAdmins = {}
    /\ isAdmin /\ ~ (role = "admin" /\ active) => ActiveAdmins \ {u} # {}
-----------------------------------------------------------------------------
(* Sessions.                                                               *)

\* SessionStore.validate: the user is there, live and active, and the version
\* is the one the session was opened or refreshed with.
Valid(s) == LET x == sessions[s] IN
    /\ x.uid \in Ids
    /\ Live(x.uid) /\ users[x.uid].active
    /\ users[x.uid].version = x.version

Drop(s) == /\ sessions' = [sessions EXCEPT ![s] = NoSession]
           /\ entered' = entered \ {s} /\ carried' = carried \ {s}

\* A call with a session that does not validate logs it out.  Its shell stays
\* open, and every further call of that shell is refused.
CallRefused(s) ==
    /\ sessions[s] # NoSession /\ ~ Valid(s)
    /\ Drop(s)
    /\ UNCHANGED <<phase, dbVars>>

\* permissions_for_role and PermissionGuard: the administrator has "*", the
\* operator has none of the actions modelled here.
MayManage(s) == s \in entered /\ Valid(s) /\ sessions[s].role = "admin"

Open(s, u) ==
    sessions' = [sessions EXCEPT ![s] =
        [uid |-> u, role |-> users[u].role, version |-> users[u].version,
         mustChange |-> users[u].mustChange, secret |-> users[u].password]]

\* AuthService.login answers a wrong password as it answers a missing account.
Recoverable(u, name) == users[u].name = name /\ Live(u) /\ users[u].active
Authenticates(u, name, password) == Recoverable(u, name) /\ users[u].password = password

\* LoginWindow.submit, AuthService.login and enter_shell: the licence is looked
\* at first, a user who must change the password waits in the dialog.
Login(s, name, password) ==
    /\ phase = "up" /\ licence /\ sessions[s] = NoSession
    /\ \E u \in Ids :
        /\ Authenticates(u, name, password)
        /\ Open(s, u)
        /\ entered' = IF users[u].mustChange THEN entered ELSE entered \union {s}
    /\ UNCHANGED <<phase, carried, dbVars>>

Logout(s) == /\ sessions[s] # NoSession /\ Drop(s)
             /\ UNCHANGED <<phase, dbVars>>

\* refresh_permission_version
Refreshed(s, version, secret) ==
    sessions' = [sessions EXCEPT ![s].version = version, ![s].mustChange = FALSE, ![s].secret = secret]

\* change_password ends the user's other sessions and refreshes its own.
ChangePassword(s, old, new) ==
    LET u == sessions[s].uid IN
    /\ Valid(s) /\ users[u].password = old
    /\ Update(u, WithPassword(users[u], new))
    /\ Refreshed(s, users'[u].version, new)
    /\ entered' = entered \union {s}
    /\ UNCHANGED <<phase, carried, licence, package, restores>>

\* recover_password_with_factory_password, from the login window.
\* Mutant: the version is left alone.
BugRecover(name, new) ==
    /\ phase = "up"
    /\ \E u \in Ids :
        /\ Recoverable(u, name)
        /\ Update(u, [users[u] EXCEPT !.password = new, !.mustChange = FALSE])
        /\ UNCHANGED <<phase, sessionVars, licence, package, restores>>

Recover(name, new) ==
    /\ phase = "up"
    /\ \E u \in Ids :
        /\ Recoverable(u, name)
        /\ Update(u, WithPassword(users[u], new))
        /\ UNCHANGED <<phase, sessionVars, licence, package, restores>>
-----------------------------------------------------------------------------
(* UserService, called from a shell.                                       *)

CreateUser(s, name, password, role, active) ==
    /\ MayManage(s)
    /\ role = "admin" => ActiveAdmins = {}
    /\ Insert(NewRow(name, password, role, active, FALSE))
    /\ UNCHANGED <<phase, sessionVars, licence, package, restores>>

\* A command of UpdateUserCommand leaves a field out by repeating its value; the
\* password is replaced without a new version.
UpdateUser(s, u, name, role, active, password) ==
    /\ MayManage(s) /\ Live(u)
    /\ AdminInvariants(u, role, active)
    /\ Update(u, BumpedIf(role # users[u].role \/ active # users[u].active,
                    [users[u] EXCEPT !.name = name, !.role = role, !.active = active,
                                     !.password = password]))
    /\ sessions' = [x \in Sids |->
          IF sessions[x].uid = u /\ password # users[u].password
          THEN [sessions[x] EXCEPT !.secret = password] ELSE sessions[x]]
    /\ UNCHANGED <<phase, entered, carried, licence, package, restores>>

DisableUser(s, u) ==
    /\ MayManage(s) /\ Live(u)
    /\ AdminInvariants(u, users[u].role, FALSE)
    /\ Update(u, Bumped([users[u] EXCEPT !.active = FALSE]))
    /\ UNCHANGED <<phase, sessionVars, licence, package, restores>>

DeleteUser(s, u) ==
    /\ MayManage(s) /\ Live(u)
    /\ AdminInvariants(u, users[u].role, FALSE)
    /\ Update(u, Bumped([users[u] EXCEPT !.active = FALSE, !.deleted = TRUE]))
    /\ UNCHANGED <<phase, sessionVars, licence, package, restores>>
-----------------------------------------------------------------------------
(* Licence, backup, restore, start and end of the program.                 *)

\* An authorization code, by what parse_authorization_code and activate ask of it.
Codes == [signed : BOOLEAN, thisMachine : BOOLEAN, over : BOOLEAN]
Accepted(code) == code.signed /\ code.thisMachine /\ ~ code.over

\* The login window activates without an actor; a refused code leaves the old row.
Activate(code) ==
    /\ phase = "up" /\ Accepted(code) /\ licence' = TRUE
    /\ UNCHANGED <<phase, sessionVars, users, package, restores>>

\* The term is over, or the fingerprint of the machine has changed.
LicenceEnds ==
    /\ licence /\ licence' = FALSE
    /\ UNCHANGED <<phase, sessionVars, users, package, restores>>

\* A package that the bound no longer lets be restored is forgotten.
TakeBackup(s) ==
    /\ MayManage(s) /\ restores < MaxRestores
    /\ package' = [users |-> users, licence |-> licence]
    /\ UNCHANGED <<phase, sessionVars, users, licence, restores>>

Restore(s) ==
    /\ MayManage(s) /\ package # NoPackage /\ restores < MaxRestores
    /\ users' = package.users /\ licence' = package.licence
    /\ restores' = restores + 1
    /\ package' = IF restores + 1 < MaxRestores THEN package ELSE NoPackage
    /\ carried' = {x \in Sids : sessions[x] # NoSession}
    /\ UNCHANGED <<phase, sessions, entered>>

\* ensure_default_admin: nothing if a live user has the default name, or if there
\* is any live user.  The insertion is not guarded, so a violated constraint
\* would end the program.
NeedsDefaultAdmin ==
    /\ \A u \in Ids : ~ (users[u].name = DefaultName /\ Live(u))
    /\ \A u \in Ids : ~ Live(u)
    /\ ActiveAdmins = {}

DefaultAdmin == NewRow(DefaultName, DefaultPassword, "admin", TRUE, TRUE)

Start ==
    /\ phase # "up"
    /\ IF ~ NeedsDefaultAdmin
         THEN phase' = "up" /\ UNCHANGED users
         ELSE IF Constraints(Len(users) + 1, DefaultAdmin)
           THEN phase' = "up" /\ Insert(DefaultAdmin)
           ELSE phase' = "failed" /\ UNCHANGED users
    /\ UNCHANGED <<sessionVars, licence, package, restores>>

Stop ==
    /\ phase = "up" /\ phase' = "down"
    /\ sessions' = [s \in Sids |-> NoSession] /\ entered' = {} /\ carried' = {}
    /\ UNCHANGED dbVars

Manage(s) ==
    \/ \E name \in Names, password \in Passwords, role \in Roles, active \in BOOLEAN :
          CreateUser(s, name, password, role, active)
    \/ \E u \in Ids, name \in Names, role \in Roles, active \in BOOLEAN, password \in Passwords :
          UpdateUser(s, u, name, role, active, password)
    \/ \E u \in Ids : DisableUser(s, u) \/ DeleteUser(s, u)
    \/ TakeBackup(s) \/ Restore(s)

Next ==
    \/ Start \/ Stop \/ LicenceEnds
    \/ \E code \in Codes : Activate(code)
    \/ \E s \in Sids :
          \/ \E name \in Names, password \in Passwords : Login(s, name, password)
          \/ \E old, new \in Passwords : ChangePassword(s, old, new)
          \/ Logout(s) \/ CallRefused(s) \/ Manage(s)
    \/ \E name \in Names, new \in Passwords : Recover(name, new)

Spec == Init /\ [][Next]_vars
-----------------------------------------------------------------------------
TypeOK ==
    /\ phase \in {"down", "up", "failed"}
    /\ users \in Seq(Row) /\ Len(users) <= MaxUsers
    /\ licence \in BOOLEAN
    /\ sessions \in [Sids -> SessionRecord \union {NoSession}]
    /\ entered \subseteq Sids /\ carried \subseteq Sids
    /\ package \in [users : Seq(Row), licence : BOOLEAN]
    /\ restores \in Nat

\* Once a user exists there is one live administrator, active, and nobody can
\* disable, delete, demote or double it, nor does a start-up (_ensure_admin_invariants,
\* ensure_default_admin, idx_users_single_active_admin).
OneAdministrator ==
    users # <<>> =>
        \E a \in Ids : /\ users[a].role = "admin" /\ users[a].active /\ Live(a)
                       /\ \A v \in Ids : users[v].role = "admin" /\ Live(v) => v = a

\* No sequence of renames, deletions and restores makes ensure_default_admin
\* raise at the next start (the insertion at user_service.py:60 is not guarded).
StartUpSucceeds == phase # "failed"

\* A session that passes validate holds the role its user has now, whatever was
\* restored meanwhile (auth_service.py:110 compares versions, not roles).
RightsAreCurrent ==
    \A s \in Sids : sessions[s] # NoSession /\ Valid(s) =>
        sessions[s].role = users[sessions[s].uid].role

\* A password that its user changed or had recovered leaves no session open that
\* rests on the former one; a password set by the administrator does (update_user
\* does not count it as a new version).  A session carried over a restore is
\* excepted: its version may be reached again by another history of the row.
SessionsRestOnPassword ==
    \A s \in Sids \ carried : sessions[s] # NoSession /\ Valid(s) =>
        sessions[s].secret = users[sessions[s].uid].password

\* Whoever is in a shell has changed the default password first (main.py:202).
ShellAfterChange ==
    \A s \in entered : Valid(s) => ~ users[sessions[s].uid].mustChange

\* A session that fails to validate never validates again, by enabling the account
\* or by any sequence of changes to it, unless it is carried over a restore.
SessionsStayDead ==
    [][\A s \in Sids :
          /\ sessions[s] # NoSession /\ ~ Valid(s)
          /\ sessions'[s] = sessions[s] /\ s \notin carried'
          => ~ Valid(s)']_vars

\* The accounts admit their one administrator, now and at the next start.
AccountsSound == TypeOK /\ OneAdministrator /\ StartUpSucceeds

\* An open session rests on the role, the password and the duty to change it
\* that the database holds.
SessionsSound == RightsAreCurrent /\ SessionsRestOnPassword /\ ShellAfterChange
=============================================================================
