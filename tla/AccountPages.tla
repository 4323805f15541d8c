---------------------------- MODULE AccountPages ----------------------------
(***************************************************************************)
(* The page on which the administrator manages the accounts, in the shell  *)
(* that the login window leads to: ui/settings/users_page.py, the dialog   *)
(* of ui/settings/user_dialogs.py and the dialogs of ui/login.             *)
(*                                                                         *)
(* A behaviour follows one session, from its login to its logout, or none: *)
(* then it is one of Users.  A dialog is modal, so that its opening, what  *)
(* is typed and its submission are one step.  A page is made when it is    *)
(* first opened and kept; it loads again only when it is told to.          *)
(***************************************************************************)
EXTENDS Users

CONSTANTS Nobody,      \* no session is followed
          Anything,    \* a filter that lets every row through
          MaxChanges   \* bound: changes of the page

ASSUME PagesAssumption == Nobody \notin Sids /\ MaxChanges \in Nat

VARIABLES follows,     \* the session followed, or Nobody
          opened,      \* the page has been made
          shown,       \* _rows, by id
          filter,      \* role_filter and status_filter
          chosen,      \* _selected_user_id, or 0
          edited,      \* history: the fields changed by hand in the last dialog
          stale,       \* history: a package was restored since the rows were loaded
          changes      \* bound

pageVars == <<opened, shown, filter, chosen, edited, stale, changes>>
everything == <<vars, follows, pageVars>>

Fields == {"name", "role", "active", "password"}
Filters == [role : Roles \union {Anything}, active : BOOLEAN \union {Anything}]
NoFilter == [role |-> Anything, active |-> Anything]
NoRows == [u \in {} |-> 0]
-----------------------------------------------------------------------------
(* The page.                                                               *)

\* UserService.list_users of the table us, in pages that hold more rows than the bound.
list_users(us, f) ==
    [u \in {v \in DOMAIN us : /\ ~ us[v].deleted
                              /\ f.role \in {Anything, us[v].role}
                              /\ f.active \in {Anything, us[v].active}} |->
        [name |-> us[u].name, role |-> us[u].role, active |-> us[u].active]]

\* Mutant: rows shown before keep what they showed.
BugLoadUsers(f) ==
    /\ filter' = f /\ chosen' = 0 /\ stale' = FALSE
    /\ shown' = [u \in DOMAIN list_users(users', f) |->
                    IF u \in DOMAIN shown THEN shown[u] ELSE list_users(users', f)[u]]

load_users(f) == /\ filter' = f /\ chosen' = 0 /\ stale' = FALSE
                 /\ shown' = list_users(users', f)

_show_load_error == /\ shown' = NoRows /\ chosen' = 0 /\ stale' = FALSE
                    /\ UNCHANGED filter

\* A call that fails: the session no longer validates and is dropped, the service
\* refuses or raises.
Fails(s) == IF sessions[s] # NoSession /\ ~ Valid(s) THEN CallRefused(s) ELSE UNCHANGED vars

\* What the page does after a call: it loads the rows, or shows that it cannot.
Reloads(s) == load_users(filter) \/ _show_load_error

Changes(fields) == changes < MaxChanges /\ changes' = changes + 1 /\ edited' = fields

\* The page is opened, and the filters are applied.
_users_page(s) ==
    /\ ~ opened /\ opened' = TRUE /\ sessions[s].role = "admin" /\ s \in entered
    /\ \/ MayManage(s) /\ UNCHANGED vars /\ load_users(NoFilter)
       \/ Fails(s) /\ _show_load_error
    /\ UNCHANGED <<edited, changes>>

apply_filters(s) ==
    /\ opened
    /\ \/ MayManage(s) /\ UNCHANGED vars /\ \E f \in Filters : load_users(f)
       \/ Fails(s) /\ _show_load_error
    /\ UNCHANGED <<opened, edited, changes>>

_selection_changed ==
    /\ chosen' \in DOMAIN shown \union {0}
    /\ UNCHANGED <<vars, opened, shown, filter, edited, stale, changes>>

\* UserEditorDialog without a user.  After a failed call the dialog stays until it
\* is cancelled, and the page is as it was.
open_create_dialog(s) ==
    /\ opened /\ Changes({})
    /\ \E name \in Names, password \in Passwords, role \in Roles, active \in BOOLEAN :
          CreateUser(s, name, password, role, active)
    /\ Reloads(s) /\ UNCHANGED opened

\* The form of the dialog: _apply_user takes the row shown, some fields are edited, a
\* password is sent only when one is typed.
Forms == [name : Names, role : Roles, active : BOOLEAN, password : Passwords]
Filled(u, form, fields) ==
    /\ \A f \in {"name", "role", "active"} : f \in fields <=> form[f] # shown[u][f]
    /\ "password" \notin fields => form.password = users[u].password

open_edit_dialog(s) ==
    /\ opened /\ chosen \in DOMAIN shown \cap Ids
    /\ \E form \in Forms, fields \in SUBSET Fields :
          /\ Filled(chosen, form, fields) /\ Changes(fields)
          /\ UpdateUser(s, chosen, form.name, form.role, form.active, form.password)
    /\ Reloads(s) /\ UNCHANGED opened

\* The dialog is refused, and cancelled.
DialogFails(s) == opened /\ Fails(s) /\ UNCHANGED pageVars

\* The buttons that enable and disable: the first is an update of one field.
set_selected_active(s, active) ==
    /\ opened /\ chosen \in DOMAIN shown /\ shown[chosen].active # active
    /\ \/ /\ chosen \in Ids /\ Changes({"active"})
          /\ IF active THEN UpdateUser(s, chosen, users[chosen].name, users[chosen].role, TRUE,
                                       users[chosen].password)
             ELSE DisableUser(s, chosen)
          /\ Reloads(s)
       \/ Fails(s) /\ _show_load_error /\ UNCHANGED <<edited, changes>>
    /\ UNCHANGED opened
-----------------------------------------------------------------------------
(* What leads to the page and away from it.                                *)

Closed == /\ opened' = FALSE /\ shown' = NoRows /\ filter' = NoFilter
          /\ chosen' = 0 /\ stale' = FALSE /\ UNCHANGED <<edited, changes>>

\* The dialogs ask for what the services take, the new password twice.
ChangePasswordDialog(s) == \E old, new \in Passwords : ChangePassword(s, old, new)
PasswordRecoveryDialog == \E name \in Names, new \in Passwords : Recover(name, new)
LicenseDialog == \E code \in Codes : Activate(code)

\* The forced dialog refuses to be left (reject) before the password is changed, so
\* that its new password is what leads into the shell.
enter_shell(s) ==
    /\ s \notin entered /\ ~ opened /\ UNCHANGED pageVars
    /\ \/ \E name \in Names, password \in Passwords : Login(s, name, password)
       \/ sessions[s].mustChange /\ ChangePasswordDialog(s)

\* The login window is closed while there is a shell.
LoginDialogs(s) == /\ sessions[s] = NoSession /\ ~ opened /\ UNCHANGED pageVars
                   /\ PasswordRecoveryDialog \/ LicenseDialog

return_to_login(s) == Logout(s) /\ Closed

\* Another page of the shell: it takes and restores packages.  The page of the
\* accounts stays as it is.
OtherPages(s) ==
    /\ s \in entered
    /\ \/ TakeBackup(s) /\ UNCHANGED pageVars
       \/ Restore(s) /\ stale' = TRUE /\ UNCHANGED <<opened, shown, filter, chosen, edited, changes>>
       \/ CallRefused(s) /\ UNCHANGED pageVars

\* Of a session that has been dropped the shell stays; closing it leads back to the login.
AfterDrop(s) == /\ sessions[s] = NoSession /\ opened
                /\ \/ Closed /\ UNCHANGED vars
                   \/ apply_filters(s)

Elsewhere == \/ Start /\ UNCHANGED pageVars
             \/ Stop /\ Closed
             \/ LicenceEnds /\ UNCHANGED pageVars

Followed(s) ==
    /\ follows = s /\ UNCHANGED follows
    /\ \/ _users_page(s) \/ apply_filters(s) \/ _selection_changed
       \/ open_create_dialog(s) \/ open_edit_dialog(s) \/ DialogFails(s)
       \/ \E active \in BOOLEAN : set_selected_active(s, active)
       \/ enter_shell(s) \/ LoginDialogs(s) \/ return_to_login(s) \/ OtherPages(s)
       \/ AfterDrop(s) \/ Elsewhere

PagesInit == /\ Init /\ follows \in Sids \union {Nobody}
             /\ opened = FALSE /\ shown = NoRows /\ filter = NoFilter /\ chosen = 0
             /\ edited = {} /\ stale = FALSE /\ changes = 0

PagesNext == \/ follows = Nobody /\ Next /\ UNCHANGED <<follows, pageVars>>
             \/ \E s \in Sids : Followed(s)

PagesSpec == PagesInit /\ [][PagesNext]_everything
-----------------------------------------------------------------------------
Differs(u) == {f \in Fields : users'[u][f] # users[u][f]}

\* The page changes of an account that there was only the row chosen, and of it only
\* the fields edited by hand, though the dialog sends all it shows: unless a package
\* was restored since the rows were loaded, which the page is not told of.
AccountsEditedAsShown ==
    [][opened /\ opened' /\ ~ stale /\ ~ stale' =>
          \A u \in Ids : Differs(u) # {} => u = chosen /\ Differs(u) \subseteq edited']_everything
=============================================================================
