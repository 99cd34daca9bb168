----------------------------- MODULE UsersPage -----------------------------
(* The users page (frontend/src/pages/Users.tsx): a dialog that creates a     *)
(* user and one that gives a user another role.  The role dialog is mounted   *)
(* with the page, before there is a user: it starts at read_only and keeps    *)
(* the role that was last chosen in it.                                       *)
EXTENDS ListPage

OnUsers == page = "users"

UsersToolbar == OnUsers /\ (OpenCreate \/ Reload)
UsersTable(i) == OnUsers /\ OpenEdit(i)

NewUserDialog(r) == OnUsers /\ ui.dialog = "create" /\ FormOf(r, TRUE)
CreateUser ==
    /\ OnUsers /\ ui.dialog = "create" /\ Pending({"create"}) = {}
    /\ Sends("create", {New}, ui.form)
    /\ UNCHANGED <<page, ui, server, query, polls, acked>>

RoleDialog(r) == /\ OnUsers /\ ui.dialog = "edit"
                 /\ UI([ui EXCEPT !.role = r]) \/ Cancel
UpdateRole ==
    /\ OnUsers /\ ui.dialog = "edit" /\ Pending({"update"}) = {}
    /\ Sends("update", {ui.editing}, RowOf(ui.role, TRUE))
    /\ UNCHANGED <<page, ui, server, query, polls, acked>>

(* Each mutation closes its own dialog, open or not.                          *)
UserCreated(c, i) ==
    /\ c.page = "users" /\ c.kind = "create" /\ i \in c.ok
    /\ Answered(c, i) /\ Acknowledged(c)
    /\ ui' = IF ~c.mine THEN ui
             ELSE [IF ui.dialog = "create" THEN Closed(ui) ELSE ui EXCEPT !.form = Fresh("users").form]
    /\ UNCHANGED <<page, server, polls, count>>

RoleUpdated(c, i) ==
    /\ c.page = "users" /\ c.kind = "update" /\ i \in c.ok
    /\ Answered(c, i) /\ Acknowledged(c)
    /\ ui' = IF c.mine /\ ui.dialog = "edit" THEN Closed(ui) ELSE ui
    /\ UNCHANGED <<page, server, polls, count>>

UsersUI == \/ UsersToolbar \/ CreateUser \/ UpdateRole
           \/ \E r \in Roles : NewUserDialog(r) \/ RoleDialog(r)
           \/ \E i \in Ids : UsersTable(i)
UsersAnswer(c, i) == UserCreated(c, i) \/ RoleUpdated(c, i)
=============================================================================
