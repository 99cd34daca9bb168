---------------------------- MODULE ClientsPage ----------------------------
(* The clients page (frontend/src/pages/Clients.tsx): one dialog to create    *)
(* and edit, whose form is never emptied, and one client deleted at a time.   *)
EXTENDS ListPage

OnClients == page = "clients"

ClientsToolbar == OnClients /\ (OpenCreate \/ Reload)
ClientsTable(i) == OnClients /\ (OpenEdit(i) \/ ChooseTarget(i))
ClientDialog(b) == OnClients /\ FormOf(b, TRUE)
SubmitClient == OnClients /\ Submit

ClientSaved(c, i) ==
    /\ c.page = "clients" /\ c.kind \in {"create", "update"} /\ i \in c.ok
    /\ Answered(c, i) /\ Acknowledged(c)
    /\ ui' = IF c.mine THEN Closed(ui) ELSE ui
    /\ UNCHANGED <<page, server, polls, count>>

ConfirmDeleteClient == OnClients /\ (KeepTarget \/ DeleteTarget)
ClientDeleted(c, i) == c.page = "clients" /\ TargetDeleted(c, i)

ClientsUI == \/ ClientsToolbar \/ SubmitClient \/ ConfirmDeleteClient
             \/ \E b \in Bodies : ClientDialog(b)
             \/ \E i \in Ids : ClientsTable(i)
ClientsAnswer(c, i) == ClientSaved(c, i) \/ ClientDeleted(c, i)
=============================================================================
