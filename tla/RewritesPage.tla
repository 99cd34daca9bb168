---------------------------- MODULE RewritesPage ----------------------------
(* The rewrites page (frontend/src/pages/Rewrites.tsx): the filter page's     *)
(* dialogs and selection, for rows that say a domain and an address.          *)
EXTENDS ListPage

OnRewrites == page = "rewrites"

RewritesToolbar == OnRewrites /\ Toolbar
RewritesTable == OnRewrites /\ (SelectAll \/ \E i \in Ids : Row(i))
PickCommon(b) == OnRewrites /\ ui.dialog = "create" /\ Type(b, TRUE)
RewriteDialog(b) == OnRewrites /\ FormOf(b, TRUE)

(* Only an empty field or something unlike an address is kept back: both are  *)
(* Blank here.                                                                *)
SubmitRewrite == OnRewrites /\ Submit

RewriteSaved(c, i) ==
    /\ c.page = "rewrites" /\ c.kind \in {"create", "update"} /\ i \in c.ok
    /\ Answered(c, i) /\ Acknowledged(c)
    /\ ui' = IF c.mine THEN [Closed(ui) EXCEPT !.form = Fresh("rewrites").form] ELSE ui
    /\ UNCHANGED <<page, server, polls, count>>

ConfirmRewrites == OnRewrites /\ (CancelDelete \/ ConfirmDelete)
RewritesDeleted(c, i) == c.page = "rewrites" /\ DeleteAnswered(c, i)

RewritesUI == \/ RewritesToolbar \/ RewritesTable \/ SubmitRewrite \/ ConfirmRewrites
              \/ \E b \in Bodies : PickCommon(b) \/ RewriteDialog(b)
RewritesAnswer(c, i) == RewriteSaved(c, i) \/ RewritesDeleted(c, i)
=============================================================================
