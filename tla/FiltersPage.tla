---------------------------- MODULE FiltersPage ----------------------------
(* The filter list page (frontend/src/pages/Filters.tsx): its switches, the   *)
(* refresh of one list or of all of them, and the timers that look for the    *)
(* result of a synchronisation that runs in the background of the server.     *)
EXTENDS ListPage

CONSTANTS Remote,   \* bodies whose URL can be fetched
          Switch    \* bound: what the switch of the dialog is set to

ASSUME SwitchAssumption == Switch \subseteq BOOLEAN

OnFilters == page = "filters"

FiltersToolbar == OnFilters /\ Toolbar
FiltersTable == OnFilters /\ (SelectAll \/ \E i \in Ids : Row(i))

(* A suggested list fills the form of a new one.                              *)
PickPopular(b) == OnFilters /\ ui.dialog = "create" /\ Type(b, TRUE)
FilterDialog(b, on) == OnFilters /\ FormOf(b, on)
SubmitFilter == OnFilters /\ Submit

(* createMutation.onSuccess, updateMutation.onSuccess: close, start anew; the *)
(* answer of a create says syncing, and a timer is left behind for it.        *)
FilterSaved(c, i) ==
    /\ c.page = "filters" /\ c.kind \in {"create", "update"} /\ i \in c.ok
    /\ Answered(c, i) /\ Acknowledged(c)
    /\ ui' = IF c.mine THEN [Closed(ui) EXCEPT !.form = Fresh("filters").form] ELSE ui
    /\ polls' = IF c.kind = "create" THEN polls + MaxPolls ELSE polls
    /\ UNCHANGED <<page, server, count>>

ConfirmFilters == OnFilters /\ (CancelDelete \/ ConfirmDelete)
FiltersDeleted(c, i) == c.page = "filters" /\ DeleteAnswered(c, i)

ToggleFilter(i) ==
    /\ OnFilters /\ Free /\ i \in Listed(page) /\ Pending({"toggle"}) = {}
    /\ LET row == cache[page].rows[i] IN Sends("toggle", {i}, RowOf(row.body, ~row.on))
    /\ UNCHANGED <<page, ui, server, query, polls, acked>>

FilterToggled(c, i) ==
    /\ c.kind = "toggle" /\ i \in c.ok
    /\ Answered(c, i) /\ Acknowledged(c)
    /\ UNCHANGED <<page, ui, server, polls, count>>
-----------------------------------------------------------------------------
RefreshFilter(i) ==
    /\ OnFilters /\ Free /\ i \in Listed(page) /\ ui.refreshing # i
    /\ cache[page].rows[i].body \in Remote /\ cache[page].rows[i].on
    /\ Sends("refresh", {i}, Gone)
    /\ ui' = [ui EXCEPT !.refreshing = i]
    /\ UNCHANGED <<page, server, query, polls, acked>>

FilterRefreshed(c, i) ==
    /\ c.kind = "refresh" /\ i \in c.ok
    /\ Answered(c, i) /\ Invalidated("filters")
    /\ polls' = polls + MaxPolls
    /\ ui' = IF c.mine THEN [ui EXCEPT !.refreshing = None] ELSE ui
    /\ UNCHANGED <<page, server, count, acked>>

(* refreshAllFilters: every list the page knows to be remote and enabled.     *)
RefreshAll ==
    /\ OnFilters /\ Free /\ ~ui.refreshingAll /\ ~Loading(page)
    /\ LET rows == cache[page].rows
           ids == {i \in Ids : Exists(rows[i]) /\ rows[i].on /\ rows[i].body \in Remote}
       IN  ids # {} /\ Sends("refreshAll", ids, Gone)
    /\ ui' = [ui EXCEPT !.refreshingAll = TRUE]
    /\ UNCHANGED <<page, server, query, polls, acked>>

(* Promise.all: the first failure settles it, else the last answer.           *)
AllRefreshed(c, i) ==
    /\ c.kind = "refreshAll" /\ i \in c.ok /\ Answered(c, i)
    /\ IF Last(c, i) /\ AllGood(c)
       THEN /\ Invalidated("filters") /\ polls' = polls + MaxPolls
            /\ ui' = IF c.mine THEN [ui EXCEPT !.refreshingAll = FALSE] ELSE ui
       ELSE UNCHANGED <<query, polls, ui>>
    /\ UNCHANGED <<page, server, count, acked>>

FaultyPollTick ==   \* fault: the tick counts, the list stays as it is
    /\ polls > 0 /\ polls' = polls - 1
    /\ UNCHANGED <<page, ui, calls, server, query, count, acked>>

PollTick ==
    /\ polls > 0 /\ polls' = polls - 1
    /\ Invalidated("filters")
    /\ UNCHANGED <<page, ui, calls, server, count, acked>>
-----------------------------------------------------------------------------
(* api/handlers/filters.rs: a refresh is answered before it has happened.     *)
ServeRefresh(c, i) ==
    /\ c.kind \in {"refresh", "refreshAll"} /\ i \in c.todo /\ Exists(db["filters"][i])
    /\ syncing' = syncing \union {i} /\ UNCHANGED <<db, version>>
    /\ \E good \in BOOLEAN : Handled(c, i, good)
    /\ Served

SyncEnds(i) ==
    /\ i \in syncing /\ syncing' = syncing \ {i}
    /\ \/ /\ db["filters"][i].body \in Remote
          /\ Writes("filters", i, [db["filters"][i] EXCEPT !.synced = TRUE])
       \/ UNCHANGED <<db, version>>
    /\ UNCHANGED <<page, ui, calls, query, polls, count, acked>>

FiltersUI == \/ FiltersToolbar \/ FiltersTable \/ SubmitFilter \/ ConfirmFilters \/ RefreshAll
             \/ \E b \in Bodies : PickPopular(b) \/ \E on \in Switch : FilterDialog(b, on)
             \/ \E i \in Ids : ToggleFilter(i) \/ RefreshFilter(i)
FiltersAnswer(c, i) == \/ FilterSaved(c, i) \/ FiltersDeleted(c, i) \/ FilterToggled(c, i)
                       \/ FilterRefreshed(c, i) \/ AllRefreshed(c, i)
=============================================================================
