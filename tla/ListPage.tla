------------------------------ MODULE ListPage ------------------------------
(* What the list pages of the console share (frontend/src/App.tsx and         *)
(* frontend/src/pages): the rows the server keeps, the query cache that holds *)
(* what a page shows, the state of the one page that is mounted and the       *)
(* mutations in flight.  A mutation outlives its page: its callbacks still    *)
(* invalidate the query, while their set-state calls reach nobody.            *)
EXTENDS Naturals, FiniteSets

CONSTANTS Pages,       \* routes of App.tsx, among those of the five page modules
          Ids,         \* rows a page can have
          Bodies,      \* what a row says
          Roles,       \* what a row of the users page says
          MaxCalls,    \* bound: mutations sent
          MaxFaults,   \* bound: loads failed, rows changed by another administrator
          MaxVisits,   \* bound: pages left, reloads and refetches on focus
          MaxEvents,   \* bound: the three together
          MaxPolls,    \* refreshes of the list after a sync was started (20 in the code)
          None, New    \* no row; the row a create call asks for

ASSUME ListAssumption ==
    /\ {MaxCalls, MaxFaults, MaxVisits, MaxEvents, MaxPolls} \subseteq Nat
    /\ {None, New} \cap Ids = {}

VARIABLES page,     \* the page mounted
          ui,       \* its component state, lost when it is left
          calls,    \* mutations in flight
          db,       \* server: per page, its rows
          version,  \* server: per page, how many times the rows have changed
          syncing,  \* server: filter lists being fetched in the background
          cache,    \* query cache: per page, the rows last loaded
          fetch,    \* query cache: per page, the request for its rows
          polls,    \* ticks the refresh timers have left
          count,    \* bound: mutations sent, faults, pages left
          acked     \* history: per page, the version of its last acknowledged write

vars == <<page, ui, calls, db, version, syncing, cache, fetch, polls, count, acked>>
server == <<db, version, syncing>>
query == <<cache, fetch>>

Within(what, bound) == /\ count[what] < bound
                       /\ count.sent + count.faults + count.visits < MaxEvents
                       /\ count' = [count EXCEPT ![what] = @ + 1]

Contents(p) == IF p = "users" THEN Roles ELSE Bodies
Blank == "blank"
Gone == [body |-> "gone", on |-> FALSE, synced |-> FALSE]   \* deleted: an id is never given out twice
Absent == [body |-> "absent", on |-> FALSE, synced |-> FALSE]
Exists(row) == row \notin {Gone, Absent}
RowOf(body, on) == [body |-> body, on |-> on, synced |-> FALSE]

Idle == [state |-> "idle"]
Asked == [state |-> "asked", raced |-> FALSE]
Pending(kinds) == {c \in calls : c.mine /\ c.kind \in kinds}

(* isLoading and error replace the table: only rows of a loaded list can be   *)
(* clicked, and the search box leaves any of them.                            *)
Loading(p) == ~cache[p].loaded /\ fetch[p] # Idle
Listed(p) == IF cache[p].loaded /\ ~cache[p].error
             THEN {i \in Ids : Exists(cache[p].rows[i])} ELSE {}

Free == ui.dialog = "closed" /\ ~ui.confirm /\ ui.target = None    \* nothing modal is open

(* useState: what a page starts with whenever it is mounted.                  *)
Fresh(p) == [form |-> RowOf(IF p = "users" THEN "operator" ELSE Blank, TRUE),
             role |-> "read_only", dialog |-> "closed", editing |-> None,
             selected |-> {}, confirm |-> FALSE, target |-> None,
             refreshing |-> None, refreshingAll |-> FALSE]

ListInit(seeds) ==
    /\ page \in Pages /\ ui = Fresh(page)
    /\ calls = {} /\ syncing = {} /\ polls = 0
    /\ db = seeds /\ version = [p \in Pages |-> 0] /\ acked = [p \in Pages |-> 0]
    /\ cache = [p \in Pages |-> [loaded |-> FALSE, rows |-> [i \in Ids |-> Absent], ver |-> 0,
                                 stale |-> TRUE, error |-> FALSE, raced |-> FALSE]]
    /\ fetch = [p \in Pages |-> IF p = page THEN Asked ELSE Idle]
    /\ count = [sent |-> 0, faults |-> 0, visits |-> 0]
-----------------------------------------------------------------------------
(* The query cache.  Invalidation marks the query; a mounted page refetches,  *)
(* dropping the request in flight unless nothing was ever loaded.  A request  *)
(* not dropped still clears the mark when it ends: history marks it raced.    *)
FaultyInvalidated(p) ==   \* fault: the request in flight is good enough
    /\ cache' = [cache EXCEPT ![p].stale = TRUE]
    /\ fetch' = [fetch EXCEPT ![p] = IF page = p /\ fetch[p] = Idle THEN Asked ELSE fetch[p]]

Invalidated(p) ==
    /\ cache' = [cache EXCEPT ![p].stale = TRUE]
    /\ fetch' = [fetch EXCEPT ![p] =
           IF page = p /\ (cache[p].loaded \/ fetch[p] = Idle) THEN Asked
           ELSE IF fetch[p] = Idle THEN Idle ELSE [fetch[p] EXCEPT !.raced = TRUE]]

ReadRows(p) ==
    /\ fetch[p].state = "asked"
    /\ fetch' = [fetch EXCEPT ![p] = [state |-> "read", rows |-> db[p], ver |-> version[p],
                                      raced |-> fetch[p].raced]]
    /\ UNCHANGED <<page, ui, calls, server, cache, polls, count, acked>>

Loaded(p) ==
    /\ fetch[p].state = "read"
    /\ cache' = [cache EXCEPT ![p] = [loaded |-> TRUE, rows |-> fetch[p].rows, ver |-> fetch[p].ver,
                                      stale |-> FALSE, error |-> FALSE, raced |-> fetch[p].raced]]
    /\ fetch' = [fetch EXCEPT ![p] = Idle]
    /\ UNCHANGED <<page, ui, calls, server, polls, count, acked>>

(* Both tries failed: the page says so, whatever it has loaded before.        *)
LoadFailed(p) ==
    /\ fetch[p] # Idle
    /\ Within("faults", MaxFaults)
    /\ cache' = [cache EXCEPT ![p].error = TRUE, ![p].stale = TRUE]
    /\ fetch' = [fetch EXCEPT ![p] = Idle]
    /\ UNCHANGED <<page, ui, calls, server, polls, acked>>

(* The reload button drops the request in flight; a window that gets the      *)
(* focus over a list that is marked or older than staleTime asks as well.     *)
Reload ==
    /\ Free /\ ~Loading(page) /\ Within("visits", MaxVisits)
    /\ fetch' = [fetch EXCEPT ![page] = Asked]
    /\ UNCHANGED <<page, ui, calls, server, cache, polls, acked>>

Navigate(p) ==
    /\ p # page /\ Within("visits", MaxVisits)
    /\ page' = p /\ ui' = Fresh(p)
    /\ calls' = {[c EXCEPT !.mine = FALSE] : c \in calls}
    /\ \E aged \in BOOLEAN : fetch' = [fetch EXCEPT ![p] =
           IF fetch[p] = Idle /\ (aged \/ cache[p].stale) THEN Asked ELSE fetch[p]]
    /\ UNCHANGED <<server, cache, polls, acked>>
-----------------------------------------------------------------------------
(* A mutation: one request for each id of todo, answered in any order.        *)
Sends(kind, ids, row) ==
    /\ Within("sent", MaxCalls)
    /\ calls' = calls \union
           {[n |-> count.sent, page |-> page, kind |-> kind, row |-> row, mine |-> TRUE, ids |-> ids,
             todo |-> ids, ok |-> {}, bad |-> {}, failed |-> FALSE, ver |-> 0]}

Writes(p, i, row) == /\ db' = [db EXCEPT ![p][i] = row]
                     /\ version' = [version EXCEPT ![p] = @ + 1]

Handled(c, i, good) ==
    calls' = (calls \ {c}) \union
        {[c EXCEPT !.todo = @ \ {i}, !.ver = version'[c.page],
                   !.ok = IF good THEN @ \union {i} ELSE @,
                   !.bad = IF good THEN @ ELSE @ \union {i}]}

Served == UNCHANGED <<page, ui, query, polls, count, acked>>

(* The handlers: an accepted request may still fail for the browser, when its *)
(* answer is lost or comes after the 30 s of api/client.ts.                   *)
ServeCreate(c) ==
    /\ c.kind = "create" /\ New \in c.todo
    /\ \E i \in Ids : /\ db[c.page][i] = Absent
                      /\ Writes(c.page, i, c.row)
                      /\ syncing' = IF c.page = "filters" THEN syncing \union {i} ELSE syncing
    /\ \E good \in BOOLEAN : Handled(c, New, good)
    /\ Served

ServeUpdate(c, i) ==
    /\ c.kind \in {"update", "toggle"} /\ i \in c.todo /\ Exists(db[c.page][i])
    /\ Writes(c.page, i, [db[c.page][i] EXCEPT !.on = c.row.on,
                                               !.body = IF c.kind = "update" THEN c.row.body ELSE @])
    /\ \E good \in BOOLEAN : Handled(c, i, good)
    /\ Served /\ UNCHANGED syncing

ServeDelete(c, i) ==
    /\ c.kind = "delete" /\ i \in c.todo /\ Exists(db[c.page][i])
    /\ Writes(c.page, i, Gone) /\ syncing' = syncing \ {i}
    /\ \E good \in BOOLEAN : Handled(c, i, good)
    /\ Served

(* Not found, refused by a check, or failing before anything was written.     *)
Refuse(c, i) ==
    /\ i \in c.todo /\ UNCHANGED server
    /\ Handled(c, i, FALSE)
    /\ Served

(* Somebody else deletes a row or rewrites it.                                *)
OtherAdmin(p, i) ==
    /\ Within("faults", MaxFaults)
    /\ Exists(db[p][i])
    /\ \/ Writes(p, i, Gone) /\ syncing' = IF p = "filters" THEN syncing \ {i} ELSE syncing
       \/ \E b \in Contents(p) \ {db[p][i].body} :
              Writes(p, i, [db[p][i] EXCEPT !.body = b]) /\ UNCHANGED syncing
    /\ UNCHANGED <<page, ui, calls, query, polls, acked>>

(* An answer reaches the browser: the call is over with its last answer.      *)
Answered(c, i) ==
    LET d == [c EXCEPT !.ok = @ \ {i}, !.bad = @ \ {i}, !.failed = @ \/ i \in c.bad]
    IN  calls' = (calls \ {c}) \union (IF d.todo \union d.ok \union d.bad = {} THEN {} ELSE {d})
Last(c, i) == c.todo \union c.ok \union c.bad = {i}
AllGood(c) == ~c.failed /\ c.bad = {}

Acknowledged(c) ==
    /\ Invalidated(c.page)
    /\ acked' = [acked EXCEPT ![c.page] = IF c.ver > @ THEN c.ver ELSE @]

(* onError of a mutation: a message, and whatever was open stays open.    *)
Failed(c, i) ==
    /\ c.kind # "test" /\ i \in c.bad /\ Answered(c, i)
    /\ ui' = IF ~c.mine THEN ui
             ELSE CASE c.kind = "refresh" -> [ui EXCEPT !.refreshing = None]
                    [] c.kind = "refreshAll" /\ ~c.failed -> [ui EXCEPT !.refreshingAll = FALSE]
                    [] OTHER -> ui
    /\ UNCHANGED <<page, server, query, polls, count, acked>>
-----------------------------------------------------------------------------
UI(new) == ui' = new /\ UNCHANGED <<page, calls, server, query, polls, count, acked>>
Closed(u) == [u EXCEPT !.dialog = "closed", !.editing = None]

(* The create and edit dialogs of a page are one component, mounted with the  *)
(* page: opening it for a row leaves its form as it is.                       *)
OpenCreate == Free /\ UI([ui EXCEPT !.dialog = "create"])
OpenEdit(i) == /\ Free /\ i \in Listed(page)
               /\ UI([ui EXCEPT !.dialog = "edit", !.editing = i])
Type(b, on) == ui.dialog # "closed" /\ UI([ui EXCEPT !.form = RowOf(b, on)])

(* Escape, the overlay or the cancel button: nothing typed is dropped, and a  *)
(* save in flight goes on.                                                    *)
Cancel == ui.dialog # "closed" /\ UI(Closed(ui))
FormOf(b, on) == Type(b, on) \/ Cancel

Submit ==
    /\ ui.dialog # "closed" /\ ui.form.body # Blank
    /\ Pending({"create", "update"}) = {}
    /\ IF ui.editing = None THEN Sends("create", {New}, ui.form)
                            ELSE Sends("update", {ui.editing}, ui.form)
    /\ UNCHANGED <<page, ui, server, query, polls, acked>>

(* Rows are selected to be deleted, one request each.  handleSelectAll only   *)
(* compares how many are selected with how many are listed.                   *)
SelectAll == /\ Free
             /\ \E filtered \in SUBSET Listed(page) \ {{}} :
                    UI([ui EXCEPT !.selected = IF Cardinality(@) = Cardinality(filtered)
                                               THEN {} ELSE filtered])
Select(i) == /\ Free /\ i \in Listed(page)
             /\ UI([ui EXCEPT !.selected = IF i \in @ THEN @ \ {i} ELSE @ \union {i}])
AskDelete == Free /\ ui.selected # {} /\ UI([ui EXCEPT !.confirm = TRUE])
AskDeleteOne(i) == /\ Free /\ i \in Listed(page)
                   /\ UI([ui EXCEPT !.selected = {i}, !.confirm = TRUE])
CancelDelete == ui.confirm /\ UI([ui EXCEPT !.confirm = FALSE])
Row(i) == OpenEdit(i) \/ Select(i) \/ AskDeleteOne(i)
Toolbar == OpenCreate \/ AskDelete \/ Reload

ConfirmDelete ==
    /\ ui.confirm /\ ui' = [ui EXCEPT !.confirm = FALSE]
    /\ IF ui.selected = {} THEN UNCHANGED <<calls, count>>
                           ELSE Sends("delete", ui.selected, Gone)
    /\ UNCHANGED <<page, server, query, polls, acked>>

(* Promise.all(...).then: after the last answer, if every one was good.       *)
FaultyDeleteAnswered(c, i) ==   \* fault: after the last answer, good or bad
    /\ c.kind = "delete" /\ i \in c.ok
    /\ Answered(c, i) /\ Acknowledged(c)
    /\ ui' = IF c.mine /\ Last(c, i) THEN [ui EXCEPT !.selected = {}, !.confirm = FALSE] ELSE ui
    /\ UNCHANGED <<page, server, polls, count>>

DeleteAnswered(c, i) ==
    /\ c.kind = "delete" /\ i \in c.ok
    /\ Answered(c, i) /\ Acknowledged(c)
    /\ ui' = IF c.mine /\ Last(c, i) /\ AllGood(c)
             THEN [ui EXCEPT !.selected = {}, !.confirm = FALSE] ELSE ui
    /\ UNCHANGED <<page, server, polls, count>>
-----------------------------------------------------------------------------
(* Two pages delete one row at a time, the one a dialog asks about.           *)
ChooseTarget(i) == Free /\ i \in Listed(page) /\ UI([ui EXCEPT !.target = i])
KeepTarget == ui.target # None /\ UI([ui EXCEPT !.target = None])

DeleteTarget ==
    /\ ui.target # None /\ Sends("delete", {ui.target}, Gone)
    /\ ui' = [ui EXCEPT !.target = None]
    /\ UNCHANGED <<page, server, query, polls, acked>>

(* The answer takes away the question that is open by now.                    *)
TargetDeleted(c, i) ==
    /\ c.kind = "delete" /\ i \in c.ok
    /\ Answered(c, i) /\ Acknowledged(c)
    /\ ui' = IF c.mine THEN [ui EXCEPT !.target = None] ELSE ui
    /\ UNCHANGED <<page, server, polls, count>>
=============================================================================
