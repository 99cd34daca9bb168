---------------------------- MODULE QueryLogsPage ---------------------------
(* The list of the query-log page (pages/QueryLogs.tsx): filters that are     *)
(* applied by a button, pages, and a refresh every ten seconds.  Its live     *)
(* list is LiveFeed.                                                          *)
EXTENDS PagedQuery

OnLogs == route = "logs" /\ mounted
(* No placeholder: a key never loaded shows the spinner, a failed one says so.*)
LogsListed == IF cache[Key].loaded /\ ~Failed(Key) THEN cache[Key].result.rows ELSE {}

TypeFilter(text) ==
    /\ OnLogs /\ text # ui.query /\ Event
    /\ ui' = [ui EXCEPT !.query = text]
    /\ UNCHANGED <<route, mounted, calls, server, query, acked>>

(* handleSearch: setPage(0), and applyFilters with the page of before.        *)
SearchLogs ==
    /\ OnLogs /\ fetch[Key] = Idle
    /\ Shows([ui EXCEPT !.search = ui.query, !.page = 1, !.offset = ui.page])

LogsPager ==
    LET pages == PagesOf(cache[Key].result.total)
    IN  IF LogsListed = {} THEN {}
        ELSE (IF ui.page > 1 THEN {ui.page - 1} ELSE {})
             \union (IF ui.page < pages THEN {ui.page + 1} ELSE {})
(* goToPage: the filters applied, not those typed.                            *)
GoToPage(n) ==
    /\ OnLogs /\ n \in LogsPager
    /\ Shows([ui EXCEPT !.page = n, !.offset = n])
RefreshLogs == OnLogs /\ (fetch[Key] = Idle \/ Failed(Key)) /\ Refetch /\ Event

FaultyPollLogs ==   \* fault: the timer minds staleTime
    OnLogs /\ fetch[Key] = Idle /\ cache[Key].stale /\ Refetch /\ UNCHANGED count
PollLogs == OnLogs /\ fetch[Key] = Idle /\ Refetch /\ UNCHANGED count

(* A batch of the writer reaches the table.                                   *)
LogWritten(i, text) ==
    /\ route = "logs"
    /\ db[i] = Absent /\ \A j \in Ids : j < i => db[j] # Absent
    /\ db' = [db EXCEPT ![i] = text]
    /\ version' = version + 1
    /\ UNCHANGED <<route, mounted, ui, calls, query, count, acked>>

LogsUI == \/ \E text \in Texts : TypeFilter(text)
          \/ SearchLogs \/ RefreshLogs \/ \E n \in PageNos : GoToPage(n)
=============================================================================
