----------------------------- MODULE PagedPages -----------------------------
(* The two paged pages of the console; the writes of a page left behind are   *)
(* still answered.                                                            *)
EXTENDS RulesPage, QueryLogsPage

Init == PagedInit
Next == \/ RulesUI \/ LogsUI \/ Debounced \/ PollLogs
        \/ \E c \in calls : RulesAnswer(c)
        \/ \E k \in Keys : ReadKey(k) \/ Loaded(k) \/ LoadFailed(k)
        \/ \E i \in Ids : OtherAdmin(i) \/ \E text \in Words : LogWritten(i, text)
        \/ Leave \/ Return

Spec == Init /\ [][Next]_vars
(* The refresh timer fires, and what is asked for is read and comes back.     *)
FairSpec == Spec /\ WF_vars(PollLogs) /\ WF_vars(\E k \in Keys : ReadKey(k) \/ Loaded(k))
-----------------------------------------------------------------------------
(* No page of the rules list, of any search, passes for fresh with rows from  *)
(* before a write of this console that was answered, unless the answer came   *)
(* while a request was under way that nobody cancels: a first one, or that of *)
(* a key no longer on show.                                                   *)
OwnBulkShown == \A k \in Keys :
    cache[k].loaded /\ ~cache[k].stale /\ ~cache[k].raced => cache[k].result.ver >= acked

(* A delete is sent for the rows its dialog was opened for, or not at all,    *)
(* whatever is answered while the dialog is open (Rules.tsx:283: an empty     *)
(* selection sends nothing).                                                  *)
DeletesAsAsked ==
    [][ \A c \in calls' \ calls : c.kind = "delete" /\ c.state = "sent" /\ c.mine
                                  => c.ids = ui.asked ]_vars

(* A row of the log gets to the user: what is on show is as new as the table  *)
(* again and again, while loads do not fail ("refreshed every 10 seconds",    *)
(* QueryLogs.tsx:154).                                                        *)
LogShown == OnLogs ~> ~OnLogs \/ Failed(Key) \/ cache[Key].result.ver = version

=============================================================================
