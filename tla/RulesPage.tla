----------------------------- MODULE RulesPage ------------------------------
(* The rules page (pages/Rules.tsx): a search that waits for the user to stop *)
(* typing, pages of which the last one stays on show until the next is there, *)
(* bulk actions on the rows selected, and a dialog that adds a rule.          *)
EXTENDS PagedQuery

OnRules == route = "rules" /\ mounted
RulesFree == OnRules /\ ui.dialog = "closed" /\ ~ui.confirm

(* data: of the key, or, until there is any, of the last key that had some    *)
(* (placeholderData); not once loading the key has failed.                    *)
RulesShown == IF cache[Key].loaded THEN cache[Key].result
              ELSE IF ui.last # <<>> /\ ~Failed(Key) THEN cache[ui.last].result ELSE Nothing
RulesListed == IF OnRules /\ ~Failed(Key) THEN RulesShown.rows ELSE {}
RulesLoading == fetch[Key] # Idle /\ ~cache[Key].loaded /\ ui.last = <<>>

-----------------------------------------------------------------------------
(* The effect that debounces the search: a keystroke drops the timer there    *)
(* is; 300 ms after the last one the search is made, from page 1.             *)
TypeSearch(text) ==
    /\ RulesFree /\ text # ui.query /\ Event
    /\ ui' = [ui EXCEPT !.query = text, !.timer = <<text>>]
    /\ UNCHANGED <<route, mounted, calls, server, query, acked>>
Debounced ==
    /\ OnRules /\ ui.timer # <<>>
    /\ Shows([ui EXCEPT !.search = ui.timer[1], !.page = 1, !.offset = 1, !.timer = <<>>])

(* The pager, which an empty page does not have.                              *)
RulesPager ==
    LET pages == PagesOf(RulesShown.total)
    IN  IF RulesListed = {} \/ RulesLoading THEN {}
        ELSE (IF ui.page > 1 THEN {1, ui.page - 1} ELSE {})
             \union (IF ui.page < pages THEN {ui.page + 1, pages} ELSE {})
TurnPage(n) ==
    /\ RulesFree /\ n \in RulesPager
    /\ Shows([ui EXCEPT !.page = n, !.offset = n])
RulesRefetch == RulesFree /\ ~RulesLoading /\ Refetch /\ Event
-----------------------------------------------------------------------------
(* Selection outlives pages and searches.  handleSelectAll compares sizes.    *)
SelectAll == /\ RulesFree /\ RulesListed # {}
             /\ UI([ui EXCEPT !.selected = IF Cardinality(@) = Cardinality(RulesListed)
                                           THEN {} ELSE RulesListed])
SelectRule(i) == /\ RulesFree /\ i \in RulesListed
                 /\ UI([ui EXCEPT !.selected = IF i \in @ THEN @ \ {i} ELSE @ \union {i}])

(* isPending is that of the last action sent.                                 *)
BulkPending == \E c \in calls : c.mine /\ c.n = ui.latest /\ c.kind # "create"
Bulk(kind, ids) ==
    /\ Event
    /\ calls' = calls \union {[n |-> count + 1, kind |-> kind, ids |-> ids, text |-> All,
                               mine |-> TRUE, state |-> "sent", ver |-> 0]}

BulkSwitch(kind) ==
    /\ RulesFree /\ ui.selected # {} /\ ~BulkPending /\ Bulk(kind, ui.selected)
    /\ ui' = [ui EXCEPT !.latest = count + 1]
    /\ UNCHANGED <<route, mounted, server, query, acked>>

(* The button of the toolbar waits for the last action, that of a row does    *)
(* not; asked is a history: what the dialog was opened for.                   *)
AskDelete == /\ RulesFree /\ ui.selected # {} /\ ~BulkPending
             /\ UI([ui EXCEPT !.confirm = TRUE, !.asked = ui.selected])
AskDeleteRule(i) == /\ RulesFree /\ i \in RulesListed
                    /\ UI([ui EXCEPT !.selected = {i}, !.confirm = TRUE, !.asked = {i}])
KeepRules == OnRules /\ ui.confirm /\ UI([ui EXCEPT !.confirm = FALSE, !.asked = {}])
FaultyDeleteRules ==   \* fault: the selection is not looked at again
    /\ OnRules /\ ui.confirm /\ Bulk("delete", ui.selected)
    /\ ui' = [ui EXCEPT !.latest = count + 1, !.confirm = FALSE, !.asked = {}]
    /\ UNCHANGED <<route, mounted, server, query, acked>>
DeleteRules ==
    /\ OnRules /\ ui.confirm /\ ui.selected # {} /\ Bulk("delete", ui.selected)
    /\ ui' = [ui EXCEPT !.latest = count + 1, !.confirm = FALSE, !.asked = {}]
    /\ UNCHANGED <<route, mounted, server, query, acked>>

(* CreateRuleDialog, with whatever is in its form.                            *)
OpenCreate == RulesFree /\ UI([ui EXCEPT !.dialog = "create"])
CloseCreate == OnRules /\ ui.dialog = "create" /\ UI([ui EXCEPT !.dialog = "closed"])
CreateRule(text) ==
    /\ OnRules /\ ui.dialog = "create"
    /\ ~\E c \in calls : c.mine /\ c.kind = "create"
    /\ Event
    /\ calls' = calls \union {[n |-> count + 1, kind |-> "create", ids |-> {}, text |-> text,
                               mine |-> TRUE, state |-> "sent", ver |-> 0]}
    /\ UNCHANGED <<route, mounted, ui, server, query, acked>>
-----------------------------------------------------------------------------
(* handlers/rules.rs: an answer may be lost, or an error after the rows were  *)
(* written, when the reload fails.                                            *)
Answers(c, good) ==
    calls' = (calls \ {c}) \union {[c EXCEPT !.state = IF good THEN "ok" ELSE "bad", !.ver = version']}
RuleServed == UNCHANGED <<route, mounted, ui, query, count, acked>>
ServeCreate(c) ==
    /\ c.kind = "create" /\ c.state = "sent"
    /\ \E i \in Ids : /\ db[i] = Absent /\ \A j \in Ids : j < i => db[j] # Absent
                      /\ db' = [db EXCEPT ![i] = c.text]
    /\ version' = version + 1
    /\ \E good \in BOOLEAN : Answers(c, good)
    /\ RuleServed
(* Rows that are gone are no error; whether a rule is on is not listed.       *)
ServeBulk(c) ==
    /\ c.kind # "create" /\ c.state = "sent"
    /\ db' = [i \in Ids |-> IF c.kind = "delete" /\ i \in c.ids THEN Gone ELSE db[i]]
    /\ version' = version + 1
    /\ \E good \in BOOLEAN : Answers(c, good)
    /\ RuleServed
RefuseRule(c) ==
    /\ c.state = "sent" /\ UNCHANGED server /\ Answers(c, FALSE) /\ RuleServed

OtherAdmin(i) ==
    /\ route = "rules" /\ db[i] \in Words /\ Event
    /\ db' = [db EXCEPT ![i] = Gone]
    /\ version' = version + 1
    /\ UNCHANGED <<route, mounted, ui, calls, query, acked>>

Acknowledged(c) ==
    /\ calls' = calls \ {c} /\ Invalidated
    /\ acked' = IF c.ver > acked THEN c.ver ELSE acked
    /\ UNCHANGED <<route, mounted, server, count>>

(* onSuccess: the whole selection goes, whatever was selected since; the      *)
(* dialog closes, whoever opened it again.                                    *)
BulkDone(c) ==
    /\ c.kind # "create" /\ c.state = "ok" /\ Acknowledged(c)
    /\ ui' = IF c.mine THEN [ui EXCEPT !.selected = {}] ELSE ui
RuleCreated(c) ==
    /\ c.kind = "create" /\ c.state = "ok" /\ Acknowledged(c)
    /\ ui' = IF c.mine THEN [ui EXCEPT !.dialog = "closed"] ELSE ui
RuleFailed(c) ==
    /\ c.state = "bad" /\ calls' = calls \ {c}
    /\ UNCHANGED <<route, mounted, ui, server, query, count, acked>>

RulesAnswer(c) == \/ ServeCreate(c) \/ ServeBulk(c) \/ RefuseRule(c)
                  \/ BulkDone(c) \/ RuleCreated(c) \/ RuleFailed(c)
RulesTable == \/ \E i \in Ids : SelectRule(i) \/ AskDeleteRule(i)
              \/ SelectAll \/ (\E n \in PageNos : TurnPage(n))
RulesToolbar == \/ \E text \in Texts : TypeSearch(text)
                \/ RulesRefetch \/ AskDelete \/ OpenCreate
                \/ \E kind \in {"enable", "disable"} : BulkSwitch(kind)
RulesDialogs == KeepRules \/ DeleteRules \/ CloseCreate \/ \E text \in Words : CreateRule(text)
RulesUI == RulesToolbar \/ RulesTable \/ RulesDialogs
=============================================================================
