------------------------------ MODULE ListSync ------------------------------
(* Filter lists (subscriptions): api/handlers/filters.rs and                  *)
(* dns/subscription.rs, on top of the filter engine.  A list's rules are rows *)
(* of custom_rules whose created_by names the list; nothing in the database   *)
(* ties them to the list's own row.  Creating or refreshing a list spawns a   *)
(* background sync, which works on a copy of the list's id and URL.           *)
EXTENDS FilterEngine

CONSTANTS Lists,       \* ids of filter_lists rows, values of created_by
          Offers,      \* per list, the rules its URL may ever serve
          MaxFailures  \* bound: how many syncs, or INSERTs of a sync, fail

ASSUME ListAssumption ==
    /\ Lists \subseteq Owners
    /\ Offers \in [Lists -> SUBSET RuleIds]
    /\ \A l, m \in Lists : l # m => Offers[l] \intersect Offers[m] = {}
    /\ MaxFailures \in Nat

VARIABLES filter_lists,  \* the database's lists: a set of rows
          job,           \* per task: what it is doing to which list
          overlapped,    \* history: two tasks have been working on one list at once
          failures       \* how many syncs and INSERTs have failed

jobs == <<job, overlapped>>
listVars == <<vars, filter_lists, jobs, failures>>

Listed(l) == \E r \in filter_lists : r.id = l
RowOf(l) == CHOOSE r \in filter_lists : r.id = l
RulesOf(R, l) == {r \in R : r.created_by = l}

(* fetch, insert and stamp are the steps of a sync; patch and unlist the       *)
(* second steps of update and delete.  Of the rules downloaded, those of todo  *)
(* have not been inserted yet, and those of failed were refused.               *)
SyncSteps == {"fetch", "insert", "stamp"}
Job(step, l) == [doing |-> step, list |-> l, rules |-> {}, todo |-> {}, failed |-> {}, has_url |-> TRUE]
NoJob == [doing |-> "nothing"]
Doing(t, step) == pc[t] = "handling" /\ job[t].doing = step
Working(j, l) == j.doing # "nothing" /\ j.list = l
SetJob(t, j) ==
    /\ job' = [job EXCEPT ![t] = j]
    /\ overlapped' = (overlapped \/ \E s \in Tasks \ {t}, l \in Lists : Working(job[s], l) /\ Working(j, l))

ListInit == /\ Init
            /\ filter_lists = {}
            /\ \A r \in custom_rules : r.created_by \notin Lists /\ r.id \notin UNION {Offers[l] : l \in Lists}
            /\ job = [t \in Tasks |-> NoJob]
            /\ overlapped = FALSE
            /\ failures = 0
-----------------------------------------------------------------------------
(* create: INSERT, then a background task if there is a URL.  synced says     *)
(* that last_updated is not NULL.  is_enabled has no part in the model: it is *)
(* stored, and neither a sync nor reload() ever reads it.                     *)
NewRow(l, has_url) == [id |-> l, has_url |-> has_url, rule_count |-> 0, synced |-> FALSE]
CreateList(t, l, has_url) ==
    /\ pc[t] = "idle"
    /\ ~Listed(l)
    /\ filter_lists' = filter_lists \union {NewRow(l, has_url)}
    /\ IF has_url THEN Begin(t) /\ SetJob(t, Job("fetch", l))
                  ELSE UNCHANGED <<vars, jobs>>
    /\ UNCHANGED failures

(* refresh: 404 without a row, 400 without a URL, else a background task. *)
RefreshList(t, l) ==
    /\ Listed(l) /\ RowOf(l).has_url
    /\ Begin(t)
    /\ SetJob(t, Job("fetch", l))
    /\ UNCHANGED <<filter_lists, failures>>

(* update: reads the row, fills in what the request leaves out; a URL can be  *)
(* added, never removed.                                                      *)
FetchList(t, l, add_url) ==
    /\ Listed(l)
    /\ Begin(t)
    /\ SetJob(t, [Job("patch", l) EXCEPT !.has_url = RowOf(l).has_url \/ add_url])
    /\ UNCHANGED <<filter_lists, failures>>
PatchList(t) ==
    /\ Doing(t, "patch")
    /\ filter_lists' = {IF r.id = job[t].list THEN [r EXCEPT !.has_url = job[t].has_url] ELSE r :
                          r \in filter_lists}
    /\ StartReload(t)
    /\ SetJob(t, NoJob)
    /\ UNCHANGED failures

(* delete: first the rules, an await later the list; 404, and no reload, if   *)
(* there was no such list.                                                    *)
FaultyWithoutRulesOf(l) == {}              \* fault: DELETE without its WHERE
MissingWithoutRulesOf(l) == custom_rules   \* fault: WHERE created_by = id, without the prefix
WithoutRulesOf(l) == custom_rules \ RulesOf(custom_rules, l)
DeleteRules(t, l) ==
    /\ pc[t] = "idle"
    /\ IF RulesOf(custom_rules, l) = {}
       THEN Begin(t)
       ELSE Commit(t, WithoutRulesOf(l), dns_rewrites, "handling")
    /\ SetJob(t, Job("unlist", l))
    /\ UNCHANGED <<filter_lists, failures>>
DeleteList(t) ==
    /\ Doing(t, "unlist")
    /\ filter_lists' = {r \in filter_lists : r.id # job[t].list}
    /\ IF Listed(job[t].list) THEN StartReload(t) ELSE Reject(t)
    /\ SetJob(t, NoJob)
    /\ UNCHANGED failures
-----------------------------------------------------------------------------
(* sync_filter_list: the download, and one transaction, whether or not the    *)
(* list still exists: BEGIN and DELETE, then an INSERT per rule, then COMMIT.  *)
(* Until then only the transaction sees what it does; and as its DELETE takes *)
(* the database's write lock, what others commit comes before it or after it. *)
\* Fault: created_by says "filter" and not which.
FaultyRowsFor(l, served) == {[id |-> i, created_by |-> "filter", is_enabled |-> TRUE] : i \in served}

RowsFor(l, served) == {[id |-> i, created_by |-> l, is_enabled |-> TRUE] : i \in served}

Replaced(l, served) == WithoutRulesOf(l) \union RowsFor(l, served)

\* Fault: no transaction, the DELETE is committed by itself.
FaultyFetch(t) ==
    /\ Doing(t, "fetch")
    /\ \E served \in SUBSET Offers[job[t].list] :
         SetJob(t, [job[t] EXCEPT !.doing = "insert", !.rules = served, !.todo = served])
    /\ IF RulesOf(custom_rules, job[t].list) = {}
       THEN UNCHANGED vars
       ELSE Commit(t, WithoutRulesOf(job[t].list), dns_rewrites, "handling")
    /\ UNCHANGED <<filter_lists, failures>>

Fetch(t) ==
    /\ Doing(t, "fetch")
    /\ \E served \in SUBSET Offers[job[t].list] :
         SetJob(t, [job[t] EXCEPT !.doing = "insert", !.rules = served, !.todo = served])
    /\ UNCHANGED <<vars, filter_lists, failures>>

(* An INSERT that fails is passed over, and the transaction goes on. *)
InsertRule(t, i) ==
    /\ Doing(t, "insert") /\ i \in job[t].todo
    /\ \E refused \in BOOLEAN :
         /\ refused => failures < MaxFailures
         /\ failures' = IF refused THEN failures + 1 ELSE failures
         /\ SetJob(t, [job[t] EXCEPT !.todo = @ \ {i},
                                    !.failed = IF refused THEN @ \union {i} ELSE @])
    /\ UNCHANGED <<vars, filter_lists>>

Inserted(j) == j.rules \ j.failed
CommitSync(t) ==
    /\ Doing(t, "insert") /\ job[t].todo = {}
    /\ Commit(t, Replaced(job[t].list, Inserted(job[t])), dns_rewrites, "handling")
    /\ SetJob(t, [job[t] EXCEPT !.doing = "stamp"])
    /\ UNCHANGED <<filter_lists, failures>>

Stamped(r, inserted) == [r EXCEPT !.rule_count = Cardinality(inserted), !.synced = TRUE]
Stamp(t) ==
    /\ Doing(t, "stamp")
    /\ filter_lists' = {IF r.id = job[t].list THEN Stamped(r, Inserted(job[t])) ELSE r : r \in filter_lists}
    /\ StartReload(t)
    /\ SetJob(t, NoJob)
    /\ UNCHANGED failures

(* Any other step of a sync may fail, which drops its transaction: a warning  *)
(* is logged, and no reload follows even if the transaction had committed.    *)
SyncFails(t) ==
    /\ pc[t] = "handling" /\ job[t].doing \in SyncSteps /\ job[t].todo = {}
    /\ failures < MaxFailures
    /\ failures' = failures + 1
    /\ Reject(t)
    /\ SetJob(t, NoJob)
    /\ UNCHANGED filter_lists

(* main.rs: the hourly refresh.  Its SELECT names a column no migration       *)
(* creates, so it fails and the loop goes on to the next hour.                *)
ListColumns == {"id", "name", "url", "is_enabled", "rule_count", "last_updated", "created_at"}
RefreshColumns == {"id", "url", "update_interval_hours", "last_updated"}
AutoRefresh == ~(RefreshColumns \subseteq ListColumns) /\ UNCHANGED listVars

(* Requests can be cut short; a background sync cannot, but its reload may fail. *)
ListEndsEarly(t) ==
    /\ job[t].doing \notin SyncSteps
    /\ Abandon(t)
    /\ SetJob(t, NoJob)
    /\ UNCHANGED <<filter_lists, failures>>
ListRestart ==
    /\ Restart
    /\ job' = [t \in Tasks |-> NoJob]
    /\ UNCHANGED <<filter_lists, overlapped, failures>>
ListReload(t) == Reload(t) /\ UNCHANGED <<filter_lists, jobs, failures>>

ListNext ==
    \/ \E t \in Tasks :
         \/ \E l \in Lists, has_url \in BOOLEAN : CreateList(t, l, has_url) \/ FetchList(t, l, has_url)
         \/ \E l \in Lists : RefreshList(t, l) \/ DeleteRules(t, l)
         \/ PatchList(t) \/ DeleteList(t)
         \/ Fetch(t) \/ CommitSync(t) \/ Stamp(t) \/ SyncFails(t)
         \/ \E i \in RuleIds : InsertRule(t, i)
         \/ ListReload(t) \/ ListEndsEarly(t)
    \/ AutoRefresh
    \/ ListRestart

ListSpec == ListInit /\ [][ListNext]_listVars

-----------------------------------------------------------------------------
(* The handlers and the syncs only take steps the engine is prepared for. *)
ListsImplementEngine == Spec

(* A step changes the rules of a list only on behalf of that list, and never  *)
(* an administrator's: sync and delete select by created_by.                  *)
OthersUntouched ==
    [][\A o \in Owners : RulesOf(custom_rules', o) # RulesOf(custom_rules, o) =>
         \E t \in Tasks : Working(job'[t], o)]_listVars

(* Whatever crashes or fails in mid-sync, a list never stands half replaced   *)
(* or empty in between: it loses rules only all at once, by its deletion, or  *)
(* by the COMMIT of a sync to exactly the rules its URL served, less those    *)
(* whose own INSERT failed (the transaction of subscription.rs:174-225).      *)
ReplacedWhole ==
    [][\A l \in Lists :
         ~(RulesOf(custom_rules, l) \subseteq custom_rules') =>
           \E t \in Tasks :
             /\ Working(job'[t], l)
             /\ \/ job'[t].doing = "unlist" /\ RulesOf(custom_rules', l) = {}
                \/ /\ job[t].doing = "insert" /\ job'[t].doing = "stamp"
                   /\ RulesOf(custom_rules', l) = RowsFor(l, job[t].rules \ job[t].failed)]_listVars

(* Whatever fails or crashes, rules outlive their list only if two tasks      *)
(* worked on it at once (filters.rs:173 deletes the rules before the list).   *)
NoOrphans ==
    ~overlapped => \A r \in custom_rules : r.created_by \in Lists => Listed(r.created_by)

=============================================================================
