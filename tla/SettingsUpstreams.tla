-------------------------- MODULE SettingsUpstreams --------------------------
(* The upstream servers on the settings page (frontend/src/pages/Settings.tsx *)
(* and api/handlers/upstreams.rs): their list, one dialog for new and old     *)
(* ones, the connectivity test and the manual failover with its log.          *)
EXTENDS SettingsForm

CONSTANTS Ids,         \* upstreams there can be
          Priorities,  \* what the dialog says of one
          Seeds        \* the upstreams there are at first

ASSUME UpstreamsAssumption == Seeds = [i \in Ids |-> Seeds[i]]   \* one row per id

VARIABLES rows,     \* server: dns_upstreams
          log,      \* server: upstream_failover_log
          list,     \* query cache: upstreams and failover-log, each with its request
          dialog,   \* dialogOpen, editingUpstream and the state of UpstreamDialog
          testing,  \* testingUpstream
          calls     \* mutations and tests in flight

upstreamVars == <<rows, log, list, dialog, testing, calls>>

Absent == [state |-> "absent", priority |-> 0, healthy |-> FALSE]
Gone == [Absent EXCEPT !.state = "gone"]     \* an id is never given out again
Row(priority, healthy) == [state |-> "there", priority |-> priority, healthy |-> healthy]
There(row) == row.state = "there"
Listed == IF Ready /\ list.upstreams.data # None
          THEN {i \in Ids : There(list.upstreams.data[i])} ELSE {}
Unasked == [data |-> None, get |-> "idle", old |-> FALSE]
Closed == [open |-> FALSE, editing |-> None, form |-> None, from |-> None]

UpstreamsInit ==
    /\ rows = Seeds /\ log = <<>>
    /\ list = [upstreams |-> [Unasked EXCEPT !.get = "asked"], log |-> [Unasked EXCEPT !.get = "asked"]]
    /\ dialog = Closed /\ testing = None /\ calls = {}
-----------------------------------------------------------------------------
(* invalidateQueries: a request under way is dropped if there is data.        *)
Invalidated(names) ==
    list' = [q \in DOMAIN list |->
        IF q \notin names THEN list[q]
        ELSE IF open /\ (list[q].data # None \/ list[q].get = "idle")
             THEN [list[q] EXCEPT !.get = "asked", !.old = TRUE]
             ELSE [list[q] EXCEPT !.old = TRUE]]

(* What a request brings may be old by the time it is clicked: that comes     *)
(* from the changes after it, so it is read and shown in one step.            *)
ServerHas(q) == IF q = "log" THEN log ELSE rows
ListLoaded(q) ==
    /\ list[q].get = "asked"
    /\ list' = [list EXCEPT ![q] = [Unasked EXCEPT !.data = ServerHas(q)]]
    /\ UNCHANGED <<rows, log, dialog, testing, calls>>

Shows(d) == dialog' = d /\ UNCHANGED <<rows, log, list, testing, calls>>

\* Fault: the dialog stays mounted, and its fields keep what they say.
FaultyOpenDialog(i) ==
    /\ Ready /\ ~dialog.open /\ i \in Listed \union {None} /\ Event
    /\ Shows([dialog EXCEPT !.open = TRUE, !.editing = i])

(* handleCreateUpstream, handleEditUpstream: the content of a dialog is       *)
(* mounted when it opens, so its fields start from the upstream it is given.  *)
OpenDialog(i) ==
    /\ Ready /\ ~dialog.open /\ i \in Listed \union {None} /\ Event
    /\ Shows([open |-> TRUE, editing |-> i, from |-> i,
              form |-> IF i = None THEN 1 ELSE list.upstreams.data[i].priority])
TypePriority(p) == Ready /\ dialog.open /\ dialog.form # p /\ Event /\ Shows([dialog EXCEPT !.form = p])
(* onCancel, Escape, the overlay: editingUpstream is left as it is.           *)
CloseDialog == Ready /\ dialog.open /\ Shows([dialog EXCEPT !.open = FALSE])

Calls(kind, i) ==
    calls' = calls \union {[n |-> events, kind |-> kind, id |-> i, from |-> dialog.from, mine |-> TRUE,
                            priority |-> dialog.form, state |-> "sent", seen |-> None]}

(* handleSaveUpstream: nothing keeps it from being pressed again.             *)
SaveUpstream ==
    /\ Ready /\ dialog.open /\ Event
    /\ Calls(IF dialog.editing = None THEN "create" ELSE "update", dialog.editing)
    /\ UNCHANGED <<rows, log, list, dialog, testing>>
DeleteUpstream(i) ==     \* confirm() is answered before anything else goes on
    /\ i \in Listed /\ ~dialog.open /\ Event /\ Calls("delete", i)
    /\ UNCHANGED <<rows, log, list, dialog, testing>>
TestUpstream(i) ==
    /\ i \in Listed /\ ~dialog.open /\ testing # i /\ Event /\ Calls("test", i)
    /\ testing' = i
    /\ UNCHANGED <<rows, log, list, dialog>>
Failover ==
    /\ Ready /\ ~dialog.open /\ Event /\ Calls("failover", None)
    /\ \A c \in calls : c.mine => c.kind # "failover"
    /\ UNCHANGED <<rows, log, list, dialog, testing>>
-----------------------------------------------------------------------------
Becomes(c, state, seen) == calls' = (calls \ {c}) \union {[c EXCEPT !.state = state, !.seen = seen]}
ServerOnly == UNCHANGED <<list, dialog, testing>>

ServeCreateUpstream(c) ==
    /\ c.kind = "create" /\ c.state = "sent"
    /\ \E i \in Ids : /\ rows[i].state = "absent"
                      /\ rows' = [rows EXCEPT ![i] = Row(c.priority, FALSE)]
    /\ Becomes(c, "ok", None) /\ UNCHANGED log /\ ServerOnly

(* update: the row is read, and in a second statement written.                *)
ReadUpstream(c) ==
    /\ c.kind = "update" /\ c.state = "sent"
    /\ IF There(rows[c.id]) THEN Becomes(c, "read", rows[c.id]) ELSE Becomes(c, "bad", None)
    /\ UNCHANGED <<rows, log>> /\ ServerOnly

\* Fault: the row is put back as it was read (INSERT OR REPLACE).
FaultyWriteUpstream(c) ==
    /\ c.kind = "update" /\ c.state = "read"
    /\ rows' = [rows EXCEPT ![c.id] = [c.seen EXCEPT !.priority = c.priority]]
    /\ Becomes(c, "ok", None) /\ UNCHANGED log /\ ServerOnly

WriteUpstream(c) ==
    /\ c.kind = "update" /\ c.state = "read"
    /\ rows' = IF There(rows[c.id]) THEN [rows EXCEPT ![c.id].priority = c.priority] ELSE rows
    /\ Becomes(c, "ok", None) /\ UNCHANGED log /\ ServerOnly

ServeDeleteUpstream(c) ==
    /\ c.kind = "delete" /\ c.state = "sent"
    /\ IF There(rows[c.id]) THEN rows' = [rows EXCEPT ![c.id] = Gone] /\ Becomes(c, "ok", None)
                            ELSE UNCHANGED rows /\ Becomes(c, "bad", None)
    /\ UNCHANGED log /\ ServerOnly
OtherDeletes(i) ==
    /\ There(rows[i]) /\ Event /\ rows' = [rows EXCEPT ![i] = Gone]
    /\ UNCHANGED <<log, list, dialog, testing, calls>>

ServeTest(c) ==
    /\ c.kind = "test" /\ c.state = "sent" /\ Becomes(c, IF There(rows[c.id]) THEN "ok" ELSE "bad", None)
    /\ UNCHANGED <<rows, log>> /\ ServerOnly

(* trigger_failover: the first healthy one by priority is written to the log, *)
(* which is all the failover there is.                                        *)
PickUpstream(c) ==
    /\ c.kind = "failover" /\ c.state = "sent"
    /\ LET healthy == {i \in Ids : rows[i].healthy} IN
       IF healthy = {} THEN Becomes(c, "ok", None)
       ELSE \E i \in healthy : /\ \A j \in healthy : rows[i].priority <= rows[j].priority
                               /\ Becomes(c, "read", i)
    /\ UNCHANGED <<rows, log>> /\ ServerOnly
LogFailover(c) ==
    /\ c.kind = "failover" /\ c.state = "read"
    /\ log' = Append(log, c.seen)
    /\ Becomes(c, "ok", None) /\ UNCHANGED rows /\ ServerOnly
-----------------------------------------------------------------------------
Done(c) == calls' = calls \ {c} /\ UNCHANGED <<rows, log>>

(* onSuccess of the four mutations: the dialog that is closed is the one open *)
(* by now.                                                                    *)
UpstreamSaved(c) ==
    /\ c.kind \in {"create", "update"} /\ c.state = "ok"
    /\ dialog' = CASE ~c.mine -> dialog
                   [] c.kind = "create" -> [dialog EXCEPT !.open = FALSE]
                   [] OTHER -> [dialog EXCEPT !.open = FALSE, !.editing = None]
    /\ Invalidated({"upstreams"}) /\ Done(c) /\ UNCHANGED testing
UpstreamDeleted(c) ==
    /\ c.kind = "delete" /\ c.state = "ok"
    /\ Invalidated({"upstreams"}) /\ Done(c) /\ UNCHANGED <<dialog, testing>>
FailoverAnswered(c) ==
    /\ c.kind = "failover" /\ c.state = "ok"
    /\ Invalidated({"upstreams", "log"}) /\ Done(c) /\ UNCHANGED <<dialog, testing>>
UpstreamFailed(c) ==
    /\ c.kind # "test" /\ c.state = "bad"
    /\ Done(c) /\ UNCHANGED <<list, dialog, testing>>

(* handleTestUpstream, finally: the spinner of whichever test runs goes out.  *)
TestAnswered(c) ==
    /\ c.kind = "test" /\ c.state \in {"ok", "bad"}
    /\ testing' = IF c.mine THEN None ELSE testing
    /\ Done(c) /\ UNCHANGED <<list, dialog>>

LeaveUpstreams ==
    /\ dialog' = Closed /\ testing' = None /\ calls' = {[c EXCEPT !.mine = FALSE] : c \in calls}
    /\ UNCHANGED <<rows, log, list>>
EnterUpstreams ==
    /\ list' = [q \in DOMAIN list |->
           IF list[q].get = "idle" /\ list[q].old THEN [list[q] EXCEPT !.get = "asked"] ELSE list[q]]
    /\ UNCHANGED <<rows, log, dialog, testing, calls>>
=============================================================================
