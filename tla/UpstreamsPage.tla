--------------------------- MODULE UpstreamsPage ---------------------------
(* The upstreams page (frontend/src/pages/Upstreams.tsx): the dialog of the   *)
(* clients page, a test of one upstream, and a list fetched every 30 s.       *)
EXTENDS ListPage

OnUpstreams == page = "upstreams"

UpstreamsToolbar == OnUpstreams /\ (OpenCreate \/ Reload)
UpstreamsTable(i) == OnUpstreams /\ (OpenEdit(i) \/ ChooseTarget(i))
UpstreamDialog(b) == OnUpstreams /\ FormOf(b, TRUE)
SubmitUpstream == OnUpstreams /\ Submit

UpstreamSaved(c, i) ==
    /\ c.page = "upstreams" /\ c.kind \in {"create", "update"} /\ i \in c.ok
    /\ Answered(c, i) /\ Acknowledged(c)
    /\ ui' = IF c.mine THEN Closed(ui) ELSE ui
    /\ UNCHANGED <<page, server, polls, count>>

ConfirmDeleteUpstream == OnUpstreams /\ (KeepTarget \/ DeleteTarget)
UpstreamDeleted(c, i) == c.page = "upstreams" /\ TargetDeleted(c, i)

(* handleTest: one spinner for all rows; a test that finds the upstream dead  *)
(* is a good answer.                                                          *)
TestUpstream(i) ==
    /\ OnUpstreams /\ Free /\ i \in Listed(page) /\ ui.refreshing # i
    /\ Sends("test", {i}, Gone)
    /\ ui' = [ui EXCEPT !.refreshing = i]
    /\ UNCHANGED <<page, server, query, polls, acked>>

ServeTest(c, i) ==
    /\ c.kind = "test" /\ i \in c.todo /\ Exists(db["upstreams"][i])
    /\ UNCHANGED server
    /\ \E good \in BOOLEAN : Handled(c, i, good)
    /\ Served

TestAnswered(c, i) ==
    /\ c.kind = "test" /\ i \in c.ok \union c.bad
    /\ Answered(c, i) /\ Invalidated("upstreams")
    /\ ui' = IF c.mine THEN [ui EXCEPT !.refreshing = None] ELSE ui
    /\ UNCHANGED <<page, server, polls, count, acked>>

(* refetchInterval: joins a request that is already under way.                *)
IntervalTick ==
    /\ OnUpstreams /\ fetch[page] = Idle
    /\ fetch' = [fetch EXCEPT ![page] = Asked]
    /\ UNCHANGED <<page, ui, calls, server, cache, polls, count, acked>>

UpstreamsUI == \/ UpstreamsToolbar \/ SubmitUpstream \/ ConfirmDeleteUpstream
               \/ \E b \in Bodies : UpstreamDialog(b)
               \/ \E i \in Ids : UpstreamsTable(i) \/ TestUpstream(i)
UpstreamsAnswer(c, i) == UpstreamSaved(c, i) \/ UpstreamDeleted(c, i) \/ TestAnswered(c, i)
=============================================================================
