------------------------------ MODULE Console ------------------------------
(* The list pages of the administration console together (App.tsx): one of    *)
(* them is mounted, all of them share the query cache and the server, and the *)
(* mutations of the pages left behind are still answered.                     *)
EXTENDS FiltersPage, RewritesPage, ClientsPage, UsersPage, UpstreamsPage

CONSTANT Seeds    \* the rows there are at first

ASSUME SeedsAssumption ==
    Seeds \in [Pages -> [Ids -> [body : Bodies \union Roles \union {"absent"},
                               on : BOOLEAN, synced : BOOLEAN]]]

Init == ListInit(Seeds)

ServerStep(c) == \/ ServeCreate(c)
                 \/ \E i \in Ids : \/ ServeUpdate(c, i) \/ ServeDelete(c, i)
                                   \/ ServeRefresh(c, i) \/ ServeTest(c, i)
                 \/ \E i \in Ids \union {New} : Refuse(c, i)
AnswerStep(c) == \E i \in Ids \union {New} :
    \/ FiltersAnswer(c, i) \/ RewritesAnswer(c, i) \/ ClientsAnswer(c, i) \/ UsersAnswer(c, i)
    \/ UpstreamsAnswer(c, i) \/ Failed(c, i)

User == \/ FiltersUI \/ RewritesUI \/ ClientsUI \/ UsersUI \/ UpstreamsUI
        \/ \E p \in Pages : Navigate(p)

Next == \/ User
        \/ \E c \in calls : ServerStep(c) \/ AnswerStep(c)
        \/ \E p \in Pages : \/ ReadRows(p) \/ Loaded(p) \/ LoadFailed(p)
                            \/ \E i \in Ids : OtherAdmin(p, i)
        \/ \E i \in Ids : SyncEnds(i)
        \/ PollTick \/ IntervalTick

Spec == Init /\ [][Next]_vars

(* Every request is answered or times out (client.ts), timers tick, and what  *)
(* a query asks for is read and comes back.  Nothing is assumed of the user.  *)
Fairness == /\ \A n \in 0..MaxCalls : WF_vars(\E c \in calls : c.n = n /\ (ServerStep(c) \/ AnswerStep(c)))
            /\ \A p \in Pages : WF_vars(ReadRows(p)) /\ WF_vars(Loaded(p) \/ LoadFailed(p))
            /\ WF_vars(PollTick)
FairSpec == Spec /\ Fairness
-----------------------------------------------------------------------------
(* A page never settles on rows from before a write of its own that was       *)
(* answered: a list not marked stale is at least as new as the last such      *)
(* write (the invalidateQueries of every onSuccess), except when the write    *)
(* was answered while a request was under way that nobody cancels: the first  *)
(* one of a page, or one of a page left behind.                               *)
OwnWritesShown ==
    \A p \in Pages : cache[p].loaded /\ ~cache[p].stale /\ ~cache[p].raced
                     => cache[p].ver >= acked[p]

(* Deleting what is selected is all or nothing for the selection: an answer   *)
(* takes it away only when every delete of its batch succeeded; after a       *)
(* failure the rows are still selected, those already deleted included.       *)
KeptOnFailure ==
    [][ calls' # calls /\ page' = page /\ ui.selected # {} /\ ui'.selected = {}
        => \E c \in calls \ calls' : c.kind = "delete" /\ ~c.failed /\ c.bad \union c.todo = {} ]_vars

(* While a timer is left, a list that the server has synchronised gets its    *)
(* new count onto the page, unless loading fails, the list is deleted, or the *)
(* page is left.                                                              *)
SyncShown == "filters" \in Pages => \A i \in Ids :
    (/\ page = "filters" /\ polls > 0 /\ db["filters"][i].synced /\ cache["filters"].loaded)
    ~> \/ cache["filters"].rows[i].synced \/ cache["filters"].error
       \/ page # "filters" \/ ~Exists(db["filters"][i])

=============================================================================
