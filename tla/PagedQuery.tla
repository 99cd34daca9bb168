----------------------------- MODULE PagedQuery -----------------------------
(* What the two paged pages share, Rules.tsx and QueryLogs.tsx: a query whose *)
(* key holds the search and the page asked for, so that the query cache of    *)
(* App.tsx has an entry per key, and the server that answers it, the newest   *)
(* rows first.  The keys of the two never meet: a behaviour is about one of   *)
(* them, which is mounted, left and mounted again.                            *)
EXTENDS Naturals, FiniteSets

CONSTANTS Routes,     \* among "rules" and "logs"
          Ids,        \* rows, numbered as they are made
          Words,      \* what a row says, and what can be searched for
          PAGE_SIZE,  \* rows a page shows
          Seeds,      \* what the rows may be at first
          MaxEvents   \* bound: writes sent, loads failed, rows deleted by somebody else, pages
                      \* left, searches typed, lists reloaded or older than staleTime

ASSUME PagedAssumption ==
    /\ MaxEvents \in Nat /\ PAGE_SIZE \in Nat \ {0}
    /\ Ids \subseteq Nat /\ IsFiniteSet(Ids) /\ Ids # {}
    /\ Routes \subseteq {"rules", "logs"} /\ Words \subseteq STRING

VARIABLES route,    \* which page this is about
          mounted,  \* whether it is on show
          ui,       \* its component state, lost when it is left
          calls,    \* writes in flight
          db,       \* server: what the rows say
          version,  \* server: how many times the rows have changed
          cache,    \* query cache: per key, what was last loaded
          fetch,    \* query cache: per key, the request for it
          count,    \* bound: see MaxEvents
          acked     \* history: the version of the last acknowledged write

vars == <<route, mounted, ui, calls, db, version, cache, fetch, count, acked>>
server == <<db, version>>
query == <<cache, fetch>>

All == ""            \* nothing searched for
Texts == Words \union {All}
Absent == "absent"   \* not made yet
Gone == "gone"       \* deleted: an id is never given out twice
PageNos == 1..((Cardinality(Ids) + PAGE_SIZE - 1) \div PAGE_SIZE)
Keys == Texts \X PageNos

Event == count < MaxEvents /\ count' = count + 1

(* list of handlers/rules.rs and handlers/query_log.rs: a filter, the newest  *)
(* first, one page of them and how many there are in all.                     *)
Matching(text) == {i \in Ids : db[i] \in Words /\ text \in {All, db[i]}}
Result(k) ==
    LET all == Matching(k[1])
        rank(i) == Cardinality({j \in all : j >= i})
    IN  [rows |-> {i \in all : rank(i) > (k[2] - 1) * PAGE_SIZE /\ rank(i) <= k[2] * PAGE_SIZE},
         total |-> Cardinality(all), ver |-> version]
PagesOf(total) == (total + PAGE_SIZE - 1) \div PAGE_SIZE

Idle == [state |-> "idle"]
Asked == [state |-> "asked", raced |-> FALSE]
Nothing == [rows |-> {}, total |-> 0, ver |-> 0]
Unloaded == [result |-> Nothing, loaded |-> FALSE, stale |-> TRUE, error |-> FALSE, raced |-> FALSE]

(* error: fetching anew what was never loaded takes it away for the time.     *)
Failed(k) == cache[k].error /\ (cache[k].loaded \/ fetch[k] = Idle)
Key == <<ui.search, ui.offset>>    \* queryKey: what the page observes now
Fresh == [query |-> All, timer |-> <<All>>, search |-> All, page |-> 1,
          offset |-> 1, last |-> <<>>, selected |-> {}, dialog |-> "closed",
          confirm |-> FALSE, asked |-> {}, latest |-> 0]

PagedInit ==
    /\ route \in Routes /\ mounted = TRUE /\ ui = Fresh /\ calls = {}
    /\ db \in Seeds /\ version = 0 /\ acked = 0
    /\ cache = [k \in Keys |-> Unloaded]
    /\ fetch = [k \in Keys |-> IF k = Key THEN Asked ELSE Idle]
    /\ count = 0
-----------------------------------------------------------------------------
(* Observing a key: what is not there, marked or older than staleTime is      *)
(* asked for, unless it is being fetched.                                     *)
Observed(k) ==
    LET asks == fetch' = [fetch EXCEPT ![k] = IF @ = Idle THEN Asked ELSE @]
    IN  \/ cache[k].stale /\ asks /\ UNCHANGED count
        \/ ~cache[k].stale /\ UNCHANGED <<fetch, count>>
        \/ ~cache[k].stale /\ asks /\ Event

(* invalidateQueries: every key, whatever its search and page; the one on     *)
(* show is fetched anew, dropping a request in flight unless nothing was ever *)
(* loaded.  Others in flight go on: history marks them raced.                 *)
FaultyInvalidated ==   \* fault: the key that is on show, not its prefix
    /\ cache' = [cache EXCEPT ![Key].stale = TRUE]
    /\ fetch' = [fetch EXCEPT ![Key] = IF mounted THEN Asked ELSE @]
Invalidated ==
    /\ cache' = [k \in Keys |-> [cache[k] EXCEPT !.stale = TRUE]]
    /\ fetch' = [k \in Keys |->
           IF mounted /\ k = Key /\ (cache[k].loaded \/ fetch[k] = Idle) THEN Asked
           ELSE IF fetch[k] = Idle THEN Idle ELSE [fetch[k] EXCEPT !.raced = TRUE]]

(* Count and rows are two statements; their order tells nothing apart here.   *)
ReadKey(k) ==
    /\ fetch[k].state = "asked"
    /\ fetch' = [fetch EXCEPT ![k] = [state |-> "read", result |-> Result(k), raced |-> @.raced]]
    /\ UNCHANGED <<route, mounted, ui, calls, server, cache, count, acked>>
Loaded(k) ==
    /\ fetch[k].state = "read"
    /\ cache' = [cache EXCEPT ![k] = [result |-> fetch[k].result, loaded |-> TRUE, stale |-> FALSE,
                                      error |-> FALSE, raced |-> fetch[k].raced]]
    /\ fetch' = [fetch EXCEPT ![k] = Idle]
    /\ ui' = IF mounted /\ k = Key THEN [ui EXCEPT !.last = k] ELSE ui
    /\ UNCHANGED <<route, mounted, calls, server, count, acked>>
LoadFailed(k) ==
    /\ fetch[k] # Idle /\ Event
    /\ cache' = [cache EXCEPT ![k].error = TRUE, ![k].stale = TRUE]
    /\ fetch' = [fetch EXCEPT ![k] = Idle]
    /\ UNCHANGED <<route, mounted, ui, calls, server, acked>>

(* refetch drops the request in flight, too, unless nothing was ever loaded.  *)
Refetch == /\ fetch' = [fetch EXCEPT ![Key] = IF cache[Key].loaded \/ @ = Idle THEN Asked ELSE @]
           /\ UNCHANGED <<route, mounted, ui, calls, server, cache, acked>>

Leave ==
    /\ mounted /\ Event /\ mounted' = FALSE /\ ui' = Fresh
    /\ calls' = {[c EXCEPT !.mine = FALSE] : c \in calls}
    /\ UNCHANGED <<route, server, query, acked>>
Return ==
    /\ ~mounted /\ mounted' = TRUE /\ ui' = [Fresh EXCEPT !.last = IF cache[Key].loaded THEN Key ELSE @]
    /\ Observed(Key)
    /\ UNCHANGED <<route, calls, server, cache, acked>>

UI(new) == ui' = new /\ UNCHANGED <<route, mounted, calls, server, query, count, acked>>
(* A change of key: what it takes to show it.                                 *)
Shows(new) ==
    /\ ui' = [new EXCEPT !.last = IF cache[<<new.search, new.offset>>].loaded
                                  THEN <<new.search, new.offset>> ELSE @]
    /\ Observed(<<new.search, new.offset>>)
    /\ UNCHANGED <<route, mounted, calls, server, cache, acked>>
=============================================================================
