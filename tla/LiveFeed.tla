------------------------------ MODULE LiveFeed ------------------------------
(* The live list of the query-log page: hooks/useQueryLogWebSocket.ts in the  *)
(* browser, api/handlers/ws.rs behind it, and the broadcast channel in        *)
(* between, which keeps the last events only.  Events are numbered as the     *)
(* server sends them.  The production build: no double effects of StrictMode. *)
EXTENDS Naturals, SequencesExt

CONSTANTS Capacity,    \* events the channel keeps (256, api/mod.rs)
          MaxEntries,  \* events the page keeps (100)
          MaxSent,     \* bound: events sent
          MaxMounts,   \* bound: times the page is opened
          MaxFaults    \* bound: failures, tickets that expire, requests delivered again

ASSUME FeedAssumption ==
    {Capacity, MaxEntries} \subseteq Nat \ {0} /\ {MaxSent, MaxMounts, MaxFaults} \subseteq Nat

VARIABLES page,     \* the hook of the page: lost when it is left
          conns,    \* attempts to connect, each with both ends of its socket
          tickets,  \* server: tickets not yet used, and those among them that are too old
          sent,     \* server: events broadcast
          mounts,   \* bound: times the page was opened
          faults,   \* bound: see MaxFaults
          used      \* history: per attempt, whether its ticket was fresh, each time it was let in

feedVars == <<page, conns, tickets, sent, mounts, faults, used>>

Attempts == 1..(MaxMounts + MaxFaults)
Unused == [of |-> 0, client |-> "unused", server |-> "none", start |-> 0, next |-> 0,
           wire |-> <<>>, missed |-> {}]
Away == [mounted |-> FALSE, status |-> "disconnected", timer |-> FALSE, ws |-> 0,
         entries |-> <<>>, cleared |-> 0]

FeedInit == /\ page = Away /\ conns = [k \in Attempts |-> Unused]
            /\ tickets = [open |-> {}, old |-> {}]
            /\ sent = 0 /\ mounts = 0 /\ faults = 0 /\ used = [k \in Attempts |-> <<>>]

Fault == faults < MaxFaults /\ faults' = faults + 1
Mine(k) == page.mounted /\ conns[k].of = mounts     \* mountedRef of the hook that asked
Goes(k, client) ==
    conns' = [conns EXCEPT ![k].client = client, ![k].wire = IF client = "closed" THEN <<>> ELSE @]
Browser == UNCHANGED <<tickets, sent, used>>
-----------------------------------------------------------------------------
(* connect, up to its await, by the hook of the mount-th page.  A page of     *)
(* the dashboard is only on show while there is a token, so that its check of *)
(* one (useQueryLogWebSocket.ts:53-54) never stops it.                        *)
Connect(p, mount) ==
    \E k \in Attempts :
        /\ conns[k] = Unused /\ \A j \in 1..(k - 1) : conns[j] # Unused
        /\ conns' = [conns EXCEPT ![k].of = mount, ![k].client = "asking"]
        /\ page' = [p EXCEPT !.status = "connecting"]

(* The effect and its cleanup.                                                *)
Mount == /\ ~page.mounted /\ mounts < MaxMounts /\ mounts' = mounts + 1
         /\ Connect([Away EXCEPT !.mounted = TRUE], mounts + 1)
         /\ Browser /\ UNCHANGED faults

FaultyLeave ==   \* fault: the cleanup leaves the socket to the browser
    /\ page.mounted /\ page' = Away
    /\ Browser /\ UNCHANGED <<conns, mounts, faults>>
LeaveFeed ==
    /\ page.mounted /\ page' = Away
    /\ IF page.ws = 0 THEN UNCHANGED conns ELSE Goes(page.ws, "closed")
    /\ Browser /\ UNCHANGED <<mounts, faults>>

(* issue_ticket; tickets that are too old are dropped on the occasion.        *)
IssueTicket(k) ==
    /\ conns[k].client = "asking" /\ Goes(k, "granted")
    /\ tickets' = [open |-> (tickets.open \ tickets.old) \union {k}, old |-> {}]
    /\ UNCHANGED <<page, sent, mounts, faults, used>>
TicketRefused(k) ==
    /\ conns[k].client = "asking" /\ Fault /\ Goes(k, "refused")
    /\ Browser /\ UNCHANGED <<page, mounts>>
Expire(k) ==
    /\ k \in tickets.open \ tickets.old /\ Fault
    /\ tickets' = [tickets EXCEPT !.old = @ \union {k}]
    /\ UNCHANGED <<page, conns, sent, mounts, used>>

(* connect after its await: no ticket is the end of it, without a timer.      *)
TicketAnswered(k) ==
    /\ conns[k].client \in {"granted", "refused"}
    /\ IF conns[k].client = "granted" /\ Mine(k)
       THEN Goes(k, "dialing") /\ page' = [page EXCEPT !.ws = k]
       ELSE Goes(k, "closed") /\ page' = IF Mine(k) THEN [page EXCEPT !.status = "error"] ELSE page
    /\ Browser /\ UNCHANGED <<mounts, faults>>
-----------------------------------------------------------------------------
FaultyConsume(k) ==   \* fault: a ticket is looked up, and removed when it is too old
    tickets' = [open |-> tickets.open \ (tickets.old \intersect {k}), old |-> tickets.old \ {k}]

(* The ticket is removed, whatever is found then, in one step.                *)
Consume(k) == tickets' = [open |-> tickets.open \ {k}, old |-> tickets.old \ {k}]
Valid(k) == k \in tickets.open \ tickets.old
Enters(k) ==
    /\ Consume(k)
    /\ used' = IF Valid(k) THEN [used EXCEPT ![k] = Append(@, k \notin tickets.old)] ELSE used

(* query_log_ws: the request of a socket, which may come in after the page    *)
(* that made it was left.                                                     *)
Handshake(k) ==
    /\ conns[k].client \in {"dialing", "closed"} /\ conns[k].server = "none"
    /\ Enters(k)
    /\ conns' = [conns EXCEPT ![k].server =
                    IF Valid(k) THEN "upgraded" ELSE "ended"]
    /\ UNCHANGED <<page, sent, mounts, faults>>
(* The same request once more.                                                *)
HandshakeAgain(k) ==
    /\ conns[k].server # "none" /\ Fault /\ Enters(k)
    /\ UNCHANGED <<page, conns, sent, mounts>>

(* onopen, and onclose of a socket the page did not close itself: events not  *)
(* delivered by then are gone.                                                *)
Opened(k) ==
    /\ conns[k].client = "dialing" /\ conns[k].server \in {"upgraded", "subscribed"}
    /\ Goes(k, IF Mine(k) THEN "open" ELSE "closed")
    /\ page' = IF Mine(k) THEN [page EXCEPT !.status = "connected"] ELSE page
    /\ Browser /\ UNCHANGED <<mounts, faults>>

FaultyClosed(k) ==   \* fault: no timer for a socket that never opened
    /\ conns[k].client \in {"dialing", "open"} /\ conns[k].server = "ended"
    /\ Goes(k, "closed")
    /\ page' = IF Mine(k) THEN [page EXCEPT !.status = "disconnected", !.ws = 0,
                                            !.timer = conns[k].client = "open"] ELSE page
    /\ Browser /\ UNCHANGED <<mounts, faults>>
Closed(k) ==
    /\ conns[k].client \in {"dialing", "open"} /\ conns[k].server = "ended"
    /\ Goes(k, "closed")
    /\ page' = IF Mine(k) THEN [page EXCEPT !.status = "disconnected", !.ws = 0, !.timer = TRUE]
                          ELSE page
    /\ Browser /\ UNCHANGED <<mounts, faults>>

(* The backoff timer, whatever its delay.                                     *)
Retry == /\ page.timer /\ Connect([page EXCEPT !.timer = FALSE], mounts)
         /\ Browser /\ UNCHANGED <<mounts, faults>>
-----------------------------------------------------------------------------
(* send of the channel (dns/handler.rs): a receiver as far behind as the      *)
(* channel is long loses the oldest event.                                    *)
Broadcast ==
    /\ sent < MaxSent /\ sent' = sent + 1
    /\ conns' = [k \in Attempts |->
           IF conns[k].server = "subscribed" /\ conns[k].next + Capacity <= sent + 1
           THEN [conns[k] EXCEPT !.missed = @ \union {sent + 1 - Capacity}] ELSE conns[k]]
    /\ UNCHANGED <<page, tickets, mounts, faults, used>>

(* handle_socket: events count from here on.                                  *)
Subscribe(k) ==
    /\ conns[k].server = "upgraded"
    /\ conns' = [conns EXCEPT ![k].server = "subscribed", ![k].start = sent + 1, ![k].next = sent + 1]
    /\ UNCHANGED <<page, tickets, sent, mounts, faults, used>>

FaultyLagged(k) ==   \* fault: the receiver is resubscribed
    /\ conns[k].server = "subscribed" /\ conns[k].next + Capacity <= sent
    /\ conns' = [conns EXCEPT ![k].next = sent + 1]
    /\ UNCHANGED <<page, tickets, sent, mounts, faults, used>>
Lagged(k) ==
    /\ conns[k].server = "subscribed" /\ conns[k].next + Capacity <= sent
    /\ conns' = [conns EXCEPT ![k].next = sent + 1 - Capacity]
    /\ UNCHANGED <<page, tickets, sent, mounts, faults, used>>

Received(k) ==
    /\ conns[k].server = "subscribed" /\ conns[k].client # "closed"
    /\ conns[k].next \in (sent + 1 - Capacity)..sent
    /\ conns' = [conns EXCEPT ![k].wire = Append(@, conns[k].next), ![k].next = @ + 1]
    /\ UNCHANGED <<page, tickets, sent, mounts, faults, used>>

(* The client is gone, which the loop notices when it reads or sends, or the  *)
(* network or the server is; a server that restarts knows no ticket of before.*)
Ends(k) ==
    /\ conns[k].server \in {"upgraded", "subscribed"}
    /\ conns' = [conns EXCEPT ![k].server = "ended"]
    /\ IF conns[k].client = "closed" THEN UNCHANGED faults ELSE Fault
    /\ UNCHANGED <<page, tickets, sent, mounts, used>>
Restart ==
    /\ Fault /\ tickets' = [open |-> {}, old |-> {}]
    /\ conns' = [k \in Attempts |-> IF conns[k].server \in {"upgraded", "subscribed"}
                                    THEN [conns[k] EXCEPT !.server = "ended"] ELSE conns[k]]
    /\ UNCHANGED <<page, sent, mounts, used>>
-----------------------------------------------------------------------------
FaultyShow(entries, e) ==   \* fault: the list is filled from the other end
    LET next == Append(entries, e)
    IN  IF Len(next) > MaxEntries THEN Tail(next) ELSE next
Show(entries, e) ==
    LET next == <<e>> \o entries
    IN  IF Len(next) > MaxEntries THEN SubSeq(next, 1, MaxEntries) ELSE next

(* onmessage.                                                                 *)
Message(k) ==
    /\ conns[k].client = "open" /\ conns[k].wire # <<>>
    /\ conns' = [conns EXCEPT ![k].wire = Tail(@)]
    /\ page' = IF Mine(k) THEN [page EXCEPT !.entries = Show(@, Head(conns[k].wire))] ELSE page
    /\ Browser /\ UNCHANGED <<mounts, faults>>

(* clearEntries; history: which is the last event that was cleared.           *)
Clear ==
    /\ page.mounted /\ page.entries # <<>>
    /\ page' = [page EXCEPT !.entries = <<>>, !.cleared = Head(page.entries)]
    /\ UNCHANGED conns /\ Browser /\ UNCHANGED <<mounts, faults>>

Progress(k) == IssueTicket(k) \/ TicketAnswered(k) \/ Handshake(k) \/ Opened(k) \/ Closed(k)
FeedNext == \/ Mount \/ LeaveFeed \/ Clear \/ Retry \/ Broadcast \/ Restart
            \/ \E k \in Attempts :
                  \/ Progress(k) \/ TicketRefused(k) \/ Expire(k) \/ HandshakeAgain(k)
                  \/ Subscribe(k) \/ Lagged(k) \/ Received(k) \/ Ends(k) \/ Message(k)

FeedSpec == FeedInit /\ [][FeedNext]_feedVars
(* Requests are answered, the browser reports what became of a socket, and    *)
(* timers fire.                                                               *)
FairFeed == FeedSpec /\ WF_feedVars(Retry) /\ \A k \in Attempts : WF_feedVars(Progress(k))
-----------------------------------------------------------------------------
(* A ticket lets in one socket at most, and none once it is too old           *)
(* (query_log_ws: "validate and consume the ticket atomically").              *)
TicketOnce == \A k \in Attempts : used[k] \in {<<>>, <<TRUE>>}

(* The browser has one socket at most, that of the page on show, and the      *)
(* status of the page is that of the socket; a page left has none.            *)
OneSocket == \A k \in Attempts :
    conns[k].client \in {"dialing", "open"}
    => /\ Mine(k) /\ page.ws = k /\ ~page.timer
       /\ page.status = IF conns[k].client = "open" THEN "connected" ELSE "connecting"

(* Across reconnections, lag and trimming the live list is the newest first,  *)
(* nothing twice, and no longer than it may be.                               *)
NewestFirst ==
    /\ Len(page.entries) <= MaxEntries
    /\ \A i \in 1..(Len(page.entries) - 1) : page.entries[i] > page.entries[i + 1]

(* Of the events since its socket subscribed, the page shows all but those    *)
(* under way, cleared, pushed out by newer ones, or gone from the channel     *)
(* before they were read (ws.rs: "skip missed events", and no others).        *)
NothingElseLost == \A k \in Attempts :
    conns[k].client = "open" =>
    \A e \in conns[k].start..(conns[k].next - 1) :
        \/ e \in ToSet(conns[k].wire) \union conns[k].missed \union ToSet(page.entries)
        \/ e <= page.cleared
        \/ Len(page.entries) = MaxEntries /\ e < Last(page.entries)

(* A page that lost its connection gets another or says "error" for good,     *)
(* which is what it does when no ticket is to be had.                         *)
ConnectsOrSays ==
    page.mounted /\ page.status \in {"connecting", "disconnected"}
    ~> ~page.mounted \/ page.status \in {"connected", "error"}
=============================================================================
