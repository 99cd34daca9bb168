---------------------------- MODULE PagesProofs -----------------------------
(* Theorems of LiveFeed and of PagedPages: the live list of the query-log     *)
(* page, and the paged lists of that page and of the rules page.              *)
EXTENDS LiveFeed, PagedPages, FiniteSetTheorems, SequenceTheorems, TLAPS

(* The live list, for every capacity, list length and number of faults:       *)
(* tickets are used once, the page has one socket at most, its list is the    *)
(* newest first, and nothing is lost on the way to it.                        *)
Clients == {"unused", "asking", "granted", "refused", "dialing", "open", "closed"}
Servers == {"none", "upgraded", "subscribed", "ended"}
Conn == [of : Nat, client : Clients, server : Servers, start : Nat, next : Nat, wire : Seq(Nat),
         missed : SUBSET Nat]
Page == [mounted : BOOLEAN, status : {"connecting", "connected", "disconnected", "error"},
         timer : BOOLEAN, ws : Nat, entries : Seq(Nat), cleared : Nat]

(* The types, and who has what: an attempt is made by a mount there was.      *)
FeedTyped ==
    /\ page \in Page /\ conns \in [Attempts -> Conn] /\ mounts \in Nat /\ sent \in Nat
    /\ tickets \in [open : SUBSET Attempts, old : SUBSET Attempts]
    /\ used \in [Attempts -> Seq(BOOLEAN)]

(* A ticket that is still there was never used, and one that was not yet      *)
(* given out is not there: without the latter it could be given out again.    *)
TicketInv ==
    \A k \in Attempts :
        /\ used[k] \in {<<>>, <<TRUE>>}
        /\ k \in tickets.open => used[k] = <<>>
        /\ conns[k].client \in {"unused", "asking"} => k \notin tickets.open /\ used[k] = <<>>

LEMMA GoesClient ==
  ASSUME FeedTyped, NEW k \in Attempts, NEW client \in Clients, Goes(k, client)
  PROVE  /\ conns' \in [Attempts -> Conn]
         /\ conns'[k].client = client /\ conns'[k].of = conns[k].of
         /\ conns'[k].server = conns[k].server
         /\ \A j \in Attempts \ {k} : conns'[j] = conns[j]
<1>1. conns[k] \in Conn BY DEF FeedTyped
<1>2. PICK w : w = IF client = "closed" THEN <<>> ELSE conns[k].wire OBVIOUS
<1>3. w \in Seq(Nat) BY <1>1, <1>2 DEF Conn
<1>4. conns' = [conns EXCEPT ![k] = [conns[k] EXCEPT !.client = client, !.wire = w]]
  BY <1>2 DEF Goes, FeedTyped
<1> QED BY <1>1, <1>3, <1>4 DEF FeedTyped, Conn

(* Steps that touch neither who made an attempt nor where its client is.      *)
Kept(k) == conns'[k].of = conns[k].of /\ conns'[k].client = conns[k].client
LEMMA ShowTyped ==
  ASSUME NEW s \in Seq(Nat), NEW e \in Nat
  PROVE  Show(s, e) \in Seq(Nat)
<1>1. PICK n : n = <<e>> \o s OBVIOUS
<1>2. n \in Seq(Nat) BY <1>1
<1>3. MaxEntries \in Nat BY FeedAssumption
<1>4. CASE Len(n) > MaxEntries
  <2>1. SubSeq(n, 1, MaxEntries) \in Seq(Nat) BY <1>2, <1>3, <1>4
  <2> QED BY <1>1, <1>4, <2>1 DEF Show
<1>5. CASE ~(Len(n) > MaxEntries) BY <1>1, <1>2, <1>5 DEF Show
<1> QED BY <1>4, <1>5

LEMMA ServerSteps ==
  ASSUME FeedTyped, NEW k \in Attempts,
         Handshake(k) \/ HandshakeAgain(k) \/ Subscribe(k) \/ Lagged(k) \/ Received(k) \/ Ends(k)
  PROVE  conns' \in [Attempts -> Conn] /\ \A j \in Attempts : Kept(j)
<1>1. conns[k] \in Conn /\ sent \in Nat /\ conns \in [Attempts -> Conn] BY DEF FeedTyped
<1>2. ASSUME NEW c \in Conn, conns' = [conns EXCEPT ![k] = c],
             c.of = conns[k].of, c.client = conns[k].client
      PROVE  conns' \in [Attempts -> Conn] /\ \A j \in Attempts : Kept(j)
  BY <1>1, <1>2 DEF Kept
<1>3. ASSUME NEW state \in Servers, conns' = [conns EXCEPT ![k].server = state]
      PROVE  conns' \in [Attempts -> Conn] /\ \A j \in Attempts : Kept(j)
  <2> DEFINE c == [conns[k] EXCEPT !.server = state]
  <2>1. c \in Conn /\ c.of = conns[k].of /\ c.client = conns[k].client BY <1>1 DEF Conn
  <2> QED BY <1>2, <1>3, <2>1
<1>4. CASE Handshake(k)
  BY <1>3, <1>4 DEF Handshake, Servers
<1>5. CASE HandshakeAgain(k) BY <1>1, <1>5 DEF HandshakeAgain, Kept
<1>6. CASE Subscribe(k)
  <2> DEFINE n == sent + 1
             c == [conns[k] EXCEPT !.server = "subscribed", !.start = n, !.next = n]
  <2>2. conns' = [conns EXCEPT ![k] = c] BY <1>1, <1>6 DEF Subscribe
  <2>3. n \in Nat BY <1>1
  <2> HIDE DEF n
  <2>1. c \in Conn /\ c.of = conns[k].of /\ c.client = conns[k].client
    BY <1>1, <2>3 DEF Conn, Servers
  <2> QED BY <1>2, <2>1, <2>2
<1>7. CASE Lagged(k)
  <2> DEFINE c == [conns[k] EXCEPT !.next = sent + 1 - Capacity]
  <2>1. sent + 1 - Capacity \in Nat BY <1>1, <1>7, FeedAssumption DEF Lagged, Conn
  <2>2. c \in Conn /\ c.of = conns[k].of /\ c.client = conns[k].client BY <1>1, <2>1 DEF Conn
  <2>3. conns' = [conns EXCEPT ![k] = c] BY <1>7 DEF Lagged
  <2> QED BY <1>2, <2>2, <2>3
<1>8. CASE Received(k)
  <2> DEFINE w == Append(conns[k].wire, conns[k].next)
             n == conns[k].next + 1
             c == [conns[k] EXCEPT !.wire = w, !.next = n]
  <2>1. w \in Seq(Nat) /\ n \in Nat BY <1>1 DEF Conn
  <2>2. conns' = [conns EXCEPT ![k] = c] BY <1>1, <1>8 DEF Received
  <2> HIDE DEF w, n
  <2>3. c \in Conn /\ c.of = conns[k].of /\ c.client = conns[k].client BY <1>1, <2>1 DEF Conn
  <2> QED BY <1>2, <2>2, <2>3
<1>9. CASE Ends(k) BY <1>3, <1>9 DEF Ends, Servers
<1> QED BY <1>4, <1>5, <1>6, <1>7, <1>8, <1>9

LEMMA ChannelSteps ==
  ASSUME FeedTyped, Broadcast \/ Restart
  PROVE  conns' \in [Attempts -> Conn] /\ \A j \in Attempts : Kept(j)
<1>1. sent \in Nat /\ conns \in [Attempts -> Conn] BY DEF FeedTyped
<1>2. ASSUME NEW k \in Attempts, Broadcast PROVE conns'[k] \in Conn /\ Kept(k)
  <2>1. conns[k] \in Conn BY <1>1
  <2>2. CASE conns[k].server = "subscribed" /\ conns[k].next + Capacity <= sent + 1
    <3>1. sent + 1 - Capacity \in Nat BY <1>1, <2>1, <2>2, FeedAssumption DEF Conn
    <3>2. PICK m : m = conns[k].missed \union {sent + 1 - Capacity} OBVIOUS
    <3>3. m \in SUBSET Nat BY <2>1, <3>1, <3>2 DEF Conn
    <3>4. conns'[k] = [conns[k] EXCEPT !.missed = m] BY <1>2, <2>2, <3>2 DEF Broadcast
    <3> QED BY <2>1, <3>3, <3>4 DEF Conn, Kept
  <2>3. CASE ~(conns[k].server = "subscribed" /\ conns[k].next + Capacity <= sent + 1)
    BY <1>2, <2>1, <2>3 DEF Broadcast, Kept
  <2> QED BY <2>2, <2>3
<1>3. ASSUME NEW k \in Attempts, Restart PROVE conns'[k] \in Conn /\ Kept(k)
  <2>1. conns[k] \in Conn BY <1>1
  <2>2. conns'[k] = conns[k] \/ conns'[k] = [conns[k] EXCEPT !.server = "ended"]
    BY <1>3 DEF Restart
  <2> QED BY <2>1, <2>2 DEF Conn, Servers, Kept
<1>4. conns' = [k \in Attempts |-> conns'[k]] BY DEF Broadcast, Restart
<1> QED BY <1>2, <1>3, <1>4

(* Connect takes an attempt that was never used, in the name of its mount.    *)
LEMMA ConnectStep ==
  ASSUME FeedTyped, NEW p \in Page, NEW mount \in Nat, Connect(p, mount)
  PROVE  /\ page' \in Page /\ page' = [p EXCEPT !.status = "connecting"]
         /\ conns' \in [Attempts -> Conn]
         /\ \E k \in Attempts :
               /\ conns[k].client = "unused"
               /\ conns'[k].client = "asking" /\ conns'[k].of = mount
               /\ \A j \in Attempts \ {k} : conns'[j] = conns[j]
<1>1. PICK k \in Attempts : conns[k] = Unused
                            /\ conns' = [conns EXCEPT ![k].of = mount, ![k].client = "asking"]
  BY DEF Connect
<1>2. page' = [p EXCEPT !.status = "connecting"] /\ page' \in Page BY DEF Connect, Page
<1>3. conns \in [Attempts -> Conn] /\ conns[k] \in Conn BY DEF FeedTyped
<1>4. conns[k].client = "unused" BY <1>1 DEF Unused
<1>5. conns' = [[conns EXCEPT ![k].of = mount] EXCEPT ![k].client = "asking"] BY <1>1
<1>6. PICK c : c = [conns[k] EXCEPT !.of = mount, !.client = "asking"] OBVIOUS
<1>7. c \in Conn /\ c.client = "asking" /\ c.of = mount BY <1>3, <1>6 DEF Conn, Clients
<1>8. \A j \in Attempts \ {k} : conns'[j] = conns[j] BY <1>3, <1>5
<1>9. conns'[k] = c BY <1>3, <1>5, <1>6
<1>10. conns' \in [Attempts -> Conn] BY <1>3, <1>5, <1>7, <1>8, <1>9
<1> QED BY <1>2, <1>4, <1>7, <1>8, <1>9, <1>10
-----------------------------------------------------------------------------
(* What OneSocket rests on: of the attempts of the mounted page one at most   *)
(* is under way, the timer runs only when none is, and the reference to the   *)
(* socket is that of the attempt that got one.  An attempt under way that was *)
(* made by a page since left may still get a ticket, never a socket.          *)
Asking == {"asking", "granted", "refused"}
Socket == {"dialing", "open"}
SocketInv ==
    /\ page.timer => page.mounted /\ \A k \in Attempts : Mine(k) => conns[k].client \notin Asking \union Socket
    /\ page.ws # 0 => page.ws \in Attempts /\ conns[page.ws].client \in Socket
    /\ \A k \in Attempts :
         /\ conns[k].client # "unused" => conns[k].of <= mounts
         /\ conns[k].client \in Socket
              => /\ Mine(k) /\ page.ws = k
                 /\ page.status = IF conns[k].client = "open" THEN "connected" ELSE "connecting"
         /\ Mine(k) /\ conns[k].client \in Asking => page.ws = 0 /\ page.status = "connecting"
    /\ \A j, k \in Attempts :
         Mine(j) /\ Mine(k) /\ {conns[j].client, conns[k].client} \subseteq Asking \union Socket => j = k

FeedInv == FeedTyped /\ TicketInv /\ SocketInv

LEMMA SocketKept ==
  ASSUME SocketInv, \A k \in Attempts : Kept(k), UNCHANGED mounts,
         page'.mounted = page.mounted, page'.ws = page.ws, page'.status = page.status,
         page'.timer = page.timer
  PROVE  SocketInv'
BY DEF SocketInv, Kept, Mine, Asking, Socket

LEMMA TicketKept ==
  ASSUME TicketInv, \A k \in Attempts : Kept(k), UNCHANGED <<tickets, used>>
  PROVE  TicketInv'
BY DEF TicketInv, Kept

(* A ticket lets in a socket only when it is there, and then it is used.      *)
LEMMA EntersStep ==
  ASSUME FeedTyped, TicketInv, NEW k \in Attempts, Enters(k), \A j \in Attempts : Kept(j)
  PROVE  /\ TicketInv' /\ used' \in [Attempts -> Seq(BOOLEAN)]
         /\ tickets' \in [open : SUBSET Attempts, old : SUBSET Attempts]
<1>1. tickets'.open = tickets.open \ {k} /\ tickets' \in [open : SUBSET Attempts, old : SUBSET Attempts]
  BY DEF FeedTyped, Enters, Consume
<1>2. CASE Valid(k)
  <2>1. used[k] = <<>> /\ k \notin tickets.old BY <1>2 DEF Valid, TicketInv
  <2>2. used' = [used EXCEPT ![k] = <<TRUE>>]
    <3>1. Append(<<>>, TRUE) = <<TRUE>> OBVIOUS
    <3>2. (k \notin tickets.old) = TRUE BY <2>1
    <3> QED BY <1>2, <2>1, <3>1, <3>2 DEF Enters
  <2>3. <<TRUE>> \in Seq(BOOLEAN) OBVIOUS
  <2>4. conns[k].client \notin {"unused", "asking"} BY <1>2 DEF Valid, TicketInv
  <2> QED BY <1>1, <2>2, <2>3, <2>4 DEF FeedTyped, TicketInv, Kept
<1>3. CASE ~Valid(k)
  <2>1. used' = used BY <1>3 DEF Enters
  <2> QED BY <1>1, <2>1 DEF FeedTyped, TicketInv, Kept
<1> QED BY <1>2, <1>3

(* The steps of the server and the channel leave the page alone.              *)
LEMMA ServerInv ==
  ASSUME FeedInv, NEW k \in Attempts,
         Handshake(k) \/ HandshakeAgain(k) \/ Subscribe(k) \/ Lagged(k) \/ Received(k) \/ Ends(k)
  PROVE  FeedInv'
<1>1. conns' \in [Attempts -> Conn] /\ \A j \in Attempts : Kept(j) BY ServerSteps DEF FeedInv
<1>2. UNCHANGED <<page, sent, mounts>>
  BY DEF Handshake, HandshakeAgain, Subscribe, Lagged, Received, Ends
<1>3. SocketInv' BY <1>1, <1>2, SocketKept DEF FeedInv
<1>4. CASE Enters(k) BY <1>1, <1>2, <1>3, <1>4, EntersStep DEF FeedInv, FeedTyped
<1>5. CASE UNCHANGED <<tickets, used>>
  BY <1>1, <1>2, <1>3, <1>5, TicketKept DEF FeedInv, FeedTyped
<1> QED BY <1>4, <1>5 DEF Handshake, HandshakeAgain, Subscribe, Lagged, Received, Ends

LEMMA ChannelInv ==
  ASSUME FeedInv, Broadcast \/ Restart
  PROVE  FeedInv'
<1>1. conns' \in [Attempts -> Conn] /\ \A j \in Attempts : Kept(j) BY ChannelSteps DEF FeedInv
<1>2. UNCHANGED <<page, mounts, used>> BY DEF Broadcast, Restart
<1>3. SocketInv' BY <1>1, <1>2, SocketKept DEF FeedInv
<1>4. CASE Broadcast
  <2>1. sent' \in Nat /\ UNCHANGED <<tickets, used>> BY <1>4 DEF Broadcast, FeedInv, FeedTyped
  <2> QED BY <1>1, <1>2, <1>3, <2>1, TicketKept DEF FeedInv, FeedTyped
<1>5. CASE Restart
  <2>1. sent' = sent /\ tickets' = [open |-> {}, old |-> {}] BY <1>5 DEF Restart
  <2>2. TicketInv' BY <1>1, <1>2, <2>1 DEF FeedInv, TicketInv, Kept
  <2> QED BY <1>1, <1>2, <1>3, <2>1, <2>2 DEF FeedInv, FeedTyped
<1> QED BY <1>4, <1>5

(* The steps of a ticket, before there is a socket.                           *)
LEMMA AskingInv ==
  ASSUME FeedInv, NEW k \in Attempts, IssueTicket(k) \/ TicketRefused(k)
  PROVE  FeedInv'
<1>1. PICK client \in {"granted", "refused"} : Goes(k, client)
  BY DEF IssueTicket, TicketRefused
<1>2. /\ conns' \in [Attempts -> Conn]
      /\ conns'[k].client = client /\ conns'[k].of = conns[k].of
      /\ \A j \in Attempts \ {k} : conns'[j] = conns[j]
  BY <1>1, GoesClient DEF FeedInv, Clients
<1>3. UNCHANGED <<page, sent, mounts, used>> /\ conns[k].client = "asking"
  BY DEF IssueTicket, TicketRefused, Browser
<1>4. SocketInv' BY <1>2, <1>3 DEF FeedInv, SocketInv, Mine, Asking, Socket
<1>5. /\ tickets' \in [open : SUBSET Attempts, old : SUBSET Attempts]
      /\ tickets'.open \subseteq tickets.open \union {k}
  BY DEF IssueTicket, TicketRefused, Browser, FeedInv, FeedTyped
<1>6. TicketInv' BY <1>2, <1>3, <1>5 DEF FeedInv, TicketInv
<1> QED BY <1>2, <1>3, <1>4, <1>5, <1>6 DEF FeedInv, FeedTyped

LEMMA ExpireInv ==
  ASSUME FeedInv, NEW k \in Attempts, Expire(k)
  PROVE  FeedInv'
<1>1. UNCHANGED <<page, conns, sent, mounts, used>> BY DEF Expire
<1>2. /\ tickets' \in [open : SUBSET Attempts, old : SUBSET Attempts]
      /\ tickets'.open = tickets.open
  BY DEF Expire, FeedInv, FeedTyped
<1>3. SocketInv' BY <1>1, SocketKept DEF FeedInv, Kept
<1>4. TicketInv' BY <1>1, <1>2 DEF FeedInv, TicketInv
<1> QED BY <1>1, <1>2, <1>3, <1>4 DEF FeedInv, FeedTyped

(* A client that goes on from asking leaves the tickets to the server.        *)
LEMMA TicketGoes ==
  ASSUME TicketInv, NEW k \in Attempts, Browser,
         conns'[k].client \notin {"unused", "asking"},
         \A j \in Attempts \ {k} : conns'[j] = conns[j]
  PROVE  TicketInv'
BY DEF TicketInv, Browser

LEMMA SocketStepsInv ==
  ASSUME FeedInv, NEW k \in Attempts, TicketAnswered(k) \/ Opened(k) \/ Closed(k)
  PROVE  FeedInv'
<1>1. PICK client \in {"dialing", "open", "closed"} : Goes(k, client)
  BY DEF TicketAnswered, Opened, Closed
<1>2. /\ conns' \in [Attempts -> Conn]
      /\ conns'[k].client = client /\ conns'[k].of = conns[k].of
      /\ \A j \in Attempts \ {k} : conns'[j] = conns[j]
  BY <1>1, GoesClient DEF FeedInv, Clients
<1>3. Browser /\ UNCHANGED mounts BY DEF TicketAnswered, Opened, Closed
<1>4. TicketInv' BY <1>2, <1>3, TicketGoes DEF FeedInv
<1>5. page \in Page BY DEF FeedInv, FeedTyped
<1>6. CASE TicketAnswered(k)
  <2>1. CASE conns[k].client = "granted" /\ Mine(k)
    <3>1. Goes(k, "dialing") /\ page' = [page EXCEPT !.ws = k] BY <1>6, <2>1 DEF TicketAnswered
    <3>2. conns'[k].client = "dialing" BY <3>1, GoesClient DEF FeedInv, Clients
    <3>3. k \in Nat BY FeedAssumption DEF Attempts
    <3>4. /\ page' \in Page /\ page'.ws = k /\ page'.mounted = page.mounted
          /\ page'.timer = page.timer /\ page'.status = page.status
      BY <1>5, <3>1, <3>3 DEF Page
    <3>5. SocketInv' BY <1>2, <1>3, <2>1, <3>2, <3>4 DEF FeedInv, SocketInv, Mine, Asking, Socket
    <3> QED BY <1>2, <1>3, <1>4, <3>4, <3>5 DEF FeedInv, FeedTyped, Browser
  <2>2. CASE ~(conns[k].client = "granted" /\ Mine(k))
    <3>1. /\ Goes(k, "closed") /\ conns[k].client \in Asking
          /\ page' = IF Mine(k) THEN [page EXCEPT !.status = "error"] ELSE page
      BY <1>6, <2>2 DEF TicketAnswered, Asking
    <3>2. conns'[k].client = "closed" BY <3>1, GoesClient DEF FeedInv, Clients
    <3>3. /\ page' \in Page /\ page'.ws = page.ws /\ page'.mounted = page.mounted
          /\ page'.timer = page.timer /\ (~Mine(k) => page'.status = page.status)
      BY <1>5, <3>1 DEF Page
    <3>4. SocketInv' BY <1>2, <1>3, <3>1, <3>2, <3>3 DEF FeedInv, SocketInv, Mine, Asking, Socket
    <3> QED BY <1>2, <1>3, <1>4, <3>3, <3>4 DEF FeedInv, FeedTyped, Browser
  <2> QED BY <2>1, <2>2
<1>7. CASE Opened(k)
  <2>1. conns[k].client = "dialing" /\ Mine(k) BY <1>7 DEF Opened, FeedInv, SocketInv, Socket
  <2>2. Goes(k, "open") /\ page' = [page EXCEPT !.status = "connected"] BY <1>7, <2>1 DEF Opened
  <2>3. conns'[k].client = "open" BY <2>2, GoesClient DEF FeedInv, Clients
  <2>4. /\ page' \in Page /\ page'.ws = page.ws /\ page'.mounted = page.mounted
        /\ page'.timer = page.timer /\ page'.status = "connected"
    BY <1>5, <2>2 DEF Page
  <2>5. SocketInv' BY <1>2, <1>3, <2>1, <2>3, <2>4 DEF FeedInv, SocketInv, Mine, Asking, Socket
  <2> QED BY <1>2, <1>3, <1>4, <2>4, <2>5 DEF FeedInv, FeedTyped, Browser
<1>8. CASE Closed(k)
  <2>1. conns[k].client \in Socket /\ Mine(k) BY <1>8 DEF Closed, FeedInv, SocketInv, Socket
  <2>2. /\ Goes(k, "closed")
        /\ page' = [page EXCEPT !.status = "disconnected", !.ws = 0, !.timer = TRUE]
    BY <1>8, <2>1 DEF Closed
  <2>3. conns'[k].client = "closed" BY <2>2, GoesClient DEF FeedInv, Clients
  <2>4. /\ page' \in Page /\ page'.ws = 0 /\ page'.mounted = page.mounted
        /\ page'.timer = TRUE /\ page'.status = "disconnected"
    BY <1>5, <2>2 DEF Page
  <2>5. SocketInv' BY <1>2, <1>3, <2>1, <2>3, <2>4 DEF FeedInv, SocketInv, Mine, Asking, Socket
  <2> QED BY <1>2, <1>3, <1>4, <2>4, <2>5 DEF FeedInv, FeedTyped, Browser
<1> QED BY <1>6, <1>7, <1>8

(* The page is opened and left, and tries again.                              *)
LEMMA LeaveFeedInv == ASSUME FeedInv, LeaveFeed PROVE FeedInv'
<1>1. page' = Away /\ Away \in Page /\ UNCHANGED mounts /\ Browser
  BY DEF LeaveFeed, Away, Page
<1>2. page'.mounted = FALSE /\ page'.ws = 0 /\ page'.timer = FALSE BY <1>1 DEF Away
<1>3. CASE page.ws = 0
  <2>1. UNCHANGED conns BY <1>3 DEF LeaveFeed
  <2>2. \A k \in Attempts : conns[k].client \notin Socket
    <3>1. ASSUME NEW k \in Attempts, conns[k].client \in Socket PROVE FALSE
      <4>1. page.ws = k BY <3>1 DEF FeedInv, SocketInv
      <4> QED BY <1>3, <4>1 DEF Attempts
    <3> QED BY <3>1
  <2>3. SocketInv' BY <1>1, <1>2, <2>1, <2>2 DEF FeedInv, SocketInv, Mine
  <2>4. TicketInv' BY <1>1, <2>1, TicketKept DEF FeedInv, Kept, Browser
  <2> QED BY <1>1, <2>1, <2>3, <2>4 DEF FeedInv, FeedTyped, Browser
<1>4. CASE page.ws # 0
  <2> DEFINE k == page.ws
  <2>1. k \in Attempts /\ conns[k].client \in Socket BY <1>4 DEF FeedInv, SocketInv
  <2>2. Goes(k, "closed") BY <1>4 DEF LeaveFeed
  <2>3. /\ conns' \in [Attempts -> Conn]
        /\ conns'[k].client = "closed" /\ conns'[k].of = conns[k].of
        /\ \A j \in Attempts \ {k} : conns'[j] = conns[j]
    BY <2>1, <2>2, GoesClient DEF FeedInv, Clients
  <2>4. \A j \in Attempts : conns'[j].client \notin Socket
    BY <2>3 DEF FeedInv, SocketInv, Socket
  <2>5. SocketInv' BY <1>1, <1>2, <2>1, <2>3, <2>4 DEF FeedInv, SocketInv, Mine, Socket
  <2>6. TicketInv' BY <1>1, <2>1, <2>3 DEF FeedInv, TicketInv, Browser
  <2> QED BY <1>1, <2>3, <2>5, <2>6 DEF FeedInv, FeedTyped, Browser
<1> QED BY <1>3, <1>4

LEMMA MountInv == ASSUME FeedInv, Mount PROVE FeedInv'
<1> DEFINE p == [Away EXCEPT !.mounted = TRUE]
<1>0. <<>> \in Seq(Nat) OBVIOUS
<1>1. /\ p \in Page /\ p.mounted = TRUE /\ p.ws = 0 /\ p.timer = FALSE
  BY <1>0 DEF Away, Page
<1>2. mounts \in Nat /\ mounts' = mounts + 1 /\ ~page.mounted /\ Browser
      /\ Connect(p, mounts + 1)
  BY DEF Mount, FeedInv, FeedTyped
<1> HIDE DEF p
<1>3. /\ page' \in Page /\ page' = [p EXCEPT !.status = "connecting"]
      /\ conns' \in [Attempts -> Conn]
      /\ \E k \in Attempts :
            /\ conns[k].client = "unused"
            /\ conns'[k].client = "asking" /\ conns'[k].of = mounts + 1
            /\ \A j \in Attempts \ {k} : conns'[j] = conns[j]
  BY <1>1, <1>2, ConnectStep DEF FeedInv
<1>4. PICK k \in Attempts :
            /\ conns[k].client = "unused"
            /\ conns'[k].client = "asking" /\ conns'[k].of = mounts'
            /\ \A j \in Attempts \ {k} : conns'[j] = conns[j]
  BY <1>2, <1>3
<1>5. page'.mounted = TRUE /\ page'.ws = 0 /\ page'.timer = FALSE /\ page'.status = "connecting"
  BY <1>1, <1>3 DEF Page
<1>6. ASSUME NEW j \in Attempts, j # k
      PROVE  /\ conns'[j] = conns[j] /\ conns[j].client \notin Socket
             /\ conns[j].client # "unused" => conns[j].of # mounts' /\ conns[j].of <= mounts'
  <2>1. conns'[j] = conns[j] /\ conns[j] \in Conn BY <1>4, <1>6 DEF FeedInv, FeedTyped
  <2>2. conns[j].client \notin Socket BY <1>2 DEF FeedInv, SocketInv, Mine
  <2>3. conns[j].client # "unused" => conns[j].of <= mounts BY DEF FeedInv, SocketInv
  <2> QED BY <1>2, <2>1, <2>2, <2>3 DEF Conn
<1>7. SocketInv'
  BY <1>2, <1>4, <1>5, <1>6 DEF SocketInv, Mine, Asking, Socket
<1>8. TicketInv' BY <1>2, <1>4 DEF FeedInv, TicketInv, Browser
<1> QED BY <1>2, <1>3, <1>7, <1>8 DEF FeedInv, FeedTyped, Browser

LEMMA RetryInv == ASSUME FeedInv, Retry PROVE FeedInv'
<1> DEFINE p == [page EXCEPT !.timer = FALSE]
<1>1. page \in Page /\ page.timer = TRUE /\ page.mounted = TRUE /\ mounts \in Nat
  BY DEF Retry, FeedInv, FeedTyped, SocketInv, Page
<1>2. p \in Page /\ p.mounted = TRUE /\ p.ws = page.ws /\ p.timer = FALSE
  BY <1>1 DEF Page
<1>3. Connect(p, mounts) /\ Browser /\ UNCHANGED mounts BY DEF Retry
<1> HIDE DEF p
<1>4. /\ page' \in Page /\ page' = [p EXCEPT !.status = "connecting"]
      /\ conns' \in [Attempts -> Conn]
      /\ \E k \in Attempts :
            /\ conns[k].client = "unused"
            /\ conns'[k].client = "asking" /\ conns'[k].of = mounts
            /\ \A j \in Attempts \ {k} : conns'[j] = conns[j]
  BY <1>1, <1>2, <1>3, ConnectStep DEF FeedInv
<1>5. PICK k \in Attempts :
            /\ conns[k].client = "unused"
            /\ conns'[k].client = "asking" /\ conns'[k].of = mounts
            /\ \A j \in Attempts \ {k} : conns'[j] = conns[j]
  BY <1>4
<1>6. \A j \in Attempts : Mine(j) => conns[j].client \notin Asking \union Socket
  BY <1>1 DEF FeedInv, SocketInv
<1>7. \A j \in Attempts : conns[j].client \notin Socket
  BY <1>6 DEF FeedInv, SocketInv
<1>8. page.ws = 0 BY <1>7 DEF FeedInv, SocketInv
<1>9. page'.mounted = TRUE /\ page'.ws = 0 /\ page'.timer = FALSE /\ page'.status = "connecting"
  BY <1>2, <1>4, <1>8 DEF Page
<1>10. SocketInv'
  BY <1>1, <1>3, <1>5, <1>6, <1>7, <1>9 DEF FeedInv, SocketInv, Mine, Asking, Socket
<1>11. TicketInv' BY <1>3, <1>5 DEF FeedInv, TicketInv, Browser
<1> QED BY <1>3, <1>4, <1>10, <1>11 DEF FeedInv, FeedTyped, Browser

LEMMA ListInv == ASSUME FeedInv, Clear \/ \E k \in Attempts : Message(k) PROVE FeedInv'
<1>1. page \in Page /\ conns \in [Attempts -> Conn] BY DEF FeedInv, FeedTyped
<1>2. CASE Clear
  <2>1. page.entries # <<>> /\ UNCHANGED <<conns, mounts>> /\ Browser BY <1>2 DEF Clear
  <2>2. Head(page.entries) \in Nat BY <1>1, <2>1 DEF Page
  <2>3. page' = [page EXCEPT !.entries = <<>>, !.cleared = Head(page.entries)]
    BY <1>2 DEF Clear
  <2>4. PICK h \in Nat : page' = [page EXCEPT !.entries = <<>>, !.cleared = h] BY <2>2, <2>3
  <2>5. <<>> \in Seq(Nat) OBVIOUS
  <2>6. /\ page' \in Page /\ page'.mounted = page.mounted /\ page'.ws = page.ws
        /\ page'.status = page.status /\ page'.timer = page.timer
    BY <1>1, <2>4, <2>5 DEF Page
  <2>7. \A j \in Attempts : Kept(j) BY <2>1 DEF Kept
  <2> QED BY <2>1, <2>6, <2>7, SocketKept, TicketKept DEF FeedInv, FeedTyped, Browser
<1>3. ASSUME NEW k \in Attempts, Message(k) PROVE FeedInv'
  <2>1. conns[k] \in Conn /\ conns[k].wire # <<>> /\ UNCHANGED mounts /\ Browser
    BY <1>1, <1>3 DEF Message
  <2>2. Tail(conns[k].wire) \in Seq(Nat) /\ Head(conns[k].wire) \in Nat BY <2>1 DEF Conn
  <2>3. PICK w \in Seq(Nat) : w = Tail(conns[k].wire) BY <2>2
  <2>4. conns' = [conns EXCEPT ![k] = [conns[k] EXCEPT !.wire = w]] BY <1>3, <2>3 DEF Message
  <2>5. /\ conns' \in [Attempts -> Conn] /\ \A j \in Attempts : Kept(j)
    BY <1>1, <2>1, <2>3, <2>4 DEF Conn, Kept
  <2>6. PICK s \in Seq(Nat) : s = Show(page.entries, Head(conns[k].wire))
    BY <1>1, <2>2, ShowTyped DEF Page
  <2>7. page' = page \/ page' = [page EXCEPT !.entries = s] BY <1>3, <2>6 DEF Message
  <2>8. /\ page' \in Page /\ page'.mounted = page.mounted /\ page'.ws = page.ws
        /\ page'.status = page.status /\ page'.timer = page.timer
    BY <1>1, <2>6, <2>7 DEF Page
  <2> QED BY <2>1, <2>5, <2>8, SocketKept, TicketKept DEF FeedInv, FeedTyped, Browser
<1> QED BY <1>2, <1>3

LEMMA FeedInvInit == FeedInit => FeedInv
<1> SUFFICES ASSUME FeedInit PROVE FeedInv OBVIOUS
<1>1. Away \in Page /\ Unused \in Conn
  <2>1. <<>> \in Seq(Nat) OBVIOUS
  <2> QED BY <2>1 DEF Away, Page, Unused, Conn, Clients, Servers
<1>2. FeedTyped BY <1>1 DEF FeedInit, FeedTyped
<1>3. TicketInv BY DEF FeedInit, TicketInv
<1>4. SocketInv
  BY DEF FeedInit, SocketInv, Away, Unused, Asking, Socket, Mine
<1> QED BY <1>2, <1>3, <1>4 DEF FeedInv

LEMMA FeedInvStep == FeedInv /\ [FeedNext]_feedVars => FeedInv'
<1> SUFFICES ASSUME FeedInv, [FeedNext]_feedVars PROVE FeedInv' OBVIOUS
<1>1. CASE UNCHANGED feedVars
  BY <1>1, SocketKept, TicketKept DEF feedVars, FeedInv, FeedTyped, Kept
<1>2. CASE FeedNext
  BY <1>2, MountInv, LeaveFeedInv, RetryInv, ListInv, ChannelInv, AskingInv, ExpireInv,
     SocketStepsInv, ServerInv DEF FeedNext, Progress
<1> QED BY <1>1, <1>2

THEOREM FeedInvariance == FeedSpec => []FeedInv
BY FeedInvInit, FeedInvStep, PTL DEF FeedSpec

(* Page, attempts, tickets and events keep their types.                       *)
THEOREM FeedTyping == FeedSpec => []FeedTyped
BY FeedInvariance, PTL DEF FeedInv

(* A ticket of issue_ticket lets in one socket at most, and none that is too  *)
(* old, whatever expires, is delivered again or restarts (ws.rs:52).          *)
THEOREM TicketUsedOnce == FeedSpec => []TicketOnce
<1>1. FeedInv => TicketOnce BY DEF FeedInv, TicketInv, TicketOnce
<1> QED BY <1>1, FeedInvariance, PTL

(* The page has one socket at most, its own, however often it is left and     *)
(* opened again while a ticket is fetched (useQueryLogWebSocket.ts).          *)
THEOREM OneSocketOnly == FeedSpec => []OneSocket
<1>1. FeedInv => OneSocket
  BY DEF FeedInv, FeedTyped, Page, SocketInv, OneSocket, Socket, Asking
<1> QED BY <1>1, FeedInvariance, PTL
-----------------------------------------------------------------------------
(* What the order and the completeness of the list rest on.  Events are       *)
(* numbered as they are sent, so a list is in order when whatever is still to *)
(* come is above what was shown: Below(p, e) says that e is.                  *)
Below(p, e) == p.cleared < e /\ \A i \in 1..Len(p.entries) : p.entries[i] < e
Ordered(p, last) ==
    /\ p.cleared <= last /\ Len(p.entries) <= MaxEntries
    /\ \A i \in 1..Len(p.entries) : p.cleared < p.entries[i] /\ p.entries[i] <= last
    /\ \A i, j \in 1..Len(p.entries) : i < j => p.entries[i] > p.entries[j]

(* An attempt has nothing to read before its socket subscribed.               *)
Quiet(c) ==
    /\ c.client \in Asking \union {"unused"} => c.server = "none"
    /\ c.server \in {"none", "upgraded"} => c.wire = <<>> /\ c.start = 0 /\ c.next = 0

(* What is on the wire is in order and above the list; so is what comes next. *)
Ahead(c, p, last) ==
    /\ c.next <= last + 1
    /\ \A i \in 1..Len(c.wire) : c.wire[i] < c.next /\ Below(p, c.wire[i])
    /\ \A i, j \in 1..Len(c.wire) : i < j => c.wire[i] < c.wire[j]
    /\ c.server = "subscribed" => Below(p, c.next)

(* Every event read since the subscription is accounted for, and those the    *)
(* channel no longer has are already counted among the missed.                *)
On(s, e) == \E i \in 1..Len(s) : s[i] = e
Accounted(c, p, e) ==
    \/ On(c.wire, e) \/ e \in c.missed \/ On(p.entries, e)
    \/ e <= p.cleared
    \/ Len(p.entries) = MaxEntries /\ e < p.entries[MaxEntries]
Covered(c, p, last) ==
    /\ \A e \in c.start..(c.next - 1) : Accounted(c, p, e)
    /\ c.server = "subscribed" => \A e \in c.next..(last - Capacity) : e \in c.missed

Streams(c, p, last) ==
    Quiet(c) /\ (c.client \in Socket => Ahead(c, p, last) /\ Covered(c, p, last))
ListInOrder ==
    /\ Ordered(page, sent)
    /\ \A k \in Attempts : Streams(conns[k], page, sent)

(* What Show makes of a list that is not too long.                            *)
LEMMA ShowProperties ==
  ASSUME NEW s \in Seq(Nat), NEW e \in Nat, Len(s) <= MaxEntries
  PROVE  /\ Show(s, e) \in Seq(Nat)
         /\ Len(Show(s, e)) = IF Len(s) < MaxEntries THEN Len(s) + 1 ELSE MaxEntries
         /\ Show(s, e)[1] = e
         /\ \A i \in 2..Len(Show(s, e)) : Show(s, e)[i] = s[i - 1]
<1>1. PICK n : n = <<e>> \o s OBVIOUS
<1>2. /\ n \in Seq(Nat) /\ Len(n) = Len(s) + 1 /\ n[1] = e
      /\ \A i \in 2..Len(n) : n[i] = s[i - 1]
  BY <1>1
<1>3. MaxEntries \in Nat \ {0} BY FeedAssumption
<1>4. CASE Len(n) > MaxEntries
  <2>1. Show(s, e) = SubSeq(n, 1, MaxEntries) BY <1>1, <1>4 DEF Show
  <2>2. /\ SubSeq(n, 1, MaxEntries) \in Seq(Nat) /\ Len(SubSeq(n, 1, MaxEntries)) = MaxEntries
        /\ \A i \in 1..MaxEntries : SubSeq(n, 1, MaxEntries)[i] = n[i]
    BY <1>2, <1>3, <1>4
  <2>3. Len(s) = MaxEntries BY <1>2, <1>3, <1>4
  <2> QED BY <1>2, <1>3, <2>1, <2>2, <2>3
<1>5. CASE ~(Len(n) > MaxEntries)
  <2>1. Show(s, e) = n BY <1>1, <1>5 DEF Show
  <2> QED BY <1>2, <1>3, <1>5, <2>1
<1> QED BY <1>4, <1>5

(* onmessage keeps the order and accounts for the event and the one it drops. *)
LEMMA ShownInOrder ==
  ASSUME NEW c \in Conn, NEW d \in Conn, NEW p \in Page, NEW q \in Page, NEW n \in Nat,
         Ordered(p, n), Ahead(c, p, n), Covered(c, p, n), c.wire # <<>>,
         d.wire = Tail(c.wire), d.start = c.start, d.next = c.next, d.missed = c.missed,
         d.server = c.server,
         q.cleared = p.cleared, q.entries = Show(p.entries, Head(c.wire))
  PROVE  Ordered(q, n) /\ Ahead(d, q, n) /\ Covered(d, q, n)
<1> DEFINE h == c.wire[1]
           s == p.entries
           t == q.entries
           w == d.wire
<1>1. /\ c.wire \in Seq(Nat) /\ s \in Seq(Nat) /\ c.next \in Nat /\ p.cleared \in Nat
      /\ c.start \in Nat
  BY DEF Conn, Page
<1>2. /\ h \in Nat /\ 1 \in 1..Len(c.wire) /\ Head(c.wire) = h
      /\ w \in Seq(Nat) /\ Len(w) = Len(c.wire) - 1
      /\ \A i \in 1..Len(w) : w[i] = c.wire[i + 1] /\ i + 1 \in 1..Len(c.wire)
  BY <1>1
<1>3. h < c.next /\ Below(p, h) /\ c.next <= n + 1 BY <1>2 DEF Ahead
<1>4. MaxEntries \in Nat \ {0} BY FeedAssumption
<1>5. Len(s) <= MaxEntries BY DEF Ordered
<1>6. /\ t \in Seq(Nat) /\ Len(t) = IF Len(s) < MaxEntries THEN Len(s) + 1 ELSE MaxEntries
      /\ t[1] = h /\ \A i \in 2..Len(t) : t[i] = s[i - 1]
  <2>1. t = Show(s, h) BY <1>2
  <2> HIDE DEF s, t, h
  <2> QED BY <1>1, <1>2, <1>5, <2>1, ShowProperties
<1>7. Len(t) \in 1..MaxEntries /\ Len(t) - 1 <= Len(s) /\ Len(s) \in Nat BY <1>1, <1>4, <1>5, <1>6
<1> HIDE DEF s, t, w, h
<1>8. \A i \in 2..Len(t) : t[i] = s[i - 1] /\ i - 1 \in 1..Len(s) /\ s[i - 1] < h
  <2> TAKE i \in 2..Len(t)
  <2>1. t[i] = s[i - 1] BY <1>6
  <2>2. i - 1 \in 1..Len(s) BY <1>7
  <2>3. s[i - 1] < h BY <1>3, <2>2 DEF Below, s
  <2> QED BY <2>1, <2>2, <2>3
<1>9. \A i \in 1..Len(t) : t[i] \in Nat BY <1>6
<1>10. \A i \in 1..Len(s) : s[i] \in Nat BY <1>1
<1>11. ASSUME NEW i \in 1..Len(t) PROVE p.cleared < t[i] /\ t[i] <= n /\ t[i] <= h
  <2>1. CASE i = 1
    <3>1. t[i] = h BY <1>6, <2>1
    <3>2. p.cleared < h BY <1>3 DEF Below
    <3>3. h <= n BY <1>1, <1>2, <1>3
    <3> QED BY <1>2, <3>1, <3>2, <3>3
  <2>2. CASE i # 1
    <3>1. i \in 2..Len(t) BY <1>7, <2>2
    <3>2. t[i] = s[i - 1] /\ i - 1 \in 1..Len(s) /\ t[i] < h /\ t[i] \in Nat
      BY <1>8, <1>10, <3>1
    <3> QED BY <1>2, <3>2 DEF Ordered, s
  <2> QED BY <2>1, <2>2
<1>12. ASSUME NEW i \in 1..Len(t), NEW j \in 1..Len(t), i < j PROVE t[i] > t[j]
  <2>1. j \in 2..Len(t) BY <1>7, <1>12
  <2>2. t[j] = s[j - 1] /\ j - 1 \in 1..Len(s) /\ t[j] < h BY <1>8, <2>1
  <2>3. CASE i = 1 BY <1>6, <2>2, <2>3
  <2>4. CASE i # 1
    <3>1. i \in 2..Len(t) BY <1>7, <2>4
    <3>2. t[i] = s[i - 1] /\ i - 1 \in 1..Len(s) /\ i - 1 < j - 1 BY <1>8, <1>12, <3>1
    <3> QED BY <2>2, <3>2 DEF Ordered, s
  <2> QED BY <2>3, <2>4
<1>13. Ordered(q, n) BY <1>7, <1>11, <1>12 DEF Ordered, t
<1>14. ASSUME NEW e \in Nat, e > h, p.cleared < e PROVE Below(q, e)
  BY <1>2, <1>9, <1>11, <1>14 DEF Below, t
<1>15. \A i \in 1..Len(w) : w[i] \in Nat /\ w[i] < d.next /\ h < w[i] /\ p.cleared < w[i]
  <2> TAKE i \in 1..Len(w)
  <2>0. w[i] = c.wire[i + 1] /\ i + 1 \in 1..Len(c.wire) BY <1>2
  <2>1. w[i] = c.wire[i + 1] /\ i + 1 \in 1..Len(c.wire) /\ 1 < i + 1 /\ c.wire[i + 1] \in Nat
    <3>1. c.wire[i + 1] \in Nat BY <1>1, <2>0, ElementOfSeq
    <3> QED BY <2>0, <3>1
  <2>2. c.wire[i + 1] < c.next /\ Below(p, c.wire[i + 1]) BY <2>1 DEF Ahead
  <2>3. c.wire[1] < c.wire[i + 1] BY <1>2, <2>1 DEF Ahead
  <2> QED BY <2>1, <2>2, <2>3 DEF Below, h
<1>16. \A i, j \in 1..Len(w) : i < j => w[i] < w[j]
  <2> TAKE i, j \in 1..Len(w)
  <2> HAVE i < j
  <2>1. i + 1 < j + 1 /\ i + 1 \in 1..Len(c.wire) /\ j + 1 \in 1..Len(c.wire) BY <1>2
  <2> QED BY <1>2, <2>1 DEF Ahead
<1>17. p.cleared < c.next /\ c.next > h BY <1>1, <1>2, <1>3 DEF Below
<1>18. Ahead(d, q, n)
  <2>1. \A i \in 1..Len(d.wire) : d.wire[i] < d.next /\ Below(q, d.wire[i])
    BY <1>14, <1>15 DEF w
  <2>2. Below(q, d.next) BY <1>1, <1>14, <1>17
  <2>3. \A i, j \in 1..Len(d.wire) : i < j => d.wire[i] < d.wire[j] BY <1>16 DEF w
  <2> QED BY <1>3, <2>1, <2>2, <2>3 DEF Ahead
<1>19. ASSUME NEW e \in Nat, Accounted(c, p, e) PROVE Accounted(d, q, e)
  <2>1. CASE On(c.wire, e)
    <3>1. PICK i \in 1..Len(c.wire) : c.wire[i] = e BY <2>1 DEF On
    <3>2. CASE i = 1
      <4>1. On(q.entries, e) BY <1>6, <1>7, <3>1, <3>2 DEF On, h, t
      <4> QED BY <4>1 DEF Accounted
    <3>3. CASE i # 1
      <4>1. i - 1 \in 1..Len(w) /\ w[i - 1] = c.wire[i] BY <1>2, <3>3
      <4>2. On(d.wire, e) BY <3>1, <4>1 DEF On, w
      <4> QED BY <4>2 DEF Accounted
    <3> QED BY <3>2, <3>3
  <2>2. CASE e \in c.missed \/ e <= p.cleared BY <2>2 DEF Accounted
  <2>3. CASE On(p.entries, e)
    <3>1. PICK i \in 1..Len(s) : s[i] = e BY <2>3 DEF On, s
    <3>2. CASE i + 1 <= Len(t)
      <4>1. i + 1 \in 2..Len(t) /\ (i + 1) - 1 = i BY <1>7, <3>2
      <4>2. t[i + 1] = e /\ i + 1 \in 1..Len(t) BY <1>8, <3>1, <4>1
      <4>3. On(q.entries, e) BY <4>2 DEF On, t
      <4> QED BY <4>3 DEF Accounted
    <3>3. CASE ~(i + 1 <= Len(t))
      <4>1. Len(t) = MaxEntries /\ Len(s) = MaxEntries /\ i = MaxEntries
        BY <1>4, <1>5, <1>6, <1>7, <3>3
      <4>2. e < t[MaxEntries]
        <5>1. CASE MaxEntries = 1
          <6>1. 1 \in 1..Len(s) BY <1>4, <4>1
          <6> QED BY <1>3, <1>6, <3>1, <4>1, <5>1, <6>1 DEF Below, s
        <5>2. CASE MaxEntries # 1
          <6>1. MaxEntries \in 2..Len(t) BY <1>4, <4>1, <5>2
          <6>2. /\ t[MaxEntries] = s[MaxEntries - 1] /\ MaxEntries - 1 \in 1..Len(s)
                /\ MaxEntries \in 1..Len(s) /\ MaxEntries - 1 < MaxEntries
            BY <1>4, <1>8, <4>1, <6>1
          <6>3. s[MaxEntries - 1] > s[MaxEntries] BY <6>2 DEF Ordered, s
          <6>4. s[MaxEntries - 1] \in Nat /\ s[MaxEntries] \in Nat BY <1>10, <6>2
          <6> QED BY <3>1, <4>1, <6>2, <6>3, <6>4
        <5> QED BY <5>1, <5>2
      <4> QED BY <4>1, <4>2 DEF Accounted, t
    <3> QED BY <3>2, <3>3
  <2>4. CASE Len(p.entries) = MaxEntries /\ e < p.entries[MaxEntries]
    <3>1. Len(s) = MaxEntries /\ Len(t) = MaxEntries /\ e < s[MaxEntries] /\ MaxEntries \in 1..Len(s)
      BY <1>4, <1>6, <2>4 DEF s
    <3>2. s[MaxEntries] \in Nat /\ t[MaxEntries] \in Nat BY <1>9, <1>10, <3>1
    <3>3. s[MaxEntries] <= t[MaxEntries]
      <4>1. CASE MaxEntries = 1
        <5>1. s[1] < h BY <1>3, <3>1, <4>1 DEF Below, s
        <5> QED BY <1>2, <1>6, <3>2, <4>1, <5>1
      <4>2. CASE MaxEntries # 1
        <5>1. MaxEntries \in 2..Len(t) BY <1>4, <3>1, <4>2
        <5>2. t[MaxEntries] = s[MaxEntries - 1] /\ MaxEntries - 1 \in 1..Len(s) BY <1>8, <5>1
        <5>3. MaxEntries - 1 < MaxEntries BY <1>4
        <5>4. s[MaxEntries - 1] > s[MaxEntries] BY <3>1, <5>2, <5>3 DEF Ordered, s
        <5> QED BY <3>2, <5>2, <5>4
      <4> QED BY <4>1, <4>2
    <3>4. e < t[MaxEntries] BY <3>1, <3>2, <3>3
    <3> QED BY <3>1, <3>4 DEF Accounted, t
  <2> QED BY <1>19, <2>1, <2>2, <2>3, <2>4 DEF Accounted
<1>20. \A e \in c.start..(c.next - 1) : e \in Nat BY <1>1
<1>21. Covered(d, q, n) BY <1>19, <1>20 DEF Covered
<1> QED BY <1>13, <1>18, <1>21

(* The same for the other steps, each on the attempt it is made on.           *)
LEMMA ClearedInOrder ==
  ASSUME NEW c \in Conn, NEW p \in Page, NEW q \in Page, NEW n \in Nat,
         p.entries # <<>>, q.entries = <<>>, q.cleared = p.entries[1], Ordered(p, n)
  PROVE  /\ Ordered(q, n)
         /\ Ahead(c, p, n) /\ Covered(c, p, n) => Ahead(c, q, n) /\ Covered(c, q, n)
<1>1. /\ c.wire \in Seq(Nat) /\ p.entries \in Seq(Nat) /\ c.next \in Nat /\ p.cleared \in Nat
      /\ c.start \in Nat /\ MaxEntries \in Nat \ {0}
  BY FeedAssumption DEF Conn, Page
<1>2. 1 \in 1..Len(p.entries) /\ Len(q.entries) = 0 BY <1>1
<1>3. Ordered(q, n) BY <1>1, <1>2 DEF Ordered
<1>4. ASSUME NEW e, Below(p, e) PROVE Below(q, e) BY <1>2, <1>4 DEF Below
<1>5. ASSUME Ahead(c, p, n), Covered(c, p, n) PROVE Ahead(c, q, n) /\ Covered(c, q, n)
  <2>1. Ahead(c, q, n) BY <1>4, <1>5 DEF Ahead
  <2>2. ASSUME NEW i \in 1..Len(p.entries) PROVE p.entries[i] <= q.cleared
    <3>1. p.entries[i] \in Nat /\ p.entries[1] \in Nat BY <1>1, <1>2
    <3>2. i = 1 \/ 1 < i BY <1>2
    <3> QED BY <1>2, <3>1, <3>2 DEF Ordered
  <2>3. p.cleared < q.cleared BY <1>2 DEF Ordered
  <2>4. q.cleared \in Nat BY DEF Page
  <2>5. ASSUME NEW e \in Nat, Accounted(c, p, e) PROVE Accounted(c, q, e)
    <3>1. CASE On(c.wire, e) \/ e \in c.missed BY <3>1 DEF Accounted
    <3>2. CASE On(p.entries, e) BY <2>2, <3>2 DEF On, Accounted
    <3>3. CASE e <= p.cleared BY <1>1, <2>3, <2>4, <3>3 DEF Accounted
    <3>4. CASE Len(p.entries) = MaxEntries /\ e < p.entries[MaxEntries]
      <4>1. MaxEntries \in 1..Len(p.entries) BY <1>1, <3>4
      <4>2. p.entries[MaxEntries] <= q.cleared /\ p.entries[MaxEntries] \in Nat BY <1>1, <2>2, <4>1
      <4>3. e <= q.cleared BY <2>4, <3>4, <4>2
      <4> QED BY <4>3 DEF Accounted
    <3> QED BY <2>5, <3>1, <3>2, <3>3, <3>4 DEF Accounted
  <2>6. \A e \in c.start..(c.next - 1) : e \in Nat BY <1>1
  <2>7. Covered(c, q, n) BY <1>5, <2>5, <2>6 DEF Covered
  <2> QED BY <2>1, <2>7
<1> QED BY <1>3, <1>5

LEMMA ReceivedInOrder ==
  ASSUME NEW c \in Conn, NEW d \in Conn, NEW p \in Page, NEW n \in Nat,
         Ahead(c, p, n), Covered(c, p, n), c.server = "subscribed", c.next <= n,
         d.wire = Append(c.wire, c.next), d.next = c.next + 1,
         d.start = c.start, d.missed = c.missed
  PROVE  Ahead(d, p, n) /\ Covered(d, p, n)
<1>1. /\ c.wire \in Seq(Nat) /\ p.entries \in Seq(Nat) /\ c.next \in Nat /\ p.cleared \in Nat
      /\ c.start \in Nat /\ Capacity \in Nat
  BY FeedAssumption DEF Conn, Page
<1>2. /\ Len(d.wire) = Len(c.wire) + 1 /\ Len(c.wire) \in Nat
      /\ \A i \in 1..Len(c.wire) : d.wire[i] = c.wire[i]
      /\ d.wire[Len(c.wire) + 1] = c.next
  BY <1>1
<1>3. ASSUME NEW i \in 1..Len(d.wire)
      PROVE  \/ i \in 1..Len(c.wire) /\ d.wire[i] = c.wire[i]
             \/ i = Len(c.wire) + 1 /\ d.wire[i] = c.next
  BY <1>2
<1>4. Below(p, c.next) BY DEF Ahead
<1>5. Below(p, d.next)
  <2>1. p.cleared < c.next + 1 BY <1>1, <1>4 DEF Below
  <2>2. \A i \in 1..Len(p.entries) : p.entries[i] \in Nat /\ p.entries[i] < c.next
    BY <1>1, <1>4 DEF Below
  <2> QED BY <1>1, <2>1, <2>2 DEF Below
<1>6. \A i \in 1..Len(c.wire) : c.wire[i] \in Nat BY <1>1, ElementOfSeq
<1>7. \A i \in 1..Len(d.wire) : d.wire[i] < d.next /\ Below(p, d.wire[i])
  BY <1>1, <1>3, <1>4, <1>6 DEF Ahead
<1>8. \A i, j \in 1..Len(d.wire) : i < j => d.wire[i] < d.wire[j]
  <2> TAKE i, j \in 1..Len(d.wire)
  <2> HAVE i < j
  <2>1. i \in 1..Len(c.wire) /\ d.wire[i] = c.wire[i] BY <1>2, <1>3
  <2>2. CASE j \in 1..Len(c.wire) /\ d.wire[j] = c.wire[j] BY <2>1, <2>2 DEF Ahead
  <2>3. CASE d.wire[j] = c.next BY <2>1, <2>3 DEF Ahead
  <2> QED BY <1>3, <2>2, <2>3
<1>9. Ahead(d, p, n)
  <2>1. d.next <= n + 1 BY <1>1
  <2> QED BY <1>5, <1>7, <1>8, <2>1 DEF Ahead
<1>10. ASSUME NEW e, On(c.wire, e) \/ e = c.next PROVE On(d.wire, e)
  <2>1. CASE On(c.wire, e)
    <3>1. PICK i \in 1..Len(c.wire) : c.wire[i] = e BY <2>1 DEF On
    <3>2. i \in 1..Len(d.wire) /\ d.wire[i] = e BY <1>2, <3>1
    <3> QED BY <3>2 DEF On
  <2>2. CASE e = c.next
    <3>1. Len(c.wire) + 1 \in 1..Len(d.wire) BY <1>2
    <3> QED BY <1>2, <2>2, <3>1 DEF On
  <2> QED BY <1>10, <2>1, <2>2
<1>11. ASSUME NEW e \in d.start..(d.next - 1) PROVE Accounted(d, p, e)
  <2>1. CASE e = c.next BY <1>10, <2>1 DEF Accounted
  <2>2. CASE e # c.next
    <3>1. e \in c.start..(c.next - 1) BY <1>1, <2>2
    <3>2. Accounted(c, p, e) BY <3>1 DEF Covered
    <3> QED BY <1>10, <3>2 DEF Accounted
  <2> QED BY <2>1, <2>2
<1>12. ASSUME NEW e \in d.next..(n - Capacity) PROVE e \in d.missed
  <2>1. e \in c.next..(n - Capacity) BY <1>1
  <2> QED BY <2>1 DEF Covered
<1>13. Covered(d, p, n) BY <1>11, <1>12 DEF Covered
<1> QED BY <1>9, <1>13

LEMMA LaggedInOrder ==
  ASSUME NEW c \in Conn, NEW d \in Conn, NEW p \in Page, NEW n \in Nat,
         Ahead(c, p, n), Covered(c, p, n), c.server = "subscribed", c.next + Capacity <= n,
         d.next = n + 1 - Capacity,
         d.wire = c.wire, d.start = c.start, d.missed = c.missed
  PROVE  Ahead(d, p, n) /\ Covered(d, p, n)
<1>1. /\ c.wire \in Seq(Nat) /\ p.entries \in Seq(Nat) /\ c.next \in Nat /\ p.cleared \in Nat
      /\ c.start \in Nat /\ Capacity \in Nat \ {0}
  BY FeedAssumption DEF Conn, Page
<1>2. c.next < d.next /\ d.next <= n + 1 BY <1>1
<1>3. ASSUME NEW e \in Nat, e < c.next PROVE e < d.next BY <1>1, <1>3
<1>4. Below(p, d.next)
  <2>1. Below(p, c.next) BY DEF Ahead
  <2>2. \A i \in 1..Len(p.entries) : p.entries[i] \in Nat
    <3>1. p.entries \in Seq(Nat) BY <1>1
    <3> QED BY <3>1
  <2> QED BY <1>1, <1>3, <2>1, <2>2 DEF Below
<1>5. \A i \in 1..Len(c.wire) : c.wire[i] \in Nat BY <1>1
<1>6. Ahead(d, p, n) BY <1>2, <1>3, <1>4, <1>5 DEF Ahead
<1>7. ASSUME NEW e \in d.start..(d.next - 1) PROVE Accounted(d, p, e)
  <2>1. CASE e \in c.start..(c.next - 1)
    <3>1. Accounted(c, p, e) BY <2>1 DEF Covered
    <3> QED BY <3>1 DEF Accounted
  <2>2. CASE e \notin c.start..(c.next - 1)
    <3>1. e \in c.next..(n - Capacity) BY <1>1, <2>2
    <3>2. e \in c.missed BY <3>1 DEF Covered
    <3> QED BY <3>2 DEF Accounted
  <2> QED BY <2>1, <2>2
<1>8. ASSUME NEW e \in d.next..(n - Capacity) PROVE FALSE BY <1>1
<1>9. Covered(d, p, n) BY <1>7, <1>8 DEF Covered
<1> QED BY <1>6, <1>9

LEMMA SubscribedInOrder ==
  ASSUME NEW d \in Conn, NEW p \in Page, NEW n \in Nat, Ordered(p, n),
         d.start = n + 1, d.next = n + 1, d.wire = <<>>
  PROVE  Ahead(d, p, n) /\ Covered(d, p, n)
<1>1. p.entries \in Seq(Nat) /\ p.cleared \in Nat /\ Capacity \in Nat
  BY FeedAssumption DEF Page
<1>2. \A i \in 1..Len(p.entries) : p.entries[i] \in Nat BY <1>1
<1>3. Below(p, d.next) BY <1>1, <1>2 DEF Below, Ordered
<1>4. Len(d.wire) = 0 OBVIOUS
<1>5. Ahead(d, p, n) BY <1>3, <1>4 DEF Ahead
<1>6. ASSUME NEW e \in d.start..(d.next - 1) PROVE FALSE OBVIOUS
<1>7. ASSUME NEW e \in d.next..(n - Capacity) PROVE FALSE BY <1>1
<1>8. Covered(d, p, n) BY <1>6, <1>7 DEF Covered
<1> QED BY <1>5, <1>8

(* One event more: the one the channel loses, if any, is counted as missed.   *)
LEMMA SentInOrder ==
  ASSUME NEW c \in Conn, NEW d \in Conn, NEW p \in Page, NEW n \in Nat,
         Ahead(c, p, n), Covered(c, p, n),
         d.server = c.server, d.start = c.start, d.next = c.next, d.wire = c.wire,
         c.missed \subseteq d.missed,
         c.server = "subscribed" /\ c.next + Capacity <= n + 1 => n + 1 - Capacity \in d.missed
  PROVE  Ahead(d, p, n + 1) /\ Covered(d, p, n + 1)
<1>1. c.next \in Nat /\ Capacity \in Nat BY FeedAssumption DEF Conn
<1>2. Ahead(d, p, n + 1)
  <2>1. d.next <= (n + 1) + 1 BY <1>1 DEF Ahead
  <2> QED BY <2>1 DEF Ahead
<1>3. \A e \in d.start..(d.next - 1) : Accounted(d, p, e) BY DEF Covered, Accounted
<1>4. ASSUME d.server = "subscribed", NEW e \in d.next..((n + 1) - Capacity) PROVE e \in d.missed
  <2>1. CASE e = n + 1 - Capacity
    <3>1. c.next + Capacity <= n + 1 BY <1>1, <2>1
    <3> QED BY <1>4, <2>1, <3>1
  <2>2. CASE e # n + 1 - Capacity
    <3>1. e \in c.next..(n - Capacity) BY <1>1, <2>2
    <3> QED BY <1>4, <3>1 DEF Covered
  <2> QED BY <2>1, <2>2
<1>5. Covered(d, p, n + 1) BY <1>3, <1>4 DEF Covered
<1> QED BY <1>2, <1>5

(* Steps that neither read nor show an event.                                 *)
LEMMA StreamsKept ==
  ASSUME NEW c \in Conn, NEW d \in Conn, NEW p, NEW q, NEW n \in Nat, Streams(c, p, n),
         d.start = c.start, d.next = c.next, d.missed = c.missed,
         d.wire = c.wire \/ (d.wire = <<>> /\ d.client = "closed"),
         d.server \in {c.server, "ended"} \/ (d.server = "upgraded" /\ c.server = "none"),
         d.client \in Asking \union {"unused"} => d.server = "none",
         d.client \in Socket => c.client \in Socket \/ c.server = "none",
         q.entries = p.entries, q.cleared = p.cleared
  PROVE  Streams(d, q, n)
<1>1. Quiet(d) BY DEF Streams, Quiet
<1>2. ASSUME d.client \in Socket PROVE Ahead(d, q, n) /\ Covered(d, q, n)
  <2>1. d.wire = c.wire BY <1>2 DEF Socket
  <2>2. CASE c.client \in Socket
    <3>1. Ahead(c, p, n) /\ Covered(c, p, n) BY <2>2 DEF Streams
    <3>2. d.server = "subscribed" => c.server = "subscribed" OBVIOUS
    <3>3. Ahead(d, q, n) BY <2>1, <3>1, <3>2 DEF Ahead, Below
    <3>4. Covered(d, q, n) BY <2>1, <3>1, <3>2 DEF Covered, Accounted
    <3> QED BY <3>3, <3>4
  <2>3. CASE c.server = "none"
    <3>1. c.wire = <<>> /\ c.start = 0 /\ c.next = 0 BY <2>3 DEF Streams, Quiet
    <3>2. d.server # "subscribed" BY <2>3
    <3>3. Len(d.wire) = 0 BY <2>1, <3>1
    <3>4. Ahead(d, q, n) BY <3>1, <3>2, <3>3 DEF Ahead
    <3>5. Covered(d, q, n) BY <3>1, <3>2 DEF Covered
    <3> QED BY <3>4, <3>5
  <2> QED BY <1>2, <2>2, <2>3
<1> QED BY <1>1, <1>2 DEF Streams

(* The steps of the client's end; those of the page that lose no event.       *)
LEMMA AllKept ==
  ASSUME FeedTyped, FeedTyped', Ordered(page, sent), UNCHANGED sent,
         page'.entries = page.entries, page'.cleared = page.cleared,
         \A j \in Attempts : Streams(conns'[j], page', sent')
  PROVE  ListInOrder'
<1>1. Ordered(page', sent') BY DEF Ordered
<1> QED BY <1>1 DEF ListInOrder

LEMMA OneChanged ==
  ASSUME FeedTyped, FeedTyped', ListInOrder, UNCHANGED sent,
         page'.entries = page.entries, page'.cleared = page.cleared, NEW k \in Attempts,
         \A j \in Attempts \ {k} : conns'[j] = conns[j], Streams(conns'[k], page', sent')
  PROVE  ListInOrder'
<1>1. Ordered(page', sent') BY DEF ListInOrder, Ordered
<1>2. ASSUME NEW j \in Attempts \ {k} PROVE Streams(conns'[j], page', sent')
  BY DEF ListInOrder, Streams, Ahead, Covered, Accounted, Below
<1> QED BY <1>1, <1>2 DEF ListInOrder

LEMMA GoesInOrder ==
  ASSUME FeedTyped, FeedTyped', ListInOrder, UNCHANGED sent,
         page'.entries = page.entries, page'.cleared = page.cleared,
         NEW k \in Attempts, NEW client \in Clients, Goes(k, client),
         client \in Asking \union {"unused"} => conns[k].server = "none",
         client \in Socket => conns[k].client \in Socket \/ conns[k].server = "none"
  PROVE  ListInOrder'
<1>1. conns[k] \in Conn /\ conns'[k] \in Conn /\ sent \in Nat BY DEF FeedTyped
<1>2. PICK w : w = IF client = "closed" THEN <<>> ELSE conns[k].wire OBVIOUS
<1>3. conns' = [conns EXCEPT ![k] = [conns[k] EXCEPT !.client = client, !.wire = w]]
  BY <1>2 DEF Goes, FeedTyped
<1>4. /\ conns'[k] = [conns[k] EXCEPT !.client = client, !.wire = w]
      /\ \A j \in Attempts \ {k} : conns'[j] = conns[j]
  BY <1>3 DEF FeedTyped
<1>5. /\ conns'[k].client = client /\ conns'[k].wire = w
      /\ conns'[k].start = conns[k].start /\ conns'[k].next = conns[k].next
      /\ conns'[k].missed = conns[k].missed /\ conns'[k].server = conns[k].server
  BY <1>1, <1>4 DEF Conn
<1>6. conns'[k].wire = conns[k].wire \/ (conns'[k].wire = <<>> /\ conns'[k].client = "closed")
  BY <1>2, <1>5
<1>7. Streams(conns[k], page, sent) BY DEF ListInOrder
<1>8. Streams(conns'[k], page', sent') BY <1>1, <1>5, <1>6, <1>7, StreamsKept
<1> QED BY <1>4, <1>8, OneChanged

LEMMA ClientInOrder ==
  ASSUME FeedInv, FeedInv', ListInOrder, NEW k \in Attempts,
         IssueTicket(k) \/ TicketRefused(k) \/ TicketAnswered(k) \/ Opened(k) \/ Closed(k)
  PROVE  ListInOrder'
<1>1. FeedTyped /\ FeedTyped' BY DEF FeedInv
<1>2. Quiet(conns[k]) BY DEF ListInOrder, Streams
<1>3. page \in Page BY <1>1 DEF FeedTyped
<1>4. page'.entries = page.entries /\ page'.cleared = page.cleared /\ UNCHANGED sent
  BY <1>3 DEF IssueTicket, TicketRefused, TicketAnswered, Opened, Closed, Browser, Page
<1>5. CASE IssueTicket(k) \/ TicketRefused(k)
  <2>1. conns[k].server = "none" BY <1>2, <1>5 DEF IssueTicket, TicketRefused, Quiet, Asking
  <2>2. Goes(k, "granted") \/ Goes(k, "refused") BY <1>5 DEF IssueTicket, TicketRefused
  <2> QED BY <1>1, <1>4, <2>1, <2>2, GoesInOrder DEF Clients
<1>6. CASE TicketAnswered(k)
  <2>1. conns[k].server = "none" BY <1>2, <1>6 DEF TicketAnswered, Quiet, Asking
  <2>2. Goes(k, "dialing") \/ Goes(k, "closed") BY <1>6 DEF TicketAnswered
  <2> QED BY <1>1, <1>4, <2>1, <2>2, GoesInOrder DEF Clients
<1>7. CASE Opened(k) \/ Closed(k)
  <2>1. conns[k].client \in Socket BY <1>7 DEF Opened, Closed, Socket
  <2>2. Goes(k, "open") \/ Goes(k, "closed") BY <1>7 DEF Opened, Closed
  <2> QED BY <1>1, <1>4, <2>1, <2>2, GoesInOrder DEF Clients, Asking
<1> QED BY <1>5, <1>6, <1>7

(* The steps of the server's end, which leave the page as it is.              *)
LEMMA ServerInOrder ==
  ASSUME FeedInv, FeedInv', ListInOrder, NEW k \in Attempts,
         Handshake(k) \/ HandshakeAgain(k) \/ Subscribe(k) \/ Lagged(k) \/ Received(k) \/ Ends(k)
  PROVE  ListInOrder'
<1> DEFINE c == conns[k]
           d == conns'[k]
<1>1. /\ FeedTyped /\ FeedTyped' /\ c \in Conn /\ d \in Conn /\ page \in Page /\ sent \in Nat
      /\ conns \in [Attempts -> Conn]
  BY DEF FeedInv, FeedTyped
<1>2. UNCHANGED <<page, sent>>
  BY DEF Handshake, HandshakeAgain, Subscribe, Lagged, Received, Ends
<1>3. \A j \in Attempts \ {k} : conns'[j] = conns[j]
  BY <1>1 DEF Handshake, HandshakeAgain, Subscribe, Lagged, Received, Ends
<1>4. Streams(c, page, sent) /\ Quiet(c) /\ Ordered(page, sent) BY DEF ListInOrder, Streams
<1>5. CASE HandshakeAgain(k)
  <2>1. d = c BY <1>5 DEF HandshakeAgain
  <2> QED BY <1>1, <1>2, <1>3, <1>4, <2>1, OneChanged
<1>6. CASE Handshake(k) \/ Ends(k)
  <2>1. PICK state \in {"upgraded", "ended"} :
            /\ conns' = [conns EXCEPT ![k].server = state]
            /\ state = "ended" \/ c.server = "none"
    BY <1>6 DEF Handshake, Ends
  <2>2. d = [c EXCEPT !.server = state] BY <1>1, <2>1
  <2>3. /\ d.server = state /\ d.start = c.start /\ d.next = c.next /\ d.missed = c.missed
        /\ d.wire = c.wire /\ d.client = c.client
    BY <1>1, <2>2 DEF Conn
  <2>4. c.client \notin Asking \union {"unused"}
    BY <1>4, <1>6 DEF Handshake, Ends, Quiet, Asking
  <2> HIDE DEF c, d
  <2>5. Streams(d, page, sent) BY <1>1, <1>4, <2>1, <2>3, <2>4, StreamsKept
  <2> QED BY <1>1, <1>2, <1>3, <2>5, OneChanged DEF d
<1>7. CASE Subscribe(k)
  <2> DEFINE n == sent + 1
  <2>1. conns' = [conns EXCEPT ![k] = [c EXCEPT !.server = "subscribed", !.start = n, !.next = n]]
    BY <1>1, <1>7 DEF Subscribe
  <2>2. /\ d.server = "subscribed" /\ d.start = sent + 1 /\ d.next = sent + 1
        /\ d.wire = c.wire /\ d.client = c.client /\ c.server = "upgraded"
    BY <1>1, <1>7, <2>1 DEF Conn, Subscribe
  <2>3. d.wire = <<>> /\ c.client \notin Asking \union {"unused"} BY <1>4, <2>2 DEF Quiet
  <2>4. Quiet(d) BY <2>2, <2>3 DEF Quiet
  <2> HIDE DEF c, d
  <2>5. Ahead(d, page, sent) /\ Covered(d, page, sent)
    BY <1>1, <1>4, <2>2, <2>3, SubscribedInOrder
  <2>6. Streams(d, page, sent) BY <2>4, <2>5 DEF Streams
  <2> QED BY <1>1, <1>2, <1>3, <2>6, OneChanged DEF d
<1>8. CASE Lagged(k)
  <2>1. conns' = [conns EXCEPT ![k] = [c EXCEPT !.next = sent + 1 - Capacity]]
    BY <1>8 DEF Lagged
  <2>2. /\ d.server = c.server /\ d.start = c.start /\ d.next = sent + 1 - Capacity
        /\ d.wire = c.wire /\ d.client = c.client /\ d.missed = c.missed
        /\ c.server = "subscribed" /\ c.next + Capacity <= sent
    BY <1>1, <1>8, <2>1 DEF Conn, Lagged
  <2>3. Quiet(d) BY <1>4, <2>2 DEF Quiet
  <2> HIDE DEF c, d
  <2>4. d.client \in Socket => Ahead(d, page, sent) /\ Covered(d, page, sent)
    BY <1>1, <1>4, <2>2, LaggedInOrder DEF Streams
  <2>5. Streams(d, page, sent) BY <2>3, <2>4 DEF Streams
  <2> QED BY <1>1, <1>2, <1>3, <2>5, OneChanged DEF d
<1>9. CASE Received(k)
  <2> DEFINE w == Append(c.wire, c.next)
             n == c.next + 1
  <2>1. conns' = [conns EXCEPT ![k] = [c EXCEPT !.wire = w, !.next = n]]
    BY <1>1, <1>9 DEF Received
  <2>2. /\ d.server = c.server /\ d.start = c.start /\ d.next = n
        /\ d.wire = w /\ d.client = c.client /\ d.missed = c.missed
    BY <1>1, <2>1 DEF Conn
  <2>3. c.server = "subscribed" /\ c.next <= sent BY <1>1, <1>9 DEF Received, Conn
  <2>4. Quiet(d) BY <1>4, <2>2, <2>3 DEF Quiet
  <2> HIDE DEF c, d
  <2>5. d.client \in Socket => Ahead(d, page, sent) /\ Covered(d, page, sent)
    BY <1>1, <1>4, <2>2, <2>3, ReceivedInOrder DEF Streams
  <2>6. Streams(d, page, sent) BY <2>4, <2>5 DEF Streams
  <2> QED BY <1>1, <1>2, <1>3, <2>6, OneChanged DEF d
<1> QED BY <1>5, <1>6, <1>7, <1>8, <1>9

(* The channel: an event more, or the server's end of every socket gone.      *)
LEMMA ChannelInOrder ==
  ASSUME FeedInv, FeedInv', ListInOrder, Broadcast \/ Restart
  PROVE  ListInOrder'
<1>1. /\ FeedTyped /\ FeedTyped' /\ page \in Page /\ sent \in Nat
      /\ conns \in [Attempts -> Conn] /\ conns' \in [Attempts -> Conn] /\ page' = page
  BY DEF FeedInv, FeedTyped, Broadcast, Restart
<1>2. Ordered(page, sent) BY DEF ListInOrder
<1>3. CASE Broadcast
  <2>1. sent' = sent + 1 BY <1>3 DEF Broadcast
  <2>2. Ordered(page, sent + 1)
    <3>1. \A i \in 1..Len(page.entries) : page.entries[i] \in Nat BY <1>1 DEF Page
    <3>2. page.cleared \in Nat BY <1>1 DEF Page
    <3> QED BY <1>1, <1>2, <3>1, <3>2 DEF Ordered
  <2>3. ASSUME NEW k \in Attempts PROVE Streams(conns'[k], page, sent + 1)
    <3> DEFINE c == conns[k]
               d == conns'[k]
    <3>1. c \in Conn /\ d \in Conn /\ Streams(c, page, sent) BY <1>1 DEF ListInOrder
    <3>2. /\ d.server = c.server /\ d.start = c.start /\ d.next = c.next /\ d.wire = c.wire
          /\ d.client = c.client /\ c.missed \subseteq d.missed
          /\ c.server = "subscribed" /\ c.next + Capacity <= sent + 1
                => sent + 1 - Capacity \in d.missed
      <4>1. PICK m : m = c.missed \union {sent + 1 - Capacity} OBVIOUS
      <4>2. d = IF c.server = "subscribed" /\ c.next + Capacity <= sent + 1
                THEN [c EXCEPT !.missed = m] ELSE c
        BY <1>3, <4>1 DEF Broadcast
      <4>3. CASE c.server = "subscribed" /\ c.next + Capacity <= sent + 1
        <5>1. d = [c EXCEPT !.missed = m] BY <4>2, <4>3
        <5>2. d.missed = m BY <3>1, <5>1 DEF Conn
        <5> QED BY <3>1, <4>1, <5>1, <5>2 DEF Conn
      <4>4. CASE ~(c.server = "subscribed" /\ c.next + Capacity <= sent + 1) BY <4>2, <4>4
      <4> QED BY <4>3, <4>4
    <3> HIDE DEF c, d
    <3>3. Quiet(d) BY <3>1, <3>2 DEF Streams, Quiet
    <3>4. d.client \in Socket => Ahead(d, page, sent + 1) /\ Covered(d, page, sent + 1)
      BY <1>1, <3>1, <3>2, SentInOrder DEF Streams
    <3>5. Streams(d, page, sent + 1) BY <3>3, <3>4 DEF Streams
    <3> QED BY <3>5 DEF d
  <2> QED BY <1>1, <2>1, <2>2, <2>3 DEF ListInOrder
<1>4. CASE Restart
  <2>1. sent' = sent BY <1>4 DEF Restart
  <2>2. ASSUME NEW k \in Attempts PROVE Streams(conns'[k], page', sent')
    <3> DEFINE c == conns[k]
               d == conns'[k]
    <3>1. c \in Conn /\ d \in Conn /\ Streams(c, page, sent) BY <1>1 DEF ListInOrder
    <3>2. \/ d = c
          \/ d = [c EXCEPT !.server = "ended"] /\ c.server \in {"upgraded", "subscribed"}
      BY <1>4 DEF Restart
    <3>3. /\ d.start = c.start /\ d.next = c.next /\ d.wire = c.wire /\ d.missed = c.missed
          /\ d.client = c.client /\ d.server \in {c.server, "ended"}
          /\ d.server # c.server => c.server # "none"
      BY <3>1, <3>2 DEF Conn
    <3>4. d.client \in Asking \union {"unused"} => d.server = "none"
      BY <3>1, <3>3 DEF Streams, Quiet
    <3> HIDE DEF c, d
    <3>5. Streams(d, page, sent) BY <1>1, <3>1, <3>3, <3>4, StreamsKept
    <3> QED BY <1>1, <2>1, <3>5 DEF d
  <2> QED BY <1>1, <1>2, <2>1, <2>2, AllKept
<1> QED BY <1>3, <1>4

(* onmessage and clearEntries.                                                *)
LEMMA ShowsInOrder ==
  ASSUME FeedInv, FeedInv', ListInOrder, Clear \/ \E k \in Attempts : Message(k)
  PROVE  ListInOrder'
<1>1. /\ FeedTyped /\ FeedTyped' /\ page \in Page /\ page' \in Page /\ sent \in Nat
      /\ conns \in [Attempts -> Conn] /\ conns' \in [Attempts -> Conn]
  BY DEF FeedInv, FeedTyped
<1>2. Ordered(page, sent) /\ \A k \in Attempts : Streams(conns[k], page, sent)
  BY DEF ListInOrder
<1>3. CASE Clear
  <2>1. page.entries # <<>> /\ UNCHANGED <<conns, sent>> BY <1>3 DEF Clear, Browser
  <2>2. Head(page.entries) = page.entries[1] BY <1>1, <2>1 DEF Page
  <2>3. PICK h : h = page.entries[1] OBVIOUS
  <2>4. page' = [page EXCEPT !.entries = <<>>, !.cleared = h] BY <1>3, <2>2, <2>3 DEF Clear
  <2>5. page'.entries = <<>> /\ page'.cleared = page.entries[1] BY <1>1, <2>3, <2>4 DEF Page
  <2>6. ASSUME NEW k \in Attempts PROVE Streams(conns[k], page', sent)
    <3>1. conns[k] \in Conn /\ Streams(conns[k], page, sent) BY <1>1, <1>2
    <3> QED BY <1>1, <1>2, <2>1, <2>5, <3>1, ClearedInOrder DEF Streams
  <2>7. Ordered(page', sent)
    <3>1. Unused \in Conn
      <4>1. <<>> \in Seq(Nat) OBVIOUS
      <4> QED BY <4>1 DEF Unused, Conn, Clients, Servers
    <3> QED BY <1>1, <1>2, <2>1, <2>5, <3>1, ClearedInOrder
  <2> QED BY <2>1, <2>6, <2>7 DEF ListInOrder
<1>4. ASSUME NEW k \in Attempts, Message(k) PROVE ListInOrder'
  <2> DEFINE c == conns[k]
             d == conns'[k]
  <2>1. /\ c \in Conn /\ d \in Conn /\ c.client = "open" /\ c.wire # <<>> /\ UNCHANGED sent
        /\ Mine(k) /\ page.ws = k
    BY <1>1, <1>4 DEF Message, Browser, FeedInv, SocketInv, Socket
  <2>2. PICK w : w = Tail(c.wire) OBVIOUS
  <2>3. PICK s : s = Show(page.entries, Head(c.wire)) OBVIOUS
  <2>4. /\ conns' = [conns EXCEPT ![k] = [c EXCEPT !.wire = w]]
        /\ page' = [page EXCEPT !.entries = s]
    BY <1>1, <1>4, <2>1, <2>2, <2>3 DEF Message
  <2>5. /\ d = [c EXCEPT !.wire = w] /\ \A j \in Attempts \ {k} : conns'[j] = conns[j]
    BY <1>1, <2>4
  <2>6. /\ d.wire = Tail(c.wire) /\ d.start = c.start /\ d.next = c.next
        /\ d.missed = c.missed /\ d.server = c.server /\ d.client = c.client
    BY <2>1, <2>2, <2>5 DEF Conn
  <2>7. page'.cleared = page.cleared /\ page'.entries = Show(page.entries, Head(c.wire))
    BY <1>1, <2>3, <2>4 DEF Page
  <2>8. Ahead(c, page, sent) /\ Covered(c, page, sent) /\ Quiet(c)
    BY <1>2, <2>1 DEF Streams, Socket
  <2> HIDE DEF c, d
  <2>9. Ordered(page', sent) /\ Ahead(d, page', sent) /\ Covered(d, page', sent)
    BY <1>1, <1>2, <2>1, <2>6, <2>7, <2>8, ShownInOrder
  <2>10. Quiet(d)
    <3>1. c.server \notin {"none", "upgraded"} /\ d.client = "open" BY <2>1, <2>6, <2>8 DEF Quiet
    <3> QED BY <2>6, <3>1 DEF Quiet, Asking
  <2>11. Streams(d, page', sent) BY <2>9, <2>10 DEF Streams
  <2>12. ASSUME NEW j \in Attempts \ {k} PROVE Streams(conns'[j], page', sent)
    <3>1. conns[j].client \notin Socket BY <2>1 DEF FeedInv, SocketInv
    <3> QED BY <1>2, <2>5, <3>1 DEF Streams
  <2> QED BY <2>1, <2>9, <2>11, <2>12 DEF ListInOrder, d
<1> QED BY <1>3, <1>4

(* connect makes an attempt that has read nothing.                            *)
LEMMA ConnectQuiet ==
  ASSUME FeedTyped, NEW p \in Page, NEW mount \in Nat, Connect(p, mount)
  PROVE  \E k \in Attempts :
            /\ Quiet(conns'[k]) /\ conns'[k].client = "asking"
            /\ \A j \in Attempts \ {k} : conns'[j] = conns[j]
<1>1. PICK k \in Attempts : conns[k] = Unused
                            /\ conns' = [conns EXCEPT ![k].of = mount, ![k].client = "asking"]
  BY DEF Connect
<1>2. conns \in [Attempts -> Conn] BY DEF FeedTyped
<1>3. conns' = [[conns EXCEPT ![k].of = mount] EXCEPT ![k].client = "asking"] BY <1>1
<1>4. \A j \in Attempts \ {k} : conns'[j] = conns[j] BY <1>2, <1>3
<1>5. PICK c : c = [Unused EXCEPT !.of = mount, !.client = "asking"] OBVIOUS
<1>6. conns'[k] = c BY <1>1, <1>2, <1>3, <1>5
<1>7. c.client = "asking" /\ c.server = "none" /\ c.wire = <<>> /\ c.start = 0 /\ c.next = 0
  BY <1>5 DEF Unused
<1> QED BY <1>4, <1>6, <1>7 DEF Quiet

(* A page that was just opened, or left, shows nothing and has no socket.     *)
LEMMA FreshInOrder ==
  ASSUME FeedInv, FeedInv', UNCHANGED sent, page'.ws = 0,
         page'.entries = <<>>, page'.cleared = 0, \A k \in Attempts : Quiet(conns'[k])
  PROVE  ListInOrder'
<1>1. sent' \in Nat /\ MaxEntries \in Nat BY FeedAssumption DEF FeedInv, FeedTyped
<1>2. Len(page'.entries) = 0 OBVIOUS
<1>3. Ordered(page', sent') BY <1>1, <1>2 DEF Ordered
<1>4. ASSUME NEW k \in Attempts PROVE Streams(conns'[k], page', sent')
  <2>1. k # 0 BY DEF Attempts
  <2>2. conns'[k].client \notin Socket BY <2>1 DEF FeedInv, SocketInv
  <2> QED BY <2>2 DEF Streams
<1> QED BY <1>3, <1>4 DEF ListInOrder

LEMMA PageInOrder ==
  ASSUME FeedInv, FeedInv', ListInOrder, Mount \/ LeaveFeed \/ Retry
  PROVE  ListInOrder'
<1>1. /\ FeedTyped /\ FeedTyped' /\ page \in Page /\ conns \in [Attempts -> Conn]
      /\ mounts \in Nat
  BY DEF FeedInv, FeedTyped
<1>2. \A k \in Attempts : Quiet(conns[k]) BY DEF ListInOrder, Streams
<1>3. UNCHANGED sent BY DEF Mount, LeaveFeed, Retry, Browser
<1>4. CASE LeaveFeed
  <2>1. page'.entries = <<>> /\ page'.cleared = 0 /\ page'.ws = 0 BY <1>4 DEF LeaveFeed, Away
  <2>2. CASE page.ws = 0
    <3>1. conns' = conns BY <1>4, <2>2 DEF LeaveFeed
    <3> QED BY <1>2, <1>3, <2>1, <3>1, FreshInOrder
  <2>3. CASE page.ws # 0
    <3> DEFINE k == page.ws
    <3>1. k \in Attempts /\ conns[k] \in Conn BY <1>1, <2>3 DEF FeedInv, SocketInv
    <3>2. Goes(k, "closed") BY <1>4, <2>3 DEF LeaveFeed
    <3>3. conns' = [conns EXCEPT ![k] = [conns[k] EXCEPT !.client = "closed", !.wire = <<>>]]
      BY <1>1, <3>2 DEF Goes
    <3> HIDE DEF k
    <3>4. /\ conns'[k] = [conns[k] EXCEPT !.client = "closed", !.wire = <<>>]
          /\ \A j \in Attempts \ {k} : conns'[j] = conns[j]
      BY <1>1, <3>1, <3>3
    <3>5. /\ conns'[k].client = "closed" /\ conns'[k].wire = <<>>
          /\ conns'[k].server = conns[k].server
          /\ conns'[k].start = conns[k].start /\ conns'[k].next = conns[k].next
      BY <3>1, <3>4 DEF Conn
    <3>6. Quiet(conns'[k]) BY <1>2, <3>1, <3>5 DEF Quiet, Asking
    <3>7. \A j \in Attempts : Quiet(conns'[j]) BY <1>2, <3>4, <3>6
    <3> QED BY <1>3, <2>1, <3>7, FreshInOrder
  <2> QED BY <2>2, <2>3
<1>5. CASE Mount
  <2> DEFINE p == [Away EXCEPT !.mounted = TRUE]
  <2>0. <<>> \in Seq(Nat) OBVIOUS
  <2>1. p \in Page /\ p.entries = <<>> /\ p.cleared = 0 /\ p.ws = 0 BY <2>0 DEF Away, Page
  <2>2. Connect(p, mounts + 1) BY <1>5 DEF Mount
  <2> HIDE DEF p
  <2>3. page' = [p EXCEPT !.status = "connecting"] BY <2>2 DEF Connect
  <2>4. page'.entries = <<>> /\ page'.cleared = 0 /\ page'.ws = 0 BY <2>1, <2>3 DEF Page
  <2>5. mounts + 1 \in Nat BY <1>1
  <2>6. \A k \in Attempts : Quiet(conns'[k]) BY <1>1, <1>2, <2>1, <2>2, <2>5, ConnectQuiet
  <2> QED BY <1>3, <2>4, <2>6, FreshInOrder
<1>6. CASE Retry
  <2> DEFINE p == [page EXCEPT !.timer = FALSE]
  <2>1. p \in Page /\ p.entries = page.entries /\ p.cleared = page.cleared BY <1>1 DEF Page
  <2>2. Connect(p, mounts) BY <1>6 DEF Retry
  <2> HIDE DEF p
  <2>3. page' = [p EXCEPT !.status = "connecting"] BY <2>2 DEF Connect
  <2>4. page'.entries = page.entries /\ page'.cleared = page.cleared BY <2>1, <2>3 DEF Page
  <2>5. PICK k \in Attempts :
            /\ Quiet(conns'[k]) /\ conns'[k].client = "asking"
            /\ \A j \in Attempts \ {k} : conns'[j] = conns[j]
    BY <1>1, <2>1, <2>2, ConnectQuiet
  <2>6. Streams(conns'[k], page', sent') BY <2>5 DEF Streams, Socket
  <2> QED BY <1>1, <1>3, <2>4, <2>5, <2>6, OneChanged
<1> QED BY <1>4, <1>5, <1>6

LEMMA InOrderInit == FeedInit => ListInOrder
<1> SUFFICES ASSUME FeedInit PROVE ListInOrder OBVIOUS
<1>1. MaxEntries \in Nat BY FeedAssumption
<1>2. Len(<<>>) = 0 OBVIOUS
<1>3. Ordered(page, sent) BY <1>1, <1>2 DEF FeedInit, Away, Ordered
<1>4. \A k \in Attempts : Streams(conns[k], page, sent)
  BY DEF FeedInit, Unused, Streams, Quiet, Socket
<1> QED BY <1>3, <1>4 DEF ListInOrder

LEMMA InOrderStep == FeedInv /\ FeedInv' /\ ListInOrder /\ [FeedNext]_feedVars => ListInOrder'
<1> SUFFICES ASSUME FeedInv, FeedInv', ListInOrder, [FeedNext]_feedVars PROVE ListInOrder' OBVIOUS
<1>1. ASSUME UNCHANGED <<page, conns, sent>> PROVE ListInOrder'
  BY <1>1 DEF ListInOrder, Ordered, Streams, Quiet, Ahead, Covered, Accounted, Below
<1>2. CASE UNCHANGED feedVars BY <1>1, <1>2 DEF feedVars
<1>3. ASSUME NEW k \in Attempts, Expire(k) PROVE ListInOrder' BY <1>1, <1>3 DEF Expire
<1>4. CASE FeedNext
  BY <1>3, <1>4, PageInOrder, ShowsInOrder, ChannelInOrder, ClientInOrder, ServerInOrder
     DEF FeedNext, Progress
<1> QED BY <1>2, <1>4

THEOREM InOrderInvariance == FeedSpec => []ListInOrder
<1>1. FeedSpec => [](FeedInv /\ ListInOrder)
  <2>1. FeedInit => FeedInv /\ ListInOrder BY FeedInvInit, InOrderInit
  <2>2. FeedInv /\ ListInOrder /\ [FeedNext]_feedVars => (FeedInv /\ ListInOrder)'
    BY FeedInvStep, InOrderStep
  <2> QED BY <2>1, <2>2, PTL DEF FeedSpec
<1> QED BY <1>1, PTL

(* However many sockets the page goes through, whatever the channel loses and *)
(* the list drops, it shows the newest event first and none twice             *)
(* (onmessage, useQueryLogWebSocket.ts).                                      *)
THEOREM ShowsNewestFirst == FeedSpec => []NewestFirst
<1>1. FeedInv /\ ListInOrder => NewestFirst
  <2> SUFFICES ASSUME FeedInv, ListInOrder PROVE NewestFirst OBVIOUS
  <2>1. page.entries \in Seq(Nat) BY DEF FeedInv, FeedTyped, Page
  <2>2. \A i \in 1..(Len(page.entries) - 1) :
            i \in 1..Len(page.entries) /\ i + 1 \in 1..Len(page.entries) /\ i < i + 1
    BY <2>1
  <2> QED BY <2>2 DEF ListInOrder, Ordered, NewestFirst
<1> QED BY <1>1, FeedInvariance, InOrderInvariance, PTL

(* What the page does not show of a socket's events is on its way, was        *)
(* cleared or pushed out, or was gone from the channel before it was read:    *)
(* nothing is lost on the way (handle_socket, ws.rs).                         *)
THEOREM LosesNothingElse == FeedSpec => []NothingElseLost
<1>1. FeedInv /\ ListInOrder => NothingElseLost
  <2> SUFFICES ASSUME FeedInv, ListInOrder, NEW k \in Attempts, conns[k].client = "open",
                      NEW e \in conns[k].start..(conns[k].next - 1)
               PROVE  \/ e \in ToSet(conns[k].wire) \union conns[k].missed
                                  \union ToSet(page.entries)
                      \/ e <= page.cleared
                      \/ Len(page.entries) = MaxEntries /\ e < Last(page.entries)
    BY DEF NothingElseLost
  <2>1. Accounted(conns[k], page, e) BY DEF ListInOrder, Streams, Covered, Socket
  <2>2. page.entries \in Seq(Nat) /\ conns[k].wire \in Seq(Nat)
    BY DEF FeedInv, FeedTyped, Page, Conn
  <2>3. ASSUME NEW s \in Seq(Nat), On(s, e) PROVE e \in ToSet(s) BY <2>3 DEF On, ToSet
  <2>4. Last(page.entries) = page.entries[Len(page.entries)] BY DEF Last
  <2>5. On(conns[k].wire, e) => e \in ToSet(conns[k].wire) BY <2>2, <2>3
  <2>6. On(page.entries, e) => e \in ToSet(page.entries) BY <2>2, <2>3
  <2> QED BY <2>1, <2>4, <2>5, <2>6 DEF Accounted
<1> QED BY <1>1, FeedInvariance, InOrderInvariance, PTL
-----------------------------------------------------------------------------
(* The paged lists, for any rows, words, page size and number of requests:    *)
(* which rows of the query cache may pass for fresh, and what the             *)
(* confirmation of a bulk delete deletes.                                     *)
Rows == [rows : SUBSET Ids, total : Nat, ver : Nat]
Entry == [result : Rows, loaded : BOOLEAN, stale : BOOLEAN, error : BOOLEAN, raced : BOOLEAN]
Request == {Idle} \union [state : {"asked"}, raced : BOOLEAN]
                  \union [state : {"read"}, result : Rows, raced : BOOLEAN]
Write == [n : Nat, kind : {"create", "delete", "enable", "disable"}, ids : SUBSET Ids, text : Texts,
          mine : BOOLEAN, state : {"sent", "ok", "bad"}, ver : Nat]
Component == [query : Texts, timer : {<<>>} \union {<<t>> : t \in Texts}, search : Texts,
              page : PageNos, offset : PageNos, last : {<<>>} \union Keys,
              selected : SUBSET Ids, dialog : {"closed", "create"}, confirm : BOOLEAN,
              asked : SUBSET Ids, latest : Nat]

PagedTyped ==
    /\ ui \in Component /\ calls \subseteq Write
    /\ cache \in [Keys -> Entry] /\ fetch \in [Keys -> Request]
    /\ version \in Nat /\ acked \in Nat /\ count \in Nat

(* While the dialog asks, the selection is what it was opened for, unless an  *)
(* answer has emptied it.                                                     *)
Asks(u) == u.confirm => u.selected \in {u.asked, {}}

(* No answer is ahead of the table; a request that no write overtook, and an  *)
(* entry such a request filled, are as new as every answered write.           *)
Reads(f, n) == f.state = "read" /\ ~f.raced => f.result.ver >= n
Current(e, n) == e.loaded /\ ~e.stale /\ ~e.raced => e.result.ver >= n
Dated ==
    /\ acked <= version /\ \A c \in calls : c.ver <= version
    /\ \A k \in Keys : Reads(fetch[k], acked) /\ Current(cache[k], acked)

PagedInv == PagedTyped /\ Asks(ui) /\ Dated
-----------------------------------------------------------------------------
LEMMA AskedFacts == /\ Asked \in Request /\ Asked.state = "asked" /\ Asked # Idle
                    /\ Idle \in Request /\ Idle.state = "idle"
BY DEF Asked, Idle, Request

(* There is a page 1, and the key on show is one of the keys.                 *)
LEMMA Pages == 1 \in PageNos /\ PageNos \subseteq Nat
<1>1. Cardinality(Ids) \in Nat \ {0} BY PagedAssumption, FS_CardinalityType, FS_EmptySet
<1>2. PICK n \in Nat \ {0} : n = Cardinality(Ids) BY <1>1
<1>3. PAGE_SIZE \in Nat \ {0} BY PagedAssumption
<1>4. (n + PAGE_SIZE - 1) \div PAGE_SIZE >= 1 /\ (n + PAGE_SIZE - 1) \div PAGE_SIZE \in Nat
  BY <1>3
<1> QED BY <1>2, <1>4 DEF PageNos

LEMMA KeyOf == ASSUME NEW u \in Component PROVE <<u.search, u.offset>> \in Keys
BY DEF Component, Keys

LEMMA FreshFacts == Fresh \in Component /\ ~Fresh.confirm
<1>1. All \in Texts BY DEF Texts
<1>2. <<All>> \in {<<t>> : t \in Texts} BY <1>1
<1> QED BY <1>1, <1>2, Pages DEF Fresh, Component

LEMMA PagedInitially == Init => PagedInv
<1> SUFFICES ASSUME Init PROVE PagedInv OBVIOUS
<1>1. Unloaded \in Entry /\ Unloaded.stale BY DEF Unloaded, Nothing, Entry, Rows
<1>2. PagedTyped
  BY <1>1, AskedFacts, FreshFacts DEF Init, PagedInit, PagedTyped
<1>3. Asks(ui) BY FreshFacts DEF Init, PagedInit, Asks
<1>4. Dated BY <1>1, AskedFacts DEF Init, PagedInit, Dated, Reads, Current
<1> QED BY <1>2, <1>3, <1>4 DEF PagedInv

(* A step that fills no entry and acknowledges no write: whatever it does to  *)
(* the component, to calls and to the table, a request goes on or starts anew.*)
LEMMA PagedKept ==
  ASSUME PagedInv, cache' = cache, acked' = acked, version' \in Nat, version' >= version,
         count' \in Nat, fetch' \in [Keys -> Request],
         \A k \in Keys : fetch'[k] \in {fetch[k], Asked},
         calls' \subseteq Write, \A c \in calls' : c.ver <= version',
         ui' \in Component, Asks(ui')
  PROVE  PagedInv'
<1>1. PagedTyped' BY DEF PagedInv, PagedTyped
<1>2. ASSUME NEW k \in Keys PROVE Reads(fetch'[k], acked') /\ Current(cache'[k], acked')
  <2>1. Reads(fetch[k], acked) /\ Current(cache[k], acked) BY DEF PagedInv, Dated
  <2>2. fetch'[k] = fetch[k] \/ fetch'[k] = Asked OBVIOUS
  <2>3. Reads(fetch'[k], acked') BY <2>1, <2>2, AskedFacts DEF Reads
  <2>4. Current(cache'[k], acked') BY <2>1
  <2> QED BY <2>3, <2>4
<1>3. Dated' BY <1>2 DEF PagedInv, PagedTyped, Dated
<1>4. Asks(ui)' OBVIOUS
<1> QED BY <1>1, <1>3, <1>4 DEF PagedInv

(* The cases of it: the component alone, a request started, and a write sent. *)
LEMMA ComponentOnly ==
  ASSUME PagedInv, UNCHANGED <<calls, server, query, acked>>, count' \in Nat,
         ui' \in Component, Asks(ui')
  PROVE  PagedInv'
<1>1. /\ fetch' \in [Keys -> Request] /\ calls' \subseteq Write /\ version' \in Nat
      /\ version' >= version /\ cache' = cache
  BY DEF PagedInv, PagedTyped, server, query
<1>2. \A c \in calls' : c.ver <= version' BY DEF PagedInv, Dated, server
<1>3. \A k \in Keys : fetch'[k] \in {fetch[k], Asked} BY DEF query
<1> QED BY <1>1, <1>2, <1>3, PagedKept

LEMMA Starts ==
  ASSUME PagedInv, UNCHANGED <<calls, server, cache, acked>>, count' \in Nat,
         fetch' \in [Keys -> Request], \A k \in Keys : fetch'[k] \in {fetch[k], Asked},
         ui' \in Component, Asks(ui')
  PROVE  PagedInv'
<1>1. /\ calls' \subseteq Write /\ version' \in Nat /\ version' >= version
  BY DEF PagedInv, PagedTyped, server
<1>2. \A c \in calls' : c.ver <= version' BY DEF PagedInv, Dated, server
<1> QED BY <1>1, <1>2, PagedKept

LEMMA ObservedStarts ==
  ASSUME PagedTyped, NEW k, Observed(k)
  PROVE  /\ fetch' \in [Keys -> Request] /\ count' \in Nat
         /\ \A j \in Keys : fetch'[j] \in {fetch[j], Asked}
<1>1. CASE UNCHANGED <<fetch, count>> BY <1>1 DEF PagedTyped
<1>2. CASE /\ fetch' = [fetch EXCEPT ![k] = IF @ = Idle THEN Asked ELSE @]
           /\ UNCHANGED count \/ Event
  <2>1. count' \in Nat BY <1>2 DEF PagedTyped, Event
  <2>2. fetch' \in [Keys -> Request] BY <1>2, AskedFacts DEF PagedTyped
  <2>3. \A j \in Keys : fetch'[j] \in {fetch[j], Asked} BY <1>2 DEF PagedTyped
  <2> QED BY <2>1, <2>2, <2>3
<1> QED BY <1>1, <1>2 DEF Observed

LEMMA ShowsInv ==
  ASSUME PagedInv, NEW new \in Component, Asks(new), Shows(new)
  PROVE  PagedInv'
<1>1. PICK k : k = <<new.search, new.offset>> OBVIOUS
<1>2. /\ ui' = [new EXCEPT !.last = IF cache[k].loaded THEN k ELSE @]
      /\ Observed(k) /\ UNCHANGED <<calls, server, cache, acked>>
  BY <1>1 DEF Shows
<1>3. k \in Keys BY <1>1, KeyOf
<1>4. ui' \in Component BY <1>2, <1>3 DEF Component
<1>5. Asks(ui') BY <1>2 DEF Asks, Component
<1>6. PagedTyped BY DEF PagedInv
<1>7. /\ fetch' \in [Keys -> Request] /\ count' \in Nat
      /\ \A j \in Keys : fetch'[j] \in {fetch[j], Asked}
  BY <1>2, <1>6, ObservedStarts
<1> QED BY <1>2, <1>4, <1>5, <1>7, Starts

LEMMA RefetchInv ==
  ASSUME PagedInv, Refetch, count' \in Nat
  PROVE  PagedInv'
<1>1. /\ ui' = ui /\ ui \in Component /\ Asks(ui) /\ fetch \in [Keys -> Request]
      /\ UNCHANGED <<calls, server, cache, acked>>
  BY DEF PagedInv, PagedTyped, Refetch
<1>2. \A k \in Keys : fetch'[k] \in {fetch[k], Asked} BY <1>1 DEF Refetch
<1>3. fetch' \in [Keys -> Request] BY <1>1, AskedFacts DEF Refetch
<1> QED BY <1>1, <1>2, <1>3, Starts

LEMMA SentInv ==
  ASSUME PagedInv, Event, NEW c \in Write, c.ver = 0, calls' = calls \union {c},
         UNCHANGED <<server, query, acked>>, ui' \in Component, Asks(ui')
  PROVE  PagedInv'
<1>1. /\ fetch' \in [Keys -> Request] /\ calls' \subseteq Write /\ version' \in Nat
      /\ version' >= version /\ cache' = cache /\ count' \in Nat
  BY DEF PagedInv, PagedTyped, server, query, Event
<1>2. \A d \in calls' : d.ver <= version' BY <1>1 DEF PagedInv, Dated, server, PagedTyped
<1>3. \A k \in Keys : fetch'[k] \in {fetch[k], Asked} BY DEF query
<1> QED BY <1>1, <1>2, <1>3, PagedKept
-----------------------------------------------------------------------------
(* The cache's own steps.                                                     *)
LEMMA ResultTyped == ASSUME PagedTyped, NEW k PROVE Result(k) \in Rows /\ Result(k).ver = version
<1>1. PICK all : all = Matching(k[1]) OBVIOUS
<1>2. all \subseteq Ids BY <1>1 DEF Matching
<1>3. Cardinality(all) \in Nat BY <1>2, PagedAssumption, FS_Subset, FS_CardinalityType
<1>4. PICK shown : shown = {i \in all : /\ Cardinality({j \in all : j >= i}) > (k[2] - 1) * PAGE_SIZE
                                        /\ Cardinality({j \in all : j >= i}) <= k[2] * PAGE_SIZE}
  OBVIOUS
<1>5. shown \subseteq Ids BY <1>2, <1>4
<1>6. Result(k) = [rows |-> shown, total |-> Cardinality(all), ver |-> version]
  BY <1>1, <1>4 DEF Result
<1> QED BY <1>3, <1>5, <1>6 DEF PagedTyped, Rows

(* One key's request or entry changes, and stays dated.                       *)
LEMMA OneKey ==
  ASSUME PagedInv, UNCHANGED <<calls, server, acked>>, count' \in Nat, NEW k \in Keys,
         NEW f \in Request, fetch' = [fetch EXCEPT ![k] = f], Reads(f, acked),
         NEW e \in Entry, cache' = [cache EXCEPT ![k] = e], Current(e, acked),
         ui' \in Component, Asks(ui')
  PROVE  PagedInv'
<1>1. PagedTyped' BY DEF PagedInv, PagedTyped, server
<1>2. ASSUME NEW j \in Keys PROVE Reads(fetch'[j], acked') /\ Current(cache'[j], acked')
  BY DEF PagedInv, PagedTyped, Dated
<1>3. Dated' BY <1>2 DEF PagedInv, Dated, server
<1>4. Asks(ui)' OBVIOUS
<1> QED BY <1>1, <1>3, <1>4 DEF PagedInv

LEMMA Unchanged == ASSUME PagedTyped, NEW k \in Keys
                   PROVE /\ cache = [cache EXCEPT ![k] = cache[k]] /\ cache[k] \in Entry
                         /\ fetch[k] \in Request
BY DEF PagedTyped

LEMMA ReadKeyInv == ASSUME PagedInv, NEW k \in Keys, ReadKey(k) PROVE PagedInv'
<1>1. PagedTyped /\ ui \in Component /\ Asks(ui) /\ count \in Nat /\ acked <= version
  BY DEF PagedInv, PagedTyped, Dated
<1>2. PICK r : r = Result(k) OBVIOUS
<1>3. r \in Rows /\ r.ver = version BY <1>1, <1>2, ResultTyped
<1>4. PICK b \in BOOLEAN : b = fetch[k].raced
  <2>1. fetch[k] \in Request /\ fetch[k].state = "asked" BY <1>1, Unchanged DEF ReadKey
  <2> QED BY <2>1 DEF Request, Idle
<1>5. PICK f : f = [state |-> "read", result |-> r, raced |-> b] OBVIOUS
<1>6. fetch' = [fetch EXCEPT ![k] = f] BY <1>1, <1>2, <1>4, <1>5 DEF ReadKey, PagedTyped
<1>7. f \in Request BY <1>3, <1>5 DEF Request
<1>8. Reads(f, acked) BY <1>1, <1>3, <1>5 DEF Reads
<1>9. /\ UNCHANGED <<calls, server, acked, ui, count>>
      /\ cache' = [cache EXCEPT ![k] = cache[k]] /\ cache[k] \in Entry
  BY <1>1, Unchanged DEF ReadKey
<1>10. Current(cache[k], acked) BY DEF PagedInv, Dated
<1> QED BY <1>1, <1>6, <1>7, <1>8, <1>9, <1>10, OneKey

LEMMA LoadedInv == ASSUME PagedInv, NEW k \in Keys, Loaded(k) PROVE PagedInv'
<1>1. PagedTyped /\ ui \in Component /\ Asks(ui) /\ count \in Nat
  BY DEF PagedInv, PagedTyped
<1>2. PICK f \in Request : f = fetch[k] BY <1>1, Unchanged
<1>3. f.state = "read" BY <1>2 DEF Loaded
<1>4. f.result \in Rows /\ f.raced \in BOOLEAN BY <1>3 DEF Request, Idle
<1>5. PICK e : e = [result |-> f.result, loaded |-> TRUE, stale |-> FALSE, error |-> FALSE,
                    raced |-> f.raced]
  OBVIOUS
<1>6. e \in Entry BY <1>4, <1>5 DEF Entry
<1>7. Reads(f, acked) BY <1>2 DEF PagedInv, Dated
<1>8. Current(e, acked) BY <1>3, <1>5, <1>7 DEF Reads, Current
<1>9. /\ cache' = [cache EXCEPT ![k] = e] /\ fetch' = [fetch EXCEPT ![k] = Idle]
      /\ UNCHANGED <<calls, server, acked, count>>
  BY <1>2, <1>5 DEF Loaded
<1>10. ui' \in Component /\ Asks(ui')
  <2>1. ui' = ui \/ ui' = [ui EXCEPT !.last = k] BY DEF Loaded
  <2> QED BY <1>1, <2>1 DEF Component, Asks
<1>11. Idle \in Request /\ Reads(Idle, acked) BY AskedFacts DEF Reads
<1> QED BY <1>1, <1>6, <1>8, <1>9, <1>10, <1>11, OneKey

LEMMA LoadFailedInv == ASSUME PagedInv, NEW k \in Keys, LoadFailed(k) PROVE PagedInv'
<1>1. PagedTyped /\ ui' = ui /\ ui \in Component /\ Asks(ui) /\ count' \in Nat
  BY DEF PagedInv, PagedTyped, LoadFailed, Event
<1>2. cache[k] \in Entry BY <1>1, Unchanged
<1>3. PICK e : e = [cache[k] EXCEPT !.error = TRUE, !.stale = TRUE] OBVIOUS
<1>4. e \in Entry /\ e.stale BY <1>2, <1>3 DEF Entry
<1>5. Current(e, acked) BY <1>4 DEF Current
<1>6. /\ cache' = [cache EXCEPT ![k] = e] /\ fetch' = [fetch EXCEPT ![k] = Idle]
      /\ UNCHANGED <<calls, server, acked>>
  BY <1>1, <1>3 DEF LoadFailed, PagedTyped
<1>7. Idle \in Request /\ Reads(Idle, acked) BY AskedFacts DEF Reads
<1> QED BY <1>1, <1>4, <1>5, <1>6, <1>7, OneKey

(* A write is acknowledged: every entry is marked, and a request that is not  *)
(* dropped is raced.                                                          *)
LEMMA AcknowledgedInv ==
  ASSUME PagedInv, NEW c \in calls, Acknowledged(c), ui' \in Component, Asks(ui')
  PROVE  PagedInv'
<1>1. /\ PagedTyped /\ cache \in [Keys -> Entry] /\ fetch \in [Keys -> Request]
      /\ c \in Write /\ c.ver <= version /\ acked <= version /\ c.ver \in Nat
  BY DEF PagedInv, PagedTyped, Dated, Write
<1>2. acked' \in Nat /\ acked' <= version BY <1>1 DEF Acknowledged, PagedTyped
<1>3. ASSUME NEW k \in Keys
      PROVE  cache'[k] \in Entry /\ cache'[k].stale /\ fetch'[k] \in Request /\ Reads(fetch'[k], acked')
  <2>1. cache'[k] = [cache[k] EXCEPT !.stale = TRUE] BY DEF Acknowledged, Invalidated
  <2>2. cache'[k] \in Entry /\ cache'[k].stale BY <1>1, <2>1 DEF Entry
  <2>3. fetch'[k] \in {Asked, Idle} \/ (fetch[k] # Idle /\ fetch'[k] = [fetch[k] EXCEPT !.raced = TRUE])
    BY DEF Acknowledged, Invalidated
  <2>4. CASE fetch'[k] \in {Asked, Idle} BY <2>2, <2>4, AskedFacts DEF Reads
  <2>5. CASE fetch[k] # Idle /\ fetch'[k] = [fetch[k] EXCEPT !.raced = TRUE]
    <3>1. fetch'[k] \in Request /\ fetch'[k].raced BY <1>1, <2>5 DEF Request
    <3> QED BY <2>2, <3>1 DEF Reads
  <2> QED BY <2>3, <2>4, <2>5
<1>4. cache' \in [Keys -> Entry] /\ fetch' \in [Keys -> Request]
  <2>1. /\ cache' = [k \in Keys |-> cache'[k]] /\ fetch' = [k \in Keys |-> fetch'[k]]
    BY DEF Acknowledged, Invalidated
  <2> QED BY <1>3, <2>1
<1>5. calls' \subseteq calls /\ version' = version /\ count' = count BY DEF Acknowledged, server
<1>6. PagedTyped' BY <1>1, <1>2, <1>4, <1>5 DEF PagedTyped
<1>7. \A k \in Keys : Reads(fetch'[k], acked') /\ Current(cache'[k], acked') BY <1>3 DEF Current
<1>8. \A d \in calls' : d.ver <= version' BY <1>5 DEF PagedInv, Dated
<1>9. Dated' BY <1>2, <1>5, <1>7, <1>8 DEF Dated
<1>10. Asks(ui)' OBVIOUS
<1> QED BY <1>6, <1>9, <1>10 DEF PagedInv
-----------------------------------------------------------------------------
(* The pages' steps.                                                          *)
LEMMA Now == ASSUME PagedInv PROVE /\ PagedTyped /\ ui \in Component /\ Asks(ui) /\ count \in Nat
                                   /\ Key \in Keys
<1>1. PagedTyped /\ ui \in Component /\ Asks(ui) /\ count \in Nat BY DEF PagedInv, PagedTyped
<1> QED BY <1>1, KeyOf DEF Key

LEMMA ListedRows == ASSUME PagedInv PROVE RulesListed \subseteq Ids
<1>1. PagedTyped /\ ui \in Component /\ Key \in Keys BY Now
<1>2. cache \in [Keys -> Entry] /\ ui.last \in {<<>>} \union Keys BY <1>1 DEF PagedTyped, Component
<1>3. Nothing \in Rows BY DEF Nothing, Rows
<1>4. \A k \in Keys : cache[k].result \in Rows BY <1>2 DEF Entry
<1>5. RulesShown \in Rows BY <1>1, <1>2, <1>3, <1>4 DEF RulesShown
<1> QED BY <1>5 DEF RulesListed, Rows

(* A change of the component that leaves the dialog shut, or empties it.      *)
LEMMA UIInv == ASSUME PagedInv, NEW new \in Component, Asks(new), UI(new) PROVE PagedInv'
<1>1. count' \in Nat BY Now DEF UI
<1> QED BY <1>1, ComponentOnly DEF UI

LEMMA ToolbarInv == ASSUME PagedInv, RulesToolbar PROVE PagedInv'
<1>1. ui \in Component /\ Asks(ui) /\ count \in Nat BY Now
<1>2. ASSUME NEW text \in Texts, TypeSearch(text) PROVE PagedInv'
  <2>1. /\ ui' = [ui EXCEPT !.query = text, !.timer = <<text>>]
        /\ UNCHANGED <<calls, server, query, acked>> /\ count' \in Nat
    BY <1>1, <1>2 DEF TypeSearch, Event
  <2>2. ui' \in Component /\ Asks(ui') BY <1>1, <2>1 DEF Component, Asks
  <2> QED BY <2>1, <2>2, ComponentOnly
<1>3. CASE RulesRefetch
  <2>1. count' \in Nat BY <1>1, <1>3 DEF RulesRefetch, Event
  <2> QED BY <1>3, <2>1, RefetchInv DEF RulesRefetch
<1>4. CASE AskDelete
  <2>1. PICK new : new = [ui EXCEPT !.confirm = TRUE, !.asked = ui.selected] OBVIOUS
  <2>2. new \in Component /\ Asks(new) BY <1>1, <2>1 DEF Component, Asks
  <2> QED BY <1>4, <2>1, <2>2, UIInv DEF AskDelete
<1>5. CASE OpenCreate
  <2>1. PICK new : new = [ui EXCEPT !.dialog = "create"] OBVIOUS
  <2>2. new \in Component /\ Asks(new) BY <1>1, <2>1 DEF Component, Asks
  <2> QED BY <1>5, <2>1, <2>2, UIInv DEF OpenCreate
<1>6. ASSUME NEW kind \in {"enable", "disable"}, BulkSwitch(kind) PROVE PagedInv'
  <2>1. PICK c : c = [n |-> count + 1, kind |-> kind, ids |-> ui.selected, text |-> All,
                      mine |-> TRUE, state |-> "sent", ver |-> 0]
    OBVIOUS
  <2>2. c \in Write /\ c.ver = 0 BY <1>1, <2>1 DEF Write, Component, Texts
  <2>3. /\ Event /\ calls' = calls \union {c} /\ UNCHANGED <<server, query, acked>>
        /\ ui' = [ui EXCEPT !.latest = count + 1]
    BY <1>6, <2>1 DEF BulkSwitch, Bulk
  <2>4. ui' \in Component /\ Asks(ui') BY <1>1, <2>3 DEF Component, Asks
  <2> QED BY <2>2, <2>3, <2>4, SentInv
<1> QED BY <1>2, <1>3, <1>4, <1>5, <1>6 DEF RulesToolbar

LEMMA TableInv == ASSUME PagedInv, RulesTable PROVE PagedInv'
<1>1. /\ ui \in Component /\ Asks(ui) /\ count \in Nat
      /\ RulesListed \subseteq Ids
  BY Now, ListedRows
<1>2. ASSUME NEW i \in Ids, SelectRule(i) PROVE PagedInv'
  <2>1. PICK new : new = [ui EXCEPT !.selected = IF i \in @ THEN @ \ {i} ELSE @ \union {i}] OBVIOUS
  <2>2. new \in Component /\ Asks(new) BY <1>1, <1>2, <2>1 DEF Component, Asks, SelectRule, RulesFree
  <2> QED BY <1>2, <2>1, <2>2, UIInv DEF SelectRule
<1>3. ASSUME NEW i \in Ids, AskDeleteRule(i) PROVE PagedInv'
  <2>1. PICK new : new = [ui EXCEPT !.selected = {i}, !.confirm = TRUE, !.asked = {i}] OBVIOUS
  <2>2. new \in Component /\ Asks(new) BY <1>1, <2>1 DEF Component, Asks
  <2> QED BY <1>3, <2>1, <2>2, UIInv DEF AskDeleteRule
<1>4. CASE SelectAll
  <2>1. PICK new : new = [ui EXCEPT !.selected = IF Cardinality(@) = Cardinality(RulesListed)
                                                 THEN {} ELSE RulesListed] OBVIOUS
  <2>2. new.selected \in SUBSET Ids BY <1>1, <2>1 DEF Component
  <2>3. new \in Component /\ Asks(new)
    BY <1>1, <1>4, <2>1, <2>2 DEF Component, Asks, SelectAll, RulesFree
  <2> QED BY <1>4, <2>1, <2>3, UIInv DEF SelectAll
<1>5. ASSUME NEW n \in PageNos, TurnPage(n) PROVE PagedInv'
  <2>1. PICK new : new = [ui EXCEPT !.page = n, !.offset = n] OBVIOUS
  <2>2. new \in Component /\ Asks(new) BY <1>1, <2>1 DEF Component, Asks
  <2> QED BY <1>5, <2>1, <2>2, ShowsInv DEF TurnPage
<1> QED BY <1>2, <1>3, <1>4, <1>5 DEF RulesTable

LEMMA DialogsInv == ASSUME PagedInv, RulesDialogs PROVE PagedInv'
<1>1. ui \in Component /\ Asks(ui) /\ count \in Nat BY Now
<1>2. CASE KeepRules
  <2>1. PICK new : new = [ui EXCEPT !.confirm = FALSE, !.asked = {}] OBVIOUS
  <2>2. new \in Component /\ Asks(new) BY <1>1, <2>1 DEF Component, Asks
  <2> QED BY <1>2, <2>1, <2>2, UIInv DEF KeepRules
<1>3. CASE DeleteRules
  <2>1. PICK c : c = [n |-> count + 1, kind |-> "delete", ids |-> ui.selected, text |-> All,
                      mine |-> TRUE, state |-> "sent", ver |-> 0]
    OBVIOUS
  <2>2. c \in Write /\ c.ver = 0 BY <1>1, <2>1 DEF Write, Component, Texts
  <2>3. /\ Event /\ calls' = calls \union {c} /\ UNCHANGED <<server, query, acked>>
        /\ ui' = [ui EXCEPT !.latest = count + 1, !.confirm = FALSE, !.asked = {}]
    BY <1>3, <2>1 DEF DeleteRules, Bulk
  <2>4. PICK k \in Nat : k = count + 1 BY <1>1
  <2>5. ui' = [ui EXCEPT !.latest = k, !.confirm = FALSE, !.asked = {}] BY <2>3, <2>4
  <2>6. ui' \in Component BY <1>1, <2>5 DEF Component
  <2>7. Asks(ui') BY <1>1, <2>5 DEF Component, Asks
  <2> QED BY <2>2, <2>3, <2>6, <2>7, SentInv
<1>4. CASE CloseCreate
  <2>1. PICK new : new = [ui EXCEPT !.dialog = "closed"] OBVIOUS
  <2>2. new \in Component /\ Asks(new) BY <1>1, <2>1 DEF Component, Asks
  <2> QED BY <1>4, <2>1, <2>2, UIInv DEF CloseCreate
<1>5. ASSUME NEW text \in Words, CreateRule(text) PROVE PagedInv'
  <2>1. PICK c : c = [n |-> count + 1, kind |-> "create", ids |-> {}, text |-> text,
                      mine |-> TRUE, state |-> "sent", ver |-> 0]
    OBVIOUS
  <2>2. c \in Write /\ c.ver = 0 BY <1>1, <2>1 DEF Write, Texts
  <2>3. /\ Event /\ calls' = calls \union {c} /\ UNCHANGED <<server, query, acked>> /\ ui' = ui
    BY <1>5, <2>1 DEF CreateRule
  <2> QED BY <1>1, <2>2, <2>3, SentInv
<1> QED BY <1>2, <1>3, <1>4, <1>5 DEF RulesDialogs

LEMMA LogsInv == ASSUME PagedInv, LogsUI \/ PollLogs \/ Debounced PROVE PagedInv'
<1>1. ui \in Component /\ Asks(ui) /\ count \in Nat BY Now
<1>2. ASSUME NEW text \in Texts, TypeFilter(text) PROVE PagedInv'
  <2>1. /\ ui' = [ui EXCEPT !.query = text]
        /\ UNCHANGED <<calls, server, query, acked>> /\ count' \in Nat
    BY <1>1, <1>2 DEF TypeFilter, Event
  <2>2. ui' \in Component /\ Asks(ui') BY <1>1, <2>1 DEF Component, Asks
  <2> QED BY <2>1, <2>2, ComponentOnly
<1>3. CASE SearchLogs
  <2>1. PICK new : new = [ui EXCEPT !.search = ui.query, !.page = 1, !.offset = ui.page] OBVIOUS
  <2>2. new \in Component /\ Asks(new) BY <1>1, <2>1, Pages DEF Component, Asks
  <2> QED BY <1>3, <2>1, <2>2, ShowsInv DEF SearchLogs
<1>4. CASE RefreshLogs
  <2>1. count' \in Nat BY <1>1, <1>4 DEF RefreshLogs, Event
  <2> QED BY <1>4, <2>1, RefetchInv DEF RefreshLogs
<1>5. ASSUME NEW n \in PageNos, GoToPage(n) PROVE PagedInv'
  <2>1. PICK new : new = [ui EXCEPT !.page = n, !.offset = n] OBVIOUS
  <2>2. new \in Component /\ Asks(new) BY <1>1, <2>1 DEF Component, Asks
  <2> QED BY <1>5, <2>1, <2>2, ShowsInv DEF GoToPage
<1>6. CASE PollLogs BY <1>1, <1>6, RefetchInv DEF PollLogs
<1>7. CASE Debounced
  <2>1. ui.timer # <<>> BY <1>7 DEF Debounced
  <2>2. PICK t \in Texts : ui.timer = <<t>> BY <1>1, <2>1 DEF Component
  <2>3. ui.timer[1] = t BY <2>2
  <2>4. PICK new : new = [ui EXCEPT !.search = ui.timer[1], !.page = 1, !.offset = 1, !.timer = <<>>]
    OBVIOUS
  <2>5. new \in Component /\ Asks(new) BY <1>1, <2>3, <2>4, Pages DEF Component, Asks
  <2> QED BY <1>7, <2>4, <2>5, ShowsInv DEF Debounced
<1> QED BY <1>2, <1>3, <1>4, <1>5, <1>6, <1>7 DEF LogsUI
-----------------------------------------------------------------------------
(* The server, somebody else, and the answers.                                *)
LEMMA TableChanges ==
  ASSUME PagedInv, UNCHANGED <<query, acked>>, ui' \in Component, Asks(ui'), count' \in Nat,
         version' \in {version, version + 1}, calls' \subseteq Write,
         \A c \in calls' : c \in calls \/ c.ver <= version'
  PROVE  PagedInv'
<1>1. version \in Nat /\ fetch' \in [Keys -> Request] BY DEF PagedInv, PagedTyped, query
<1>2. version' \in Nat /\ version' >= version BY <1>1
<1>3. \A c \in calls : c.ver \in Nat /\ c.ver <= version BY DEF PagedInv, PagedTyped, Dated, Write
<1>4. \A c \in calls' : c.ver <= version' BY <1>1, <1>2, <1>3
<1>5. \A k \in Keys : fetch'[k] \in {fetch[k], Asked} BY DEF query
<1> QED BY <1>1, <1>2, <1>4, <1>5, PagedKept DEF query

LEMMA AnswersTyped ==
  ASSUME PagedTyped, NEW c \in calls, NEW good \in BOOLEAN, Answers(c, good), version' \in Nat
  PROVE  /\ calls' \subseteq Write
         /\ \A d \in calls' : d \in calls \/ (d.ver <= version' /\ d.state # "sent")
<1>1. calls \subseteq Write /\ c \in Write BY DEF PagedTyped
<1>2. PICK d : d = [c EXCEPT !.state = IF good THEN "ok" ELSE "bad", !.ver = version'] OBVIOUS
<1>3. d \in Write /\ d.ver = version' /\ d.state # "sent" BY <1>1, <1>2 DEF Write
<1>4. calls' = (calls \ {c}) \union {d} BY <1>2 DEF Answers
<1> QED BY <1>1, <1>3, <1>4

LEMMA RulesAnswerInv == ASSUME PagedInv, NEW c \in calls, RulesAnswer(c) PROVE PagedInv'
<1>1. PagedTyped /\ ui \in Component /\ Asks(ui) /\ count \in Nat /\ version \in Nat
  BY Now DEF PagedTyped
<1>2. CASE ServeCreate(c) \/ ServeBulk(c) \/ RefuseRule(c)
  <2>1. PICK good \in BOOLEAN : Answers(c, good) BY <1>2 DEF ServeCreate, ServeBulk, RefuseRule
  <2>2. /\ version' \in {version, version + 1} /\ UNCHANGED <<ui, query, acked, count>>
    BY <1>2 DEF ServeCreate, ServeBulk, RefuseRule, RuleServed, server
  <2>3. version' \in Nat BY <1>1, <2>2
  <2>4. calls' \subseteq Write /\ \A d \in calls' : d \in calls \/ d.ver <= version'
    BY <1>1, <2>1, <2>3, AnswersTyped
  <2> QED BY <1>1, <2>2, <2>4, TableChanges
<1>3. CASE BulkDone(c)
  <2>1. ui' = ui \/ ui' = [ui EXCEPT !.selected = {}] BY <1>3 DEF BulkDone
  <2>2. ui' \in Component BY <1>1, <2>1 DEF Component
  <2>3. Asks(ui') BY <1>1, <2>1 DEF Asks, Component
  <2> QED BY <1>3, <2>2, <2>3, AcknowledgedInv DEF BulkDone
<1>4. CASE RuleCreated(c)
  <2>1. ui' = ui \/ ui' = [ui EXCEPT !.dialog = "closed"] BY <1>4 DEF RuleCreated
  <2>2. ui' \in Component /\ Asks(ui') BY <1>1, <2>1 DEF Component, Asks
  <2> QED BY <1>4, <2>2, AcknowledgedInv DEF RuleCreated
<1>5. CASE RuleFailed(c)
  <2>1. /\ calls' \subseteq calls /\ version' = version
        /\ UNCHANGED <<ui, query, acked, count>>
    BY <1>5 DEF RuleFailed, server
  <2>2. calls' \subseteq Write BY <1>1, <2>1 DEF PagedTyped
  <2> QED BY <1>1, <2>1, <2>2, TableChanges
<1> QED BY <1>2, <1>3, <1>4, <1>5 DEF RulesAnswer

LEMMA OthersInv ==
  ASSUME PagedInv, NEW i \in Ids, OtherAdmin(i) \/ \E text \in Words : LogWritten(i, text)
  PROVE  PagedInv'
<1>1. PagedTyped /\ ui \in Component /\ Asks(ui) /\ count \in Nat /\ calls \subseteq Write
  BY Now DEF PagedTyped
<1>2. /\ version' = version + 1 /\ count' \in Nat
      /\ UNCHANGED <<ui, calls, query, acked>>
  BY <1>1 DEF OtherAdmin, LogWritten, Event
<1> QED BY <1>1, <1>2, TableChanges

LEMMA LeaveInv == ASSUME PagedInv, Leave PROVE PagedInv'
<1>1. PagedTyped /\ count \in Nat /\ calls \subseteq Write /\ version \in Nat
  BY Now DEF PagedTyped
<1>2. /\ calls' = {[c EXCEPT !.mine = FALSE] : c \in calls} /\ ui' = Fresh /\ count' \in Nat
      /\ UNCHANGED <<query, acked>> /\ version' = version
  BY <1>1 DEF Leave, Event, server
<1>3. \A c \in calls : [c EXCEPT !.mine = FALSE] \in Write /\ [c EXCEPT !.mine = FALSE].ver = c.ver
  BY <1>1 DEF Write
<1>4. \A c \in calls : c.ver <= version BY DEF PagedInv, Dated
<1>5. calls' \subseteq Write /\ \A c \in calls' : c.ver <= version' BY <1>2, <1>3, <1>4
<1>6. ui' \in Component /\ Asks(ui') BY <1>2, FreshFacts DEF Asks
<1> QED BY <1>2, <1>5, <1>6, TableChanges

LEMMA ReturnInv == ASSUME PagedInv, Return PROVE PagedInv'
<1>1. PagedTyped /\ Key \in Keys BY Now
<1>2. PICK k \in Keys : k = Key BY <1>1
<1>3. /\ ui' = [Fresh EXCEPT !.last = IF cache[k].loaded THEN k ELSE @]
      /\ Observed(k) /\ UNCHANGED <<calls, server, cache, acked>>
  BY <1>2 DEF Return
<1>4. ui' \in Component BY <1>3, FreshFacts DEF Component
<1>5. Asks(ui') BY <1>3, FreshFacts DEF Asks, Component
<1>6. /\ fetch' \in [Keys -> Request] /\ count' \in Nat
      /\ \A j \in Keys : fetch'[j] \in {fetch[j], Asked}
  BY <1>1, <1>3, ObservedStarts
<1> QED BY <1>3, <1>4, <1>5, <1>6, Starts

(* Whatever the pages, the server and others do, the cache stays dated.       *)
THEOREM PagedInvariance == Spec => []PagedInv
<1>1. PagedInv /\ UNCHANGED vars => PagedInv'
  <2> SUFFICES ASSUME PagedInv, UNCHANGED vars PROVE PagedInv' OBVIOUS
  <2>1. ui \in Component /\ Asks(ui) /\ count \in Nat BY Now
  <2> QED BY <2>1, ComponentOnly DEF vars, server, query
<1>2. PagedInv /\ Next => PagedInv'
  <2> SUFFICES ASSUME PagedInv, Next PROVE PagedInv' OBVIOUS
  <2>1. CASE RulesUI BY <2>1, ToolbarInv, TableInv, DialogsInv DEF RulesUI
  <2>2. CASE LogsUI \/ Debounced \/ PollLogs BY <2>2, LogsInv
  <2>3. CASE \E c \in calls : RulesAnswer(c) BY <2>3, RulesAnswerInv
  <2>4. CASE \E k \in Keys : ReadKey(k) \/ Loaded(k) \/ LoadFailed(k)
    BY <2>4, ReadKeyInv, LoadedInv, LoadFailedInv
  <2>5. CASE \E i \in Ids : OtherAdmin(i) \/ \E text \in Words : LogWritten(i, text)
    BY <2>5, OthersInv
  <2>6. CASE Leave \/ Return BY <2>6, LeaveInv, ReturnInv
  <2> QED BY <2>1, <2>2, <2>3, <2>4, <2>5, <2>6 DEF Next
<1> QED BY <1>1, <1>2, PagedInitially, PTL DEF Spec

(* After an answered write no entry of any search and page passes for fresh   *)
(* with rows from before it, unless a request nobody cancels was under way.   *)
THEOREM FreshAfterBulk == Spec => []OwnBulkShown
<1>1. PagedInv => OwnBulkShown BY DEF PagedInv, PagedTyped, Dated, Current, OwnBulkShown
<1> QED BY <1>1, PagedInvariance, PTL

(* A delete is sent for the rows its dialog was opened for.                   *)
THEOREM DeletesWhatWasAsked == Spec => DeletesAsAsked
<1> DEFINE Prop == \A c \in calls' \ calls : c.kind = "delete" /\ c.state = "sent" /\ c.mine
                                              => c.ids = ui.asked
<1>1. PagedInv /\ Next => Prop
  <2> SUFFICES ASSUME PagedInv, Next, NEW d \in calls' \ calls,
                      d.kind = "delete", d.state = "sent", d.mine
               PROVE  d.ids = ui.asked
    OBVIOUS
  <2>1. PagedTyped /\ ui \in Component /\ Asks(ui) /\ version \in Nat BY Now DEF PagedTyped
  <2>2. calls' # calls OBVIOUS
  <2>3. ~LogsUI /\ ~Debounced /\ ~PollLogs /\ ~Return /\ ~RulesTable
    BY <2>2 DEF LogsUI, TypeFilter, SearchLogs, RefreshLogs, GoToPage, Shows, Refetch, PollLogs,
                Debounced, Return, RulesTable, SelectRule, AskDeleteRule, SelectAll, TurnPage, UI
  <2>4. CASE RulesToolbar
    <3>1. PICK kind \in {"enable", "disable"} : BulkSwitch(kind)
      BY <2>2, <2>4 DEF RulesToolbar, TypeSearch, RulesRefetch, Refetch, AskDelete, OpenCreate, UI
    <3>2. d.kind = kind BY <3>1 DEF BulkSwitch, Bulk
    <3> QED BY <3>1, <3>2
  <2>5. CASE RulesDialogs
    <3>1. ~KeepRules /\ ~CloseCreate BY <2>2 DEF KeepRules, CloseCreate, UI
    <3>2. ~\E text \in Words : CreateRule(text) BY DEF CreateRule
    <3>3. DeleteRules BY <2>5, <3>1, <3>2 DEF RulesDialogs
    <3>4. d.ids = ui.selected /\ ui.confirm /\ ui.selected # {} BY <3>3 DEF DeleteRules, Bulk
    <3> QED BY <2>1, <3>4 DEF Asks
  <2>6. CASE \E c \in calls : RulesAnswer(c)
    <3>1. PICK c \in calls : RulesAnswer(c) BY <2>6
    <3>2. ~BulkDone(c) /\ ~RuleCreated(c) /\ ~RuleFailed(c)
      BY DEF BulkDone, RuleCreated, RuleFailed, Acknowledged
    <3>3. ServeCreate(c) \/ ServeBulk(c) \/ RefuseRule(c) BY <3>1, <3>2 DEF RulesAnswer
    <3>4. PICK good \in BOOLEAN : Answers(c, good) BY <3>3 DEF ServeCreate, ServeBulk, RefuseRule
    <3>5. version' \in {version, version + 1}
      BY <3>3 DEF ServeCreate, ServeBulk, RefuseRule, server
    <3>6. version' \in Nat BY <2>1, <3>5
    <3> QED BY <2>1, <3>4, <3>6, AnswersTyped
  <2>7. ~\E k \in Keys : ReadKey(k) \/ Loaded(k) \/ LoadFailed(k)
    BY <2>2 DEF ReadKey, Loaded, LoadFailed
  <2>8. ~\E i \in Ids : OtherAdmin(i) \/ \E text \in Words : LogWritten(i, text)
    BY <2>2 DEF OtherAdmin, LogWritten
  <2>9. CASE Leave
    <3>1. PICK c \in calls : d = [c EXCEPT !.mine = FALSE] BY <2>9 DEF Leave
    <3>2. c \in Write BY <2>1 DEF PagedTyped
    <3>3. ~d.mine BY <3>1, <3>2 DEF Write
    <3> QED BY <3>3
  <2> QED BY <2>3, <2>4, <2>5, <2>6, <2>7, <2>8, <2>9 DEF Next, RulesUI
<1>2. PagedInv /\ [Next]_vars => [Prop]_vars
  <2>1. PagedInv /\ Next => Prop BY <1>1
  <2> HIDE DEF Prop
  <2> QED BY <2>1
<1>3. Spec => []PagedInv BY PagedInvariance
<1> HIDE DEF Prop
<1>4. PagedInv /\ [Next]_vars => [Prop]_vars BY <1>2
<1>5. Spec => [][Prop]_vars BY <1>3, <1>4, PTL DEF Spec
<1> QED BY <1>5 DEF Prop, DeletesAsAsked
=============================================================================
