---------------------------- MODULE ConsoleProofs ----------------------------
(* Theorems of Console, for any pages, rows and number of mutations, loads    *)
(* and administrators: which lists may pass for fresh after a write of the    *)
(* console was answered, and when a selection to delete goes away.            *)
EXTENDS Console, TLAPS

Said == Bodies \union Roles \union {Blank, "gone", "absent", "operator", "read_only"}
TableRow == [body : Said, on : BOOLEAN, synced : BOOLEAN]
Table == [Ids -> TableRow]
CacheEntry == [loaded : BOOLEAN, rows : Table, ver : Nat, stale : BOOLEAN, error : BOOLEAN,
               raced : BOOLEAN]
Request == {Idle} \union [state : {"asked"}, raced : BOOLEAN]
                  \union [state : {"read"}, rows : Table, ver : Nat, raced : BOOLEAN]
Kinds == {"create", "update", "delete", "toggle", "refresh", "refreshAll", "test"}
Targets == Ids \union {None, New}
Mutation == [n : Nat, page : Pages, kind : Kinds, row : TableRow, mine : BOOLEAN,
             ids : SUBSET Targets, todo : SUBSET Targets, ok : SUBSET Targets,
             bad : SUBSET Targets, failed : BOOLEAN, ver : Nat]
Component == [form : TableRow, role : Said, dialog : {"closed", "create", "edit"},
              editing : Ids \union {None}, selected : SUBSET Ids, confirm : BOOLEAN,
              target : Ids \union {None}, refreshing : Ids \union {None}, refreshingAll : BOOLEAN]
Counts == [sent : Nat, faults : Nat, visits : Nat]

ConsoleTyped ==
    /\ page \in Pages /\ ui \in Component /\ calls \subseteq Mutation /\ count \in Counts
    /\ db \in [Pages -> Table] /\ version \in [Pages -> Nat] /\ acked \in [Pages -> Nat]
    /\ cache \in [Pages -> CacheEntry] /\ fetch \in [Pages -> Request]

(* A request of a mutation is waiting or answered, never both, and no answer  *)
(* is ahead of the table.                                                     *)
Sound(c, versions) == c.ver <= versions[c.page] /\ c.todo \cap c.ok = {}

(* A load that no write overtook, and the list such a load filled, are as new *)
(* as every write that was answered.                                          *)
Reads(f, n) == f.state = "read" /\ ~f.raced => f.ver >= n
Current(e, n) == e.loaded /\ ~e.stale /\ ~e.raced => e.ver >= n
Dated ==
    /\ \A c \in calls : Sound(c, version)
    /\ \A p \in Pages : /\ acked[p] <= version[p]
                        /\ Reads(fetch[p], acked[p]) /\ Current(cache[p], acked[p])

ConsoleInv == ConsoleTyped /\ Dated

(* What KeptOnFailure asks of a step.                                         *)
Keeps == calls' # calls /\ page' = page /\ ui.selected # {} /\ ui'.selected = {}
         => \E c \in calls \ calls' : c.kind = "delete" /\ ~c.failed /\ c.bad \union c.todo = {}
-----------------------------------------------------------------------------
LEMMA AskedFacts == /\ Asked \in Request /\ Asked.state = "asked" /\ Asked # Idle
                    /\ Idle \in Request /\ Idle.state = "idle"
BY DEF Asked, Idle, Request

LEMMA RowFacts ==
  /\ \A b \in Said, on \in BOOLEAN : RowOf(b, on) \in TableRow
  /\ Gone \in TableRow /\ Absent \in TableRow
BY DEF RowOf, TableRow, Gone, Absent, Said

LEMMA FreshFacts == ASSUME NEW p PROVE Fresh(p) \in Component
<1>1. RowOf(IF p = "users" THEN "operator" ELSE Blank, TRUE) \in TableRow
  BY RowFacts DEF Said
<1> QED BY <1>1 DEF Fresh, Component, Said

LEMMA ClosedFacts ==
  ASSUME NEW u \in Component
  PROVE  Closed(u) \in Component /\ Closed(u).selected = u.selected
BY DEF Closed, Component

LEMMA ConsoleInitially == Init => ConsoleInv
<1> SUFFICES ASSUME Init PROVE ConsoleInv OBVIOUS
<1>1. [i \in Ids |-> Absent] \in Table BY RowFacts DEF Table
<1>2. PICK e : e = [loaded |-> FALSE, rows |-> [i \in Ids |-> Absent], ver |-> 0,
                    stale |-> TRUE, error |-> FALSE, raced |-> FALSE] OBVIOUS
<1>3. e \in CacheEntry /\ e.stale BY <1>1, <1>2 DEF CacheEntry
<1>4. cache = [p \in Pages |-> e] BY <1>2 DEF Init, ListInit
<1>5. fetch \in [Pages -> Request] /\ \A p \in Pages : fetch[p] \in {Asked, Idle}
  BY AskedFacts DEF Init, ListInit
<1>6. db \in [Pages -> Table] BY SeedsAssumption DEF Init, ListInit, TableRow, Table, Said
<1>7. ConsoleTyped
  BY <1>3, <1>4, <1>5, <1>6, FreshFacts DEF Init, ListInit, ConsoleTyped, Counts
<1>8. Dated BY <1>3, <1>4, <1>5, AskedFacts DEF Init, ListInit, Dated, Reads, Current
<1> QED BY <1>7, <1>8 DEF ConsoleInv

(* A step that fills no list and acknowledges no write: whatever it does to   *)
(* the component, the mutations and the tables, a load goes on or starts anew.*)
LEMMA Kept ==
  ASSUME ConsoleInv, cache' = cache, acked' = acked, page' \in Pages, ui' \in Component,
         calls' \subseteq Mutation, count' \in Counts, db' \in [Pages -> Table],
         version' \in [Pages -> Nat], \A p \in Pages : version'[p] >= version[p],
         fetch' \in [Pages -> Request], \A p \in Pages : fetch'[p] \in {fetch[p], Asked},
         \A c \in calls' : Sound(c, version')
  PROVE  ConsoleInv'
<1>1. ConsoleTyped' BY DEF ConsoleInv, ConsoleTyped
<1>2. ASSUME NEW p \in Pages
      PROVE  /\ acked'[p] <= version'[p]
             /\ Reads(fetch'[p], acked'[p]) /\ Current(cache'[p], acked'[p])
  <2>1. acked[p] <= version[p] /\ Reads(fetch[p], acked[p]) /\ Current(cache[p], acked[p])
    BY DEF ConsoleInv, Dated
  <2>2. acked[p] \in Nat /\ version[p] \in Nat /\ version'[p] \in Nat
    BY DEF ConsoleInv, ConsoleTyped
  <2>3. fetch'[p] = fetch[p] \/ fetch'[p] = Asked OBVIOUS
  <2>4. Reads(fetch'[p], acked'[p]) BY <2>1, <2>3, AskedFacts DEF Reads
  <2> QED BY <2>1, <2>2, <2>4
<1>3. Dated' BY <1>2 DEF Dated
<1> QED BY <1>1, <1>3 DEF ConsoleInv

LEMMA RacedRequest ==
  ASSUME NEW f \in Request, f # Idle
  PROVE  [f EXCEPT !.raced = TRUE] \in Request /\ [f EXCEPT !.raced = TRUE].raced
<1>1. CASE f \in [state : {"asked"}, raced : BOOLEAN] BY <1>1 DEF Request
<1>2. CASE f \in [state : {"read"}, rows : Table, ver : Nat, raced : BOOLEAN] BY <1>2 DEF Request
<1> QED BY <1>1, <1>2 DEF Request

(* invalidateQueries of a page, with or without a write acknowledged.         *)
LEMMA InvalidatedInv ==
  ASSUME ConsoleInv, NEW p, Invalidated(p), UNCHANGED <<page, server>>,
         ui' \in Component, calls' \subseteq Mutation, count' \in Counts,
         \A c \in calls' : Sound(c, version'),
         acked' \in [Pages -> Nat], \A q \in Pages : acked'[q] = acked[q] \/ q = p,
         \A q \in Pages : acked'[q] <= version[q]
  PROVE  ConsoleInv'
<1>1. ConsoleTyped /\ cache \in [Pages -> CacheEntry] /\ fetch \in [Pages -> Request]
  BY DEF ConsoleInv, ConsoleTyped
<1>2. ASSUME NEW q \in Pages
      PROVE  /\ cache'[q] \in CacheEntry /\ fetch'[q] \in Request
             /\ Reads(fetch'[q], acked'[q]) /\ Current(cache'[q], acked'[q])
  <2>1. CASE q # p
    <3>1. cache'[q] = cache[q] /\ fetch'[q] = fetch[q] /\ acked'[q] = acked[q]
      BY <1>1, <2>1 DEF Invalidated
    <3> QED BY <1>1, <3>1 DEF ConsoleInv, Dated
  <2>2. CASE q = p
    <3>1. cache'[q] = [cache[q] EXCEPT !.stale = TRUE] BY <1>1, <2>2 DEF Invalidated
    <3>2. cache'[q] \in CacheEntry /\ cache'[q].stale BY <1>1, <3>1 DEF CacheEntry
    <3>3. fetch'[q] \in {Asked, Idle} \/ (fetch[q] # Idle /\ fetch'[q] = [fetch[q] EXCEPT !.raced = TRUE])
      BY <1>1, <2>2 DEF Invalidated
    <3>4. fetch'[q] \in Request /\ Reads(fetch'[q], acked'[q])
      <4>1. CASE fetch'[q] \in {Asked, Idle} BY <4>1, AskedFacts DEF Reads
      <4>2. CASE fetch[q] # Idle /\ fetch'[q] = [fetch[q] EXCEPT !.raced = TRUE]
        <5>1. fetch'[q] \in Request /\ fetch'[q].raced BY <1>1, <4>2, RacedRequest
        <5> QED BY <5>1 DEF Reads
      <4> QED BY <3>3, <4>1, <4>2
    <3> QED BY <3>2, <3>4 DEF Current
  <2> QED BY <2>1, <2>2
<1>3. cache' \in [Pages -> CacheEntry] /\ fetch' \in [Pages -> Request]
  <2>1. /\ cache' = [q \in Pages |-> cache'[q]] /\ fetch' = [q \in Pages |-> fetch'[q]]
    BY <1>1 DEF Invalidated
  <2> QED BY <1>2, <2>1
<1>4. ConsoleTyped' BY <1>1, <1>3 DEF ConsoleTyped, server
<1>5. Dated' BY <1>2 DEF Dated, server
<1> QED BY <1>4, <1>5 DEF ConsoleInv
-----------------------------------------------------------------------------
(* What the operators the actions share make of mutations and tables.         *)
LEMMA Now == ASSUME ConsoleInv
             PROVE  /\ ConsoleTyped /\ page \in Pages /\ ui \in Component /\ count \in Counts
                    /\ calls \subseteq Mutation /\ \A c \in calls : Sound(c, version)
BY DEF ConsoleInv, ConsoleTyped, Dated

LEMMA WithinTyped ==
  ASSUME ConsoleTyped, NEW bound, NEW what \in {"sent", "faults", "visits"}, Within(what, bound)
  PROVE  count' \in Counts
<1>1. count \in Counts /\ count' = [count EXCEPT ![what] = @ + 1] BY DEF ConsoleTyped, Within
<1>2. CASE what = "sent" BY <1>1, <1>2 DEF Counts
<1>3. CASE what = "faults" BY <1>1, <1>3 DEF Counts
<1>4. CASE what = "visits" BY <1>1, <1>4 DEF Counts
<1> QED BY <1>2, <1>3, <1>4

LEMMA SendsSound ==
  ASSUME ConsoleInv, NEW kind \in Kinds, NEW ids \in SUBSET Targets, NEW row \in TableRow,
         Sends(kind, ids, row)
  PROVE  /\ count' \in Counts /\ calls' \subseteq Mutation /\ \A c \in calls' : Sound(c, version)
<1>1. ConsoleTyped /\ page \in Pages /\ count.sent \in Nat /\ calls \subseteq Mutation
      /\ version[page] \in Nat
  BY Now DEF Counts, ConsoleTyped
<1>2. PICK n \in Nat : n = count.sent BY <1>1
<1>3. PICK d : d = [n |-> n, page |-> page, kind |-> kind, row |-> row, mine |-> TRUE,
                    ids |-> ids, todo |-> ids, ok |-> {}, bad |-> {}, failed |-> FALSE, ver |-> 0]
  OBVIOUS
<1>4. d \in Mutation BY <1>1, <1>3 DEF Mutation
<1>5. Sound(d, version) BY <1>1, <1>3 DEF Sound
<1>6. calls' = calls \union {d} BY <1>2, <1>3 DEF Sends
<1>7. count' \in Counts BY <1>1, WithinTyped DEF Sends
<1> QED BY <1>1, <1>4, <1>5, <1>6, <1>7, Now

LEMMA AnsweredSound ==
  ASSUME ConsoleInv, NEW c \in calls, NEW i, Answered(c, i)
  PROVE  /\ calls' \subseteq Mutation /\ \A d \in calls' : Sound(d, version)
<1>1. calls \subseteq Mutation /\ c \in Mutation /\ Sound(c, version) BY Now
<1>2. PICK d : d = [c EXCEPT !.ok = @ \ {i}, !.bad = @ \ {i}, !.failed = @ \/ i \in c.bad] OBVIOUS
<1>3. d.ok = c.ok \ {i} /\ d.todo = c.todo /\ d.ver = c.ver /\ d.page = c.page
  BY <1>1, <1>2 DEF Mutation
<1>4. d \in Mutation
  <2>1. PICK b : b = c.bad \ {i} OBVIOUS
  <2>2. PICK o : o = c.ok \ {i} OBVIOUS
  <2>3. b \in SUBSET Targets /\ o \in SUBSET Targets BY <1>1, <2>1, <2>2 DEF Mutation
  <2>4. PICK f \in BOOLEAN : f = (c.failed \/ i \in c.bad) OBVIOUS
  <2>5. d = [c EXCEPT !.ok = o, !.bad = b, !.failed = f] BY <1>2, <2>1, <2>2, <2>4
  <2> QED BY <1>1, <2>3, <2>5 DEF Mutation
<1>5. Sound(d, version) BY <1>1, <1>3 DEF Sound
<1>6. calls' \subseteq (calls \ {c}) \union {d} BY <1>2 DEF Answered
<1> QED BY <1>1, <1>4, <1>5, <1>6, Now

LEMMA HandledSound ==
  ASSUME ConsoleInv, NEW c \in calls, NEW i \in Targets, NEW good \in BOOLEAN,
         Handled(c, i, good), version' \in [Pages -> Nat],
         \A p \in Pages : version'[p] >= version[p]
  PROVE  /\ calls' \subseteq Mutation /\ \A d \in calls' : Sound(d, version')
<1>1. calls \subseteq Mutation /\ c \in Mutation /\ Sound(c, version) BY Now
<1>2. PICK o : o = IF good THEN c.ok \union {i} ELSE c.ok OBVIOUS
<1>3. PICK b : b = IF good THEN c.bad ELSE c.bad \union {i} OBVIOUS
<1>4. PICK t : t = c.todo \ {i} OBVIOUS
<1>5. PICK v \in Nat : v = version'[c.page] BY <1>1 DEF Mutation
<1>6. o \in SUBSET Targets /\ b \in SUBSET Targets /\ t \in SUBSET Targets
  BY <1>1, <1>2, <1>3, <1>4 DEF Mutation
<1>7. PICK d : d = [c EXCEPT !.todo = t, !.ver = v, !.ok = o, !.bad = b] OBVIOUS
<1>8. calls' = (calls \ {c}) \union {d}
  <2>1. [c EXCEPT !.todo = @ \ {i}, !.ver = version'[c.page],
                  !.ok = IF good THEN @ \union {i} ELSE @,
                  !.bad = IF good THEN @ ELSE @ \union {i}] = d
    BY <1>2, <1>3, <1>4, <1>5, <1>7
  <2> QED BY <2>1 DEF Handled
<1>9. d \in Mutation BY <1>1, <1>6, <1>7 DEF Mutation
<1>10. d.todo = t /\ d.ok = o /\ d.ver = v /\ d.page = c.page BY <1>1, <1>7 DEF Mutation
<1>11. t \cap o = {} BY <1>1, <1>2, <1>4 DEF Sound
<1>12. Sound(d, version') BY <1>5, <1>10, <1>11 DEF Sound
<1>13. ASSUME NEW e \in calls PROVE Sound(e, version')
  <2>1. e \in Mutation /\ Sound(e, version) BY Now
  <2>2. e.page \in Pages /\ e.ver \in Nat BY <2>1 DEF Mutation
  <2>3. version[e.page] \in Nat BY <2>2 DEF ConsoleInv, ConsoleTyped
  <2> QED BY <2>1, <2>2, <2>3 DEF Sound
<1> QED BY <1>1, <1>8, <1>9, <1>12, <1>13

LEMMA WritesTyped ==
  ASSUME ConsoleTyped, NEW p, NEW i, NEW row, Writes(p, i, row),
         p \in Pages /\ i \in Ids => row \in TableRow
  PROVE  /\ db' \in [Pages -> Table] /\ version' \in [Pages -> Nat]
         /\ \A q \in Pages : version'[q] >= version[q]
<1>1. /\ db \in [Pages -> Table] /\ version \in [Pages -> Nat]
      /\ db' = [db EXCEPT ![p][i] = row] /\ version' = [version EXCEPT ![p] = @ + 1]
  BY DEF ConsoleTyped, Writes
<1>2. version' \in [Pages -> Nat] /\ \A q \in Pages : version'[q] >= version[q]
  <2>1. version' = [q \in Pages |-> IF q = p THEN version[q] + 1 ELSE version[q]] BY <1>1
  <2>2. \A q \in Pages : version[q] \in Nat BY <1>1
  <2> QED BY <2>1, <2>2
<1>3. ASSUME NEW q \in Pages PROVE db'[q] \in Table
  <2>1. db[q] \in Table BY <1>1
  <2>2. db'[q] = IF q = p THEN [db[q] EXCEPT ![i] = row] ELSE db[q] BY <1>1
  <2> QED BY <2>1, <2>2 DEF Table
<1>4. db' = [q \in Pages |-> db'[q]] BY <1>1
<1> QED BY <1>2, <1>3, <1>4

(* The answer of a write: it invalidates the list of its page.                *)
LEMMA AcknowledgedInv ==
  ASSUME ConsoleInv, NEW c \in calls, NEW i, Answered(c, i), Acknowledged(c),
         ui' \in Component, UNCHANGED <<page, server, count>>
  PROVE  ConsoleInv'
<1>1. calls' \subseteq Mutation /\ \A d \in calls' : Sound(d, version) BY AnsweredSound
<1>2. c \in Mutation /\ Sound(c, version) /\ count \in Counts BY Now
<1>3. /\ c.page \in Pages /\ c.ver \in Nat /\ c.ver <= version[c.page]
      /\ acked \in [Pages -> Nat] /\ \A q \in Pages : acked[q] <= version[q]
  BY <1>2 DEF Mutation, Sound, ConsoleInv, ConsoleTyped, Dated
<1>4. acked' = [acked EXCEPT ![c.page] = IF c.ver > @ THEN c.ver ELSE @] /\ Invalidated(c.page)
  BY DEF Acknowledged
<1>5. /\ acked' \in [Pages -> Nat] /\ \A q \in Pages : acked'[q] = acked[q] \/ q = c.page
      /\ \A q \in Pages : acked'[q] <= version[q]
  BY <1>3, <1>4
<1>6. version' = version /\ count' \in Counts BY <1>2 DEF server
<1> QED BY <1>1, <1>4, <1>5, <1>6, InvalidatedInv

(* An answer that only has the list loaded again.                             *)
LEMMA MarkedInv ==
  ASSUME ConsoleInv, NEW p, Invalidated(p), ui' \in Component, calls' \subseteq Mutation,
         \A d \in calls' : Sound(d, version), UNCHANGED <<page, server, count, acked>>
  PROVE  ConsoleInv'
<1>1. /\ acked \in [Pages -> Nat] /\ \A q \in Pages : acked[q] <= version[q]
      /\ count \in Counts
  BY DEF ConsoleInv, ConsoleTyped, Dated
<1>2. version' = version BY DEF server
<1> QED BY <1>1, <1>2, InvalidatedInv

(* A step of the component and of mutations that are sent or end.             *)
LEMMA ComponentInv ==
  ASSUME ConsoleInv, UNCHANGED <<page, server, query, acked>>, ui' \in Component,
         calls' \subseteq Mutation, \A d \in calls' : Sound(d, version), count' \in Counts
  PROVE  ConsoleInv'
<1>1. /\ page \in Pages /\ db \in [Pages -> Table] /\ version \in [Pages -> Nat]
      /\ fetch \in [Pages -> Request]
  BY DEF ConsoleInv, ConsoleTyped
<1>2. version' = version /\ db' = db /\ fetch' = fetch /\ cache' = cache BY DEF server, query
<1>3. \A p \in Pages : version'[p] >= version[p] BY <1>1, <1>2
<1> QED BY <1>1, <1>2, <1>3, Kept
-----------------------------------------------------------------------------
(* The steps of a page.  None of them empties a selection while it sends.     *)
LEMMA Kinder ==
  /\ \A k \in {"create", "update", "delete", "toggle", "refresh", "refreshAll", "test"} : k \in Kinds
  /\ {None, New} \subseteq Targets /\ Ids \subseteq Targets
BY DEF Kinds, Targets

LEMMA UIInv == ASSUME ConsoleInv, NEW new \in Component, UI(new) PROVE ConsoleInv' /\ Keeps
<1>1. /\ UNCHANGED <<page, calls, server, query, acked, count>> /\ ui' = new BY DEF UI
<1>2. calls' \subseteq Mutation /\ (\A d \in calls' : Sound(d, version)) /\ count' \in Counts
  BY <1>1, Now
<1> QED BY <1>1, <1>2, ComponentInv DEF Keeps

(* A mutation is sent, the selection stays.                                   *)
LEMMA SendInv ==
  ASSUME ConsoleInv, NEW kind \in Kinds, NEW ids \in SUBSET Targets, NEW row \in TableRow,
         Sends(kind, ids, row), UNCHANGED <<page, server, query, acked>>,
         ui' \in Component, ui'.selected = ui.selected
  PROVE  ConsoleInv' /\ Keeps
<1>1. /\ count' \in Counts /\ calls' \subseteq Mutation /\ \A c \in calls' : Sound(c, version)
  BY SendsSound
<1> QED BY <1>1, ComponentInv DEF Keeps

LEMMA ListedIds == Listed(page) \subseteq Ids
BY DEF Listed

LEMMA DialogInv ==
  ASSUME ConsoleInv
  PROVE  /\ OpenCreate \/ Cancel => ConsoleInv' /\ Keeps
         /\ \A b \in Said, on \in BOOLEAN : Type(b, on) \/ FormOf(b, on) => ConsoleInv' /\ Keeps
         /\ \A i \in Ids : OpenEdit(i) => ConsoleInv' /\ Keeps
<1>1. ui \in Component BY Now
<1>2. ASSUME OpenCreate PROVE ConsoleInv' /\ Keeps
  <2>1. [ui EXCEPT !.dialog = "create"] \in Component BY <1>1 DEF Component
  <2> QED BY <1>2, <2>1, UIInv DEF OpenCreate
<1>3. ASSUME Cancel PROVE ConsoleInv' /\ Keeps
  BY <1>1, <1>3, ClosedFacts, UIInv DEF Cancel
<1>4. ASSUME NEW b \in Said, NEW on \in BOOLEAN, Type(b, on) PROVE ConsoleInv' /\ Keeps
  <2>1. RowOf(b, on) \in TableRow BY RowFacts
  <2>2. [ui EXCEPT !.form = RowOf(b, on)] \in Component BY <1>1, <2>1 DEF Component
  <2> QED BY <1>4, <2>2, UIInv DEF Type
<1>5. ASSUME NEW i \in Ids, OpenEdit(i) PROVE ConsoleInv' /\ Keeps
  <2>1. [ui EXCEPT !.dialog = "edit", !.editing = i] \in Component BY <1>1 DEF Component
  <2> QED BY <1>5, <2>1, UIInv DEF OpenEdit
<1> QED BY <1>2, <1>3, <1>4, <1>5 DEF FormOf

LEMMA ReloadInv == ASSUME ConsoleInv, Reload \/ IntervalTick PROVE ConsoleInv' /\ Keeps
<1>1. /\ ConsoleTyped /\ page \in Pages /\ ui \in Component /\ count \in Counts
      /\ calls \subseteq Mutation /\ \A c \in calls : Sound(c, version)
  BY Now
<1>2. /\ fetch' = [fetch EXCEPT ![page] = Asked]
      /\ UNCHANGED <<page, ui, calls, server, cache, acked>>
  BY DEF Reload, IntervalTick
<1>3. count' \in Counts BY <1>1, WithinTyped DEF Reload, IntervalTick
<1>4. /\ fetch \in [Pages -> Request] /\ db \in [Pages -> Table] /\ version \in [Pages -> Nat]
  BY <1>1 DEF ConsoleTyped
<1>5. fetch' \in [Pages -> Request] /\ \A p \in Pages : fetch'[p] \in {fetch[p], Asked}
  BY <1>2, <1>4, AskedFacts
<1>6. version' = version /\ db' = db BY <1>2 DEF server
<1>7. \A p \in Pages : version'[p] >= version[p] BY <1>4, <1>6
<1> QED BY <1>1, <1>2, <1>3, <1>4, <1>5, <1>6, <1>7, Kept DEF Keeps

LEMMA SelectInv ==
  ASSUME ConsoleInv
  PROVE  /\ SelectAll \/ AskDelete \/ CancelDelete => ConsoleInv' /\ Keeps
         /\ \A i \in Ids : Select(i) \/ AskDeleteOne(i) => ConsoleInv' /\ Keeps
<1>1. ui \in Component /\ Listed(page) \subseteq Ids BY Now, ListedIds
<1>2. ASSUME SelectAll PROVE ConsoleInv' /\ Keeps
  <2>1. PICK filtered \in SUBSET Listed(page) \ {{}} :
               UI([ui EXCEPT !.selected = IF Cardinality(@) = Cardinality(filtered)
                                          THEN {} ELSE filtered])
    BY <1>2 DEF SelectAll
  <2>2. PICK s \in SUBSET Ids : s = IF Cardinality(ui.selected) = Cardinality(filtered)
                                    THEN {} ELSE filtered
    BY <1>1
  <2>3. [ui EXCEPT !.selected = s] \in Component BY <1>1 DEF Component
  <2> QED BY <2>1, <2>2, <2>3, UIInv
<1>3. ASSUME AskDelete PROVE ConsoleInv' /\ Keeps
  <2>1. [ui EXCEPT !.confirm = TRUE] \in Component BY <1>1 DEF Component
  <2> QED BY <1>3, <2>1, UIInv DEF AskDelete
<1>4. ASSUME CancelDelete PROVE ConsoleInv' /\ Keeps
  <2>1. [ui EXCEPT !.confirm = FALSE] \in Component BY <1>1 DEF Component
  <2> QED BY <1>4, <2>1, UIInv DEF CancelDelete
<1>5. ASSUME NEW i \in Ids, Select(i) PROVE ConsoleInv' /\ Keeps
  <2>1. PICK s : s = IF i \in ui.selected THEN ui.selected \ {i} ELSE ui.selected \union {i}
    OBVIOUS
  <2>2. s \in SUBSET Ids BY <1>1, <2>1 DEF Component
  <2>3. [ui EXCEPT !.selected = s] \in Component BY <1>1, <2>2 DEF Component
  <2>4. UI([ui EXCEPT !.selected = s]) BY <1>5, <2>1 DEF Select
  <2> QED BY <2>3, <2>4, UIInv
<1>6. ASSUME NEW i \in Ids, AskDeleteOne(i) PROVE ConsoleInv' /\ Keeps
  <2>1. [ui EXCEPT !.selected = {i}, !.confirm = TRUE] \in Component BY <1>1 DEF Component
  <2> QED BY <1>6, <2>1, UIInv DEF AskDeleteOne
<1> QED BY <1>2, <1>3, <1>4, <1>5, <1>6

LEMMA ToolbarInv == ASSUME ConsoleInv, Toolbar \/ \E i \in Ids : Row(i) PROVE ConsoleInv' /\ Keeps
BY DialogInv, SelectInv, ReloadInv DEF Toolbar, Row

LEMMA SubmitInv == ASSUME ConsoleInv, Submit PROVE ConsoleInv' /\ Keeps
<1>1. ui \in Component BY Now
<1>2. ui.form \in TableRow /\ ui.editing \in Ids \union {None} BY <1>1 DEF Component
<1>3. ui' = ui /\ UNCHANGED <<page, server, query, acked>> BY DEF Submit
<1>4. CASE Sends("create", {New}, ui.form)
  <2>1. {New} \in SUBSET Targets BY DEF Targets
  <2> QED BY <1>1, <1>2, <1>3, <1>4, <2>1, Kinder, SendInv
<1>5. CASE Sends("update", {ui.editing}, ui.form)
  <2>1. {ui.editing} \in SUBSET Targets BY <1>2 DEF Targets
  <2> QED BY <1>1, <1>2, <1>3, <1>5, <2>1, Kinder, SendInv
<1> QED BY <1>4, <1>5 DEF Submit

LEMMA ConfirmInv == ASSUME ConsoleInv, ConfirmDelete PROVE ConsoleInv' /\ Keeps
<1>1. ui \in Component /\ calls \subseteq Mutation /\ (\A c \in calls : Sound(c, version)) /\ count \in Counts
  BY Now
<1>2. ui' = [ui EXCEPT !.confirm = FALSE] /\ UNCHANGED <<page, server, query, acked>>
  BY DEF ConfirmDelete
<1>3. ui' \in Component /\ ui'.selected = ui.selected BY <1>1, <1>2 DEF Component
<1>4. CASE Sends("delete", ui.selected, Gone)
  <2>1. ui.selected \in SUBSET Targets BY <1>1 DEF Component, Targets
  <2> QED BY <1>2, <1>3, <1>4, <2>1, Kinder, RowFacts, SendInv
<1>5. CASE UNCHANGED <<calls, count>>
  BY <1>1, <1>2, <1>3, <1>5, ComponentInv DEF Keeps
<1> QED BY <1>4, <1>5 DEF ConfirmDelete

LEMMA TargetInv ==
  ASSUME ConsoleInv
  PROVE  /\ KeepTarget \/ DeleteTarget => ConsoleInv' /\ Keeps
         /\ \A i \in Ids : ChooseTarget(i) => ConsoleInv' /\ Keeps
<1>1. ui \in Component BY Now
<1>2. [ui EXCEPT !.target = None] \in Component
      /\ [ui EXCEPT !.target = None].selected = ui.selected
  BY <1>1 DEF Component
<1>3. ASSUME KeepTarget PROVE ConsoleInv' /\ Keeps BY <1>2, <1>3, UIInv DEF KeepTarget
<1>4. ASSUME DeleteTarget PROVE ConsoleInv' /\ Keeps
  <2>1. {ui.target} \in SUBSET Targets BY <1>1 DEF Component, Targets
  <2> QED BY <1>2, <1>4, <2>1, Kinder, RowFacts, SendInv DEF DeleteTarget
<1>5. ASSUME NEW i \in Ids, ChooseTarget(i) PROVE ConsoleInv' /\ Keeps
  <2>1. [ui EXCEPT !.target = i] \in Component BY <1>1 DEF Component
  <2> QED BY <1>5, <2>1, UIInv DEF ChooseTarget
<1> QED BY <1>3, <1>4, <1>5
-----------------------------------------------------------------------------
LEMMA CachedRow ==
  ASSUME ConsoleInv, NEW i \in Ids
  PROVE  cache[page].rows[i].body \in Said /\ cache[page].rows[i].on \in BOOLEAN
<1>1. cache[page] \in CacheEntry BY DEF ConsoleInv, ConsoleTyped
<1>2. cache[page].rows \in Table BY <1>1 DEF CacheEntry
<1>3. cache[page].rows[i] \in TableRow BY <1>2 DEF Table
<1> QED BY <1>3 DEF TableRow

LEMMA FiltersInv == ASSUME ConsoleInv, FiltersUI PROVE ConsoleInv' /\ Keeps
<1>1. ui \in Component /\ Bodies \subseteq Said BY Now DEF Said
<1>2. CASE FiltersToolbar BY <1>2, ToolbarInv DEF FiltersToolbar
<1>3. CASE FiltersTable BY <1>3, ToolbarInv, SelectInv DEF FiltersTable
<1>4. CASE SubmitFilter BY <1>4, SubmitInv DEF SubmitFilter
<1>5. CASE ConfirmFilters BY <1>5, SelectInv, ConfirmInv DEF ConfirmFilters
<1>6. ASSUME NEW b \in Bodies, PickPopular(b) \/ \E on \in Switch : FilterDialog(b, on)
      PROVE  ConsoleInv' /\ Keeps
  BY <1>1, <1>6, DialogInv, SwitchAssumption DEF PickPopular, FilterDialog
<1>7. ASSUME NEW i \in Ids, ToggleFilter(i) PROVE ConsoleInv' /\ Keeps
  <2>1. PICK row : row = RowOf(cache[page].rows[i].body, ~cache[page].rows[i].on) OBVIOUS
  <2>2. row \in TableRow BY <2>1, CachedRow, RowFacts
  <2>3. Sends("toggle", {i}, row) /\ UNCHANGED <<page, ui, server, query, acked>>
    BY <1>7, <2>1 DEF ToggleFilter
  <2>4. {i} \in SUBSET Targets BY DEF Targets
  <2> QED BY <1>1, <2>2, <2>3, <2>4, Kinder, SendInv
<1>8. ASSUME NEW i \in Ids, RefreshFilter(i) PROVE ConsoleInv' /\ Keeps
  <2>1. ui' = [ui EXCEPT !.refreshing = i] /\ Sends("refresh", {i}, Gone)
        /\ UNCHANGED <<page, server, query, acked>>
    BY <1>8 DEF RefreshFilter
  <2>2. ui' \in Component /\ ui'.selected = ui.selected BY <1>1, <2>1 DEF Component
  <2>3. {i} \in SUBSET Targets BY DEF Targets
  <2> QED BY <2>1, <2>2, <2>3, Kinder, RowFacts, SendInv
<1>9. CASE RefreshAll
  <2>1. PICK ids : ids = {i \in Ids : /\ Exists(cache[page].rows[i]) /\ cache[page].rows[i].on
                                      /\ cache[page].rows[i].body \in Remote}
    OBVIOUS
  <2>2. /\ ui' = [ui EXCEPT !.refreshingAll = TRUE] /\ Sends("refreshAll", ids, Gone)
        /\ UNCHANGED <<page, server, query, acked>>
    BY <1>9, <2>1 DEF RefreshAll
  <2>3. ui' \in Component /\ ui'.selected = ui.selected BY <1>1, <2>2 DEF Component
  <2>4. ids \in SUBSET Targets BY <2>1 DEF Targets
  <2> QED BY <2>2, <2>3, <2>4, Kinder, RowFacts, SendInv
<1> QED BY <1>2, <1>3, <1>4, <1>5, <1>6, <1>7, <1>8, <1>9 DEF FiltersUI

LEMMA RewritesInv == ASSUME ConsoleInv, RewritesUI PROVE ConsoleInv' /\ Keeps
<1>1. Bodies \subseteq Said BY DEF Said
<1>2. CASE RewritesToolbar BY <1>2, ToolbarInv DEF RewritesToolbar
<1>3. CASE RewritesTable BY <1>3, ToolbarInv, SelectInv DEF RewritesTable
<1>4. CASE SubmitRewrite BY <1>4, SubmitInv DEF SubmitRewrite
<1>5. CASE ConfirmRewrites BY <1>5, SelectInv, ConfirmInv DEF ConfirmRewrites
<1>6. ASSUME NEW b \in Bodies, PickCommon(b) \/ RewriteDialog(b) PROVE ConsoleInv' /\ Keeps
  BY <1>1, <1>6, DialogInv DEF PickCommon, RewriteDialog
<1> QED BY <1>2, <1>3, <1>4, <1>5, <1>6 DEF RewritesUI

LEMMA ClientsInv == ASSUME ConsoleInv, ClientsUI PROVE ConsoleInv' /\ Keeps
<1>1. Bodies \subseteq Said BY DEF Said
<1>2. CASE ClientsToolbar BY <1>2, DialogInv, ReloadInv DEF ClientsToolbar
<1>3. CASE SubmitClient BY <1>3, SubmitInv DEF SubmitClient
<1>4. CASE ConfirmDeleteClient BY <1>4, TargetInv DEF ConfirmDeleteClient
<1>5. ASSUME NEW b \in Bodies, ClientDialog(b) PROVE ConsoleInv' /\ Keeps
  BY <1>1, <1>5, DialogInv DEF ClientDialog
<1>6. ASSUME NEW i \in Ids, ClientsTable(i) PROVE ConsoleInv' /\ Keeps
  BY <1>6, DialogInv, TargetInv DEF ClientsTable
<1> QED BY <1>2, <1>3, <1>4, <1>5, <1>6 DEF ClientsUI

LEMMA UpstreamsInv == ASSUME ConsoleInv, UpstreamsUI PROVE ConsoleInv' /\ Keeps
<1>1. ui \in Component /\ Bodies \subseteq Said BY Now DEF Said
<1>2. CASE UpstreamsToolbar BY <1>2, DialogInv, ReloadInv DEF UpstreamsToolbar
<1>3. CASE SubmitUpstream BY <1>3, SubmitInv DEF SubmitUpstream
<1>4. CASE ConfirmDeleteUpstream BY <1>4, TargetInv DEF ConfirmDeleteUpstream
<1>5. ASSUME NEW b \in Bodies, UpstreamDialog(b) PROVE ConsoleInv' /\ Keeps
  BY <1>1, <1>5, DialogInv DEF UpstreamDialog
<1>6. ASSUME NEW i \in Ids, UpstreamsTable(i) PROVE ConsoleInv' /\ Keeps
  BY <1>6, DialogInv, TargetInv DEF UpstreamsTable
<1>7. ASSUME NEW i \in Ids, TestUpstream(i) PROVE ConsoleInv' /\ Keeps
  <2>1. ui' = [ui EXCEPT !.refreshing = i] /\ Sends("test", {i}, Gone)
        /\ UNCHANGED <<page, server, query, acked>>
    BY <1>7 DEF TestUpstream
  <2>2. ui' \in Component /\ ui'.selected = ui.selected BY <1>1, <2>1 DEF Component
  <2>3. {i} \in SUBSET Targets BY DEF Targets
  <2> QED BY <2>1, <2>2, <2>3, Kinder, RowFacts, SendInv
<1> QED BY <1>2, <1>3, <1>4, <1>5, <1>6, <1>7 DEF UpstreamsUI

LEMMA UsersInv == ASSUME ConsoleInv, UsersUI PROVE ConsoleInv' /\ Keeps
<1>1. ui \in Component /\ Roles \subseteq Said BY Now DEF Said
<1>2. CASE UsersToolbar BY <1>2, DialogInv, ReloadInv DEF UsersToolbar
<1>3. CASE CreateUser
  <2>1. ui.form \in TableRow /\ {New} \in SUBSET Targets BY <1>1 DEF Component, Targets
  <2> QED BY <1>1, <1>3, <2>1, Kinder, SendInv DEF CreateUser
<1>4. CASE UpdateRole
  <2>1. RowOf(ui.role, TRUE) \in TableRow BY <1>1, RowFacts DEF Component
  <2>2. {ui.editing} \in SUBSET Targets BY <1>1 DEF Component, Targets
  <2> QED BY <1>1, <1>4, <2>1, <2>2, Kinder, SendInv DEF UpdateRole
<1>5. ASSUME NEW r \in Roles, NewUserDialog(r) PROVE ConsoleInv' /\ Keeps
  BY <1>1, <1>5, DialogInv DEF NewUserDialog
<1>6. ASSUME NEW r \in Roles, RoleDialog(r) PROVE ConsoleInv' /\ Keeps
  <2>1. [ui EXCEPT !.role = r] \in Component BY <1>1 DEF Component
  <2> QED BY <1>6, <2>1, DialogInv, UIInv DEF RoleDialog
<1>7. ASSUME NEW i \in Ids, UsersTable(i) PROVE ConsoleInv' /\ Keeps
  BY <1>7, DialogInv DEF UsersTable
<1> QED BY <1>2, <1>3, <1>4, <1>5, <1>6, <1>7 DEF UsersUI

(* A page is left and another one mounted: what was sent goes on, and a       *)
(* request under way is not dropped.                                          *)
LEMMA NavigateInv == ASSUME ConsoleInv, NEW p \in Pages, Navigate(p) PROVE ConsoleInv' /\ Keeps
<1>1. /\ ConsoleTyped /\ calls \subseteq Mutation /\ \A c \in calls : Sound(c, version)
  BY Now
<1>2. /\ page' = p /\ ui' = Fresh(p) /\ p # page
      /\ calls' = {[c EXCEPT !.mine = FALSE] : c \in calls}
      /\ UNCHANGED <<server, cache, acked>>
  BY DEF Navigate
<1>3. ui' \in Component /\ count' \in Counts BY <1>1, <1>2, FreshFacts, WithinTyped DEF Navigate
<1>4. ASSUME NEW c \in calls
      PROVE  [c EXCEPT !.mine = FALSE] \in Mutation /\ Sound([c EXCEPT !.mine = FALSE], version)
  <2>1. c \in Mutation /\ Sound(c, version) BY <1>1
  <2>2. PICK d : d = [c EXCEPT !.mine = FALSE] OBVIOUS
  <2>3. d \in Mutation /\ d.ver = c.ver /\ d.page = c.page /\ d.todo = c.todo /\ d.ok = c.ok
    BY <2>1, <2>2 DEF Mutation
  <2> QED BY <2>1, <2>2, <2>3 DEF Sound
<1>5. calls' \subseteq Mutation /\ \A d \in calls' : Sound(d, version) BY <1>2, <1>4
<1>6. /\ fetch \in [Pages -> Request] /\ db \in [Pages -> Table] /\ version \in [Pages -> Nat]
  BY <1>1 DEF ConsoleTyped
<1>7. PICK f \in {fetch[p], Asked} : fetch' = [fetch EXCEPT ![p] = f] BY DEF Navigate
<1>8. fetch' \in [Pages -> Request] /\ \A q \in Pages : fetch'[q] \in {fetch[q], Asked}
  BY <1>6, <1>7, AskedFacts
<1>9. version' = version /\ db' = db BY <1>2 DEF server
<1>10. \A q \in Pages : version'[q] >= version[q] BY <1>6, <1>9
<1>11. page' # page BY <1>2
<1> QED BY <1>2, <1>3, <1>5, <1>6, <1>8, <1>9, <1>10, <1>11, Kept DEF Keeps
-----------------------------------------------------------------------------
(* The answers.                                                               *)
LEMMA SavedInv ==
  ASSUME ConsoleInv, NEW c \in calls, NEW i, Answered(c, i), Acknowledged(c),
         ui' \in Component, ui'.selected = ui.selected, UNCHANGED <<page, server, count>>
  PROVE  ConsoleInv' /\ Keeps
BY AcknowledgedInv DEF Keeps

LEMMA Emptied ==
  ASSUME NEW u \in Component, NEW p
  PROVE  /\ [Closed(u) EXCEPT !.form = Fresh(p).form] \in Component
         /\ [Closed(u) EXCEPT !.form = Fresh(p).form].selected = u.selected
         /\ [u EXCEPT !.form = Fresh(p).form] \in Component
         /\ [u EXCEPT !.form = Fresh(p).form].selected = u.selected
<1>1. PICK f \in TableRow : f = Fresh(p).form BY FreshFacts DEF Component
<1>2. PICK d \in Component : d = Closed(u) /\ d.selected = u.selected BY ClosedFacts
<1>3. [d EXCEPT !.form = f] \in Component /\ [d EXCEPT !.form = f].selected = d.selected
  BY DEF Component
<1>4. [u EXCEPT !.form = f] \in Component /\ [u EXCEPT !.form = f].selected = u.selected
  BY DEF Component
<1> QED BY <1>1, <1>2, <1>3, <1>4

LEMMA TargetFacts ==
  ASSUME NEW u \in Component
  PROVE  /\ [u EXCEPT !.target = None] \in Component /\ [u EXCEPT !.target = None].selected = u.selected
         /\ [u EXCEPT !.refreshing = None] \in Component
         /\ [u EXCEPT !.refreshing = None].selected = u.selected
         /\ [u EXCEPT !.refreshingAll = FALSE] \in Component
         /\ [u EXCEPT !.refreshingAll = FALSE].selected = u.selected
BY DEF Component

(* The selection goes with the last good answer of its batch.                 *)
LEMMA DeleteAnsweredInv ==
  ASSUME ConsoleInv, NEW c \in calls, NEW i, DeleteAnswered(c, i)
  PROVE  ConsoleInv' /\ Keeps
<1>1. ui \in Component /\ c \in Mutation /\ Sound(c, version) BY Now
<1>2. CASE c.mine /\ Last(c, i) /\ AllGood(c)
  <2>1. ui' = [ui EXCEPT !.selected = {}, !.confirm = FALSE] BY <1>2 DEF DeleteAnswered
  <2>2. ui' \in Component BY <1>1, <2>1 DEF Component
  <2>3. ConsoleInv' BY <2>2, AcknowledgedInv DEF DeleteAnswered
  <2>4. c.kind = "delete" /\ ~c.failed /\ c.bad = {} /\ i \in c.ok
    BY <1>2 DEF DeleteAnswered, AllGood
  <2>5. c.todo \union c.ok = {i} BY <1>2, <2>4 DEF Last
  <2>6. c.todo = {} BY <1>1, <2>4, <2>5 DEF Sound
  <2>7. c \notin calls'
    <3>1. PICK d : d = [c EXCEPT !.ok = @ \ {i}, !.bad = @ \ {i}, !.failed = @ \/ i \in c.bad]
      OBVIOUS
    <3>2. d.todo = {} /\ d.ok = c.ok \ {i} /\ d.bad = {} \ {i} BY <1>1, <2>4, <2>6, <3>1 DEF Mutation
    <3>3. d.todo \union d.ok \union d.bad = {} BY <2>5, <3>2
    <3>4. calls' = calls \ {c} BY <3>1, <3>3 DEF DeleteAnswered, Answered
    <3> QED BY <3>4
  <2> QED BY <2>3, <2>4, <2>6, <2>7 DEF Keeps
<1>3. CASE ~(c.mine /\ Last(c, i) /\ AllGood(c))
  <2>1. ui' = ui BY <1>3 DEF DeleteAnswered
  <2> QED BY <1>1, <2>1, SavedInv DEF DeleteAnswered
<1> QED BY <1>2, <1>3

LEMMA TargetDeletedInv ==
  ASSUME ConsoleInv, NEW c \in calls, NEW i, TargetDeleted(c, i)
  PROVE  ConsoleInv' /\ Keeps
<1>1. ui \in Component BY Now
<1>2. ui' \in Component /\ ui'.selected = ui.selected BY <1>1, TargetFacts DEF TargetDeleted
<1> QED BY <1>2, SavedInv DEF TargetDeleted

LEMMA FilterAnswersInv ==
  ASSUME ConsoleInv, NEW c \in calls, NEW i, FiltersAnswer(c, i)
  PROVE  ConsoleInv' /\ Keeps
<1>1. ui \in Component BY Now
<1>2. CASE FilterSaved(c, i)
  <2>1. ui' \in Component /\ ui'.selected = ui.selected BY <1>1, <1>2, Emptied DEF FilterSaved
  <2> QED BY <1>2, <2>1, SavedInv DEF FilterSaved
<1>3. CASE FiltersDeleted(c, i) BY <1>3, DeleteAnsweredInv DEF FiltersDeleted
<1>4. CASE FilterToggled(c, i) BY <1>1, <1>4, SavedInv DEF FilterToggled
<1>5. CASE FilterRefreshed(c, i)
  <2>1. ui' \in Component /\ ui'.selected = ui.selected BY <1>1, <1>5, TargetFacts DEF FilterRefreshed
  <2>2. calls' \subseteq Mutation /\ \A d \in calls' : Sound(d, version)
    BY <1>5, AnsweredSound DEF FilterRefreshed
  <2> QED BY <1>5, <2>1, <2>2, MarkedInv DEF FilterRefreshed, Keeps
<1>6. CASE AllRefreshed(c, i)
  <2>1. calls' \subseteq Mutation /\ \A d \in calls' : Sound(d, version)
    BY <1>6, AnsweredSound DEF AllRefreshed
  <2>2. UNCHANGED <<page, server, count, acked>> BY <1>6 DEF AllRefreshed
  <2>3. CASE /\ Invalidated("filters")
             /\ ui' = IF c.mine THEN [ui EXCEPT !.refreshingAll = FALSE] ELSE ui
    <3>1. ui' \in Component /\ ui'.selected = ui.selected BY <1>1, <2>3, TargetFacts
    <3> QED BY <2>1, <2>2, <2>3, <3>1, MarkedInv DEF Keeps
  <2>4. CASE UNCHANGED <<query, ui>>
    <3>1. count' \in Counts BY <2>2, Now
    <3> QED BY <1>1, <2>1, <2>2, <2>4, <3>1, ComponentInv DEF Keeps
  <2> QED BY <1>6, <2>3, <2>4 DEF AllRefreshed
<1> QED BY <1>2, <1>3, <1>4, <1>5, <1>6 DEF FiltersAnswer

LEMMA PageAnswersInv ==
  ASSUME ConsoleInv, NEW c \in calls, NEW i,
         RewritesAnswer(c, i) \/ ClientsAnswer(c, i) \/ UsersAnswer(c, i) \/ UpstreamsAnswer(c, i)
  PROVE  ConsoleInv' /\ Keeps
<1>1. ui \in Component BY Now
<1>2. CASE RewriteSaved(c, i)
  <2>1. ui' \in Component /\ ui'.selected = ui.selected BY <1>1, <1>2, Emptied DEF RewriteSaved
  <2> QED BY <1>2, <2>1, SavedInv DEF RewriteSaved
<1>3. CASE RewritesDeleted(c, i) BY <1>3, DeleteAnsweredInv DEF RewritesDeleted
<1>4. CASE ClientSaved(c, i)
  <2>1. ui' \in Component /\ ui'.selected = ui.selected BY <1>1, <1>4, ClosedFacts DEF ClientSaved
  <2> QED BY <1>4, <2>1, SavedInv DEF ClientSaved
<1>5. CASE ClientDeleted(c, i) \/ UpstreamDeleted(c, i)
  BY <1>5, TargetDeletedInv DEF ClientDeleted, UpstreamDeleted
<1>6. CASE UserCreated(c, i)
  <2>1. ui' \in Component /\ ui'.selected = ui.selected BY <1>1, <1>6, Emptied DEF UserCreated
  <2> QED BY <1>6, <2>1, SavedInv DEF UserCreated
<1>7. CASE RoleUpdated(c, i)
  <2>1. ui' \in Component /\ ui'.selected = ui.selected BY <1>1, <1>7, ClosedFacts DEF RoleUpdated
  <2> QED BY <1>7, <2>1, SavedInv DEF RoleUpdated
<1>8. CASE UpstreamSaved(c, i)
  <2>1. ui' \in Component /\ ui'.selected = ui.selected BY <1>1, <1>8, ClosedFacts DEF UpstreamSaved
  <2> QED BY <1>8, <2>1, SavedInv DEF UpstreamSaved
<1>9. CASE TestAnswered(c, i)
  <2>1. ui' \in Component /\ ui'.selected = ui.selected BY <1>1, <1>9, TargetFacts DEF TestAnswered
  <2>2. calls' \subseteq Mutation /\ \A d \in calls' : Sound(d, version)
    BY <1>9, AnsweredSound DEF TestAnswered
  <2> QED BY <1>9, <2>1, <2>2, MarkedInv DEF TestAnswered, Keeps
<1> QED BY <1>2, <1>3, <1>4, <1>5, <1>6, <1>7, <1>8, <1>9
        DEF RewritesAnswer, ClientsAnswer, UsersAnswer, UpstreamsAnswer

LEMMA FailedInv ==
  ASSUME ConsoleInv, NEW c \in calls, NEW i, Failed(c, i)
  PROVE  ConsoleInv' /\ Keeps
<1>1. ui \in Component /\ count \in Counts BY Now
<1>2. ui' \in {ui, [ui EXCEPT !.refreshing = None], [ui EXCEPT !.refreshingAll = FALSE]}
  BY DEF Failed
<1>3. ui' \in Component /\ ui'.selected = ui.selected BY <1>1, <1>2, TargetFacts
<1>4. calls' \subseteq Mutation /\ \A d \in calls' : Sound(d, version)
  BY AnsweredSound DEF Failed
<1> QED BY <1>1, <1>3, <1>4, ComponentInv DEF Failed, Keeps
-----------------------------------------------------------------------------
(* The handlers and somebody else.                                            *)
LEMMA ServedInv ==
  ASSUME ConsoleInv, NEW c \in calls, NEW i \in Targets, NEW good \in BOOLEAN,
         Handled(c, i, good), Served, db' \in [Pages -> Table], version' \in [Pages -> Nat],
         \A p \in Pages : version'[p] >= version[p]
  PROVE  ConsoleInv' /\ Keeps
<1>1. /\ calls' \subseteq Mutation /\ \A d \in calls' : Sound(d, version') BY HandledSound
<1>2. page \in Pages /\ ui \in Component /\ count \in Counts /\ fetch \in [Pages -> Request]
  BY DEF ConsoleInv, ConsoleTyped
<1>3. UNCHANGED <<page, ui, cache, fetch, count, acked>> BY DEF Served, query
<1>4. /\ fetch' \in [Pages -> Request] /\ \A p \in Pages : fetch'[p] \in {fetch[p], Asked}
  BY <1>2, <1>3
<1> QED BY <1>1, <1>2, <1>3, <1>4, Kept DEF Keeps

LEMMA ServerInv == ASSUME ConsoleInv, NEW c \in calls, ServerStep(c) PROVE ConsoleInv' /\ Keeps
<1>1. /\ ConsoleTyped /\ c \in Mutation /\ c.page \in Pages /\ c.row \in TableRow
  BY Now DEF Mutation
<1>2. /\ db \in [Pages -> Table] /\ version \in [Pages -> Nat]
      /\ \A p \in Pages, i \in Ids : db[p][i] \in TableRow
  BY <1>1 DEF ConsoleTyped, Table
<1>3. \A p \in Pages : version[p] >= version[p] BY <1>2
<1>4. CASE ServeCreate(c)
  <2>1. PICK i \in Ids : Writes(c.page, i, c.row) BY <1>4 DEF ServeCreate
  <2>2. /\ db' \in [Pages -> Table] /\ version' \in [Pages -> Nat]
        /\ \A q \in Pages : version'[q] >= version[q]
    BY <1>1, <2>1, WritesTyped
  <2>3. PICK good \in BOOLEAN : Handled(c, New, good) BY <1>4 DEF ServeCreate
  <2> QED BY <1>4, <2>2, <2>3, Kinder, ServedInv DEF ServeCreate
<1>5. ASSUME NEW i \in Ids, ServeUpdate(c, i) PROVE ConsoleInv' /\ Keeps
  <2>1. PICK row : row = [db[c.page][i] EXCEPT !.on = c.row.on,
                                               !.body = IF c.kind = "update" THEN c.row.body ELSE @]
    OBVIOUS
  <2>2. row \in TableRow
    <3>1. PICK r \in TableRow : r = db[c.page][i] BY <1>1, <1>2
    <3>2. PICK b \in Said : b = IF c.kind = "update" THEN c.row.body ELSE r.body
      BY <1>1 DEF TableRow
    <3>3. PICK on \in BOOLEAN : on = c.row.on BY <1>1 DEF TableRow
    <3>4. row = [r EXCEPT !.on = on, !.body = b] BY <2>1, <3>1, <3>2, <3>3
    <3> QED BY <3>4 DEF TableRow
  <2>3. Writes(c.page, i, row) BY <1>5, <2>1 DEF ServeUpdate
  <2>4. /\ db' \in [Pages -> Table] /\ version' \in [Pages -> Nat]
        /\ \A q \in Pages : version'[q] >= version[q]
    BY <1>1, <2>2, <2>3, WritesTyped
  <2>5. PICK good \in BOOLEAN : Handled(c, i, good) BY <1>5 DEF ServeUpdate
  <2> QED BY <1>5, <2>4, <2>5, Kinder, ServedInv DEF ServeUpdate
<1>6. ASSUME NEW i \in Ids, ServeDelete(c, i) PROVE ConsoleInv' /\ Keeps
  <2>1. /\ db' \in [Pages -> Table] /\ version' \in [Pages -> Nat]
        /\ \A q \in Pages : version'[q] >= version[q]
    BY <1>1, <1>6, RowFacts, WritesTyped DEF ServeDelete
  <2>2. PICK good \in BOOLEAN : Handled(c, i, good) BY <1>6 DEF ServeDelete
  <2> QED BY <1>6, <2>1, <2>2, Kinder, ServedInv DEF ServeDelete
<1>7. ASSUME NEW i \in Targets, Refuse(c, i) \/ ServeRefresh(c, i) \/ ServeTest(c, i)
      PROVE  ConsoleInv' /\ Keeps
  <2>1. PICK good \in BOOLEAN : Handled(c, i, good) BY <1>7 DEF Refuse, ServeRefresh, ServeTest
  <2>2. db' = db /\ version' = version /\ Served
    BY <1>7 DEF Refuse, ServeRefresh, ServeTest, server
  <2> QED BY <1>2, <1>3, <2>1, <2>2, ServedInv
<1> QED BY <1>4, <1>5, <1>6, <1>7, Kinder DEF ServerStep

(* A table changes by somebody else's hand.                                   *)
LEMMA OthersWrite ==
  ASSUME ConsoleInv, UNCHANGED <<page, ui, calls, query, acked>>, count' \in Counts,
         db' \in [Pages -> Table], version' \in [Pages -> Nat],
         \A p \in Pages : version'[p] >= version[p]
  PROVE  ConsoleInv' /\ Keeps
<1>1. page \in Pages /\ ui \in Component /\ calls \subseteq Mutation /\ fetch \in [Pages -> Request]
  BY DEF ConsoleInv, ConsoleTyped
<1>2. ASSUME NEW c \in calls PROVE Sound(c, version')
  <2>1. c \in Mutation /\ Sound(c, version) BY Now
  <2>2. c.page \in Pages /\ c.ver \in Nat BY <2>1 DEF Mutation
  <2>3. version[c.page] \in Nat BY <2>2 DEF ConsoleInv, ConsoleTyped
  <2> QED BY <2>1, <2>2, <2>3 DEF Sound
<1>3. /\ fetch' \in [Pages -> Request] /\ \A p \in Pages : fetch'[p] \in {fetch[p], Asked}
      /\ cache' = cache
  BY <1>1 DEF query
<1>4. \A c \in calls' : Sound(c, version') BY <1>2
<1> QED BY <1>1, <1>3, <1>4, Kept DEF Keeps

LEMMA OtherAdminInv ==
  ASSUME ConsoleInv, NEW p \in Pages, NEW i \in Ids, OtherAdmin(p, i)
  PROVE  ConsoleInv' /\ Keeps
<1>1. ConsoleTyped /\ db[p][i] \in TableRow BY DEF ConsoleInv, ConsoleTyped, Table
<1>2. count' \in Counts BY <1>1, WithinTyped DEF OtherAdmin
<1>3. PICK row \in TableRow : Writes(p, i, row)
  <2>1. CASE Writes(p, i, Gone) BY <2>1, RowFacts
  <2>2. ASSUME NEW b \in Contents(p), Writes(p, i, [db[p][i] EXCEPT !.body = b])
        PROVE  \E row \in TableRow : Writes(p, i, row)
    <3>1. b \in Said BY DEF Contents, Said
    <3>2. [db[p][i] EXCEPT !.body = b] \in TableRow BY <1>1, <3>1 DEF TableRow
    <3> QED BY <2>2, <3>2
  <2> QED BY <2>1, <2>2 DEF OtherAdmin
<1>4. /\ db' \in [Pages -> Table] /\ version' \in [Pages -> Nat]
      /\ \A q \in Pages : version'[q] >= version[q]
  BY <1>1, <1>3, WritesTyped
<1> QED BY <1>2, <1>4, OthersWrite DEF OtherAdmin

LEMMA SyncEndsInv == ASSUME ConsoleInv, NEW i \in Ids, SyncEnds(i) PROVE ConsoleInv' /\ Keeps
<1>1. ConsoleTyped /\ count \in Counts BY Now
<1>2. /\ db \in [Pages -> Table] /\ version \in [Pages -> Nat]
  BY <1>1 DEF ConsoleTyped
<1>3. count' \in Counts /\ UNCHANGED <<page, ui, calls, query, acked>> BY <1>1 DEF SyncEnds
<1>4. CASE UNCHANGED <<db, version>>
  <2>1. \A p \in Pages : version'[p] >= version[p] BY <1>2, <1>4
  <2> QED BY <1>2, <1>3, <1>4, <2>1, OthersWrite
<1>5. CASE Writes("filters", i, [db["filters"][i] EXCEPT !.synced = TRUE])
  <2>1. "filters" \in Pages /\ i \in Ids => [db["filters"][i] EXCEPT !.synced = TRUE] \in TableRow
    <3> SUFFICES ASSUME "filters" \in Pages PROVE [db["filters"][i] EXCEPT !.synced = TRUE] \in TableRow
      OBVIOUS
    <3>1. PICK r \in TableRow : r = db["filters"][i] BY <1>2 DEF Table
    <3> QED BY <3>1 DEF TableRow
  <2>2. /\ db' \in [Pages -> Table] /\ version' \in [Pages -> Nat]
        /\ \A q \in Pages : version'[q] >= version[q]
    BY <1>1, <1>5, <2>1, WritesTyped
  <2> QED BY <1>3, <2>2, OthersWrite
<1> QED BY <1>4, <1>5 DEF SyncEnds
-----------------------------------------------------------------------------
(* The cache's own steps change the request and the list of one page.         *)
LEMMA OneList ==
  ASSUME ConsoleInv, UNCHANGED <<page, ui, calls, server, acked>>, count' \in Counts,
         NEW p \in Pages, NEW f \in Request, fetch' = [fetch EXCEPT ![p] = f], Reads(f, acked[p]),
         NEW e \in CacheEntry, cache' = [cache EXCEPT ![p] = e], Current(e, acked[p])
  PROVE  ConsoleInv' /\ Keeps
<1>1. ConsoleTyped' BY DEF ConsoleInv, ConsoleTyped, server
<1>2. ASSUME NEW q \in Pages
      PROVE  Reads(fetch'[q], acked'[q]) /\ Current(cache'[q], acked'[q])
  BY DEF ConsoleInv, ConsoleTyped, Dated
<1>3. Dated' BY <1>2 DEF ConsoleInv, Dated, server
<1> QED BY <1>1, <1>3 DEF ConsoleInv, Keeps

LEMMA CacheInv ==
  ASSUME ConsoleInv, NEW p \in Pages, ReadRows(p) \/ Loaded(p) \/ LoadFailed(p)
  PROVE  ConsoleInv' /\ Keeps
<1>1. /\ ConsoleTyped /\ count \in Counts /\ fetch \in [Pages -> Request]
      /\ cache \in [Pages -> CacheEntry] /\ fetch[p] \in Request /\ cache[p] \in CacheEntry
      /\ db[p] \in Table /\ version[p] \in Nat
  BY Now DEF ConsoleTyped
<1>2. /\ Reads(fetch[p], acked[p]) /\ Current(cache[p], acked[p])
      /\ acked[p] \in Nat /\ acked[p] <= version[p]
  BY DEF ConsoleInv, ConsoleTyped, Dated
<1>3. Idle \in Request /\ Reads(Idle, acked[p]) BY AskedFacts DEF Reads
<1>4. CASE ReadRows(p)
  <2>1. PICK b \in BOOLEAN : b = fetch[p].raced BY <1>1, <1>4 DEF ReadRows, Request, Idle
  <2>2. PICK f : f = [state |-> "read", rows |-> db[p], ver |-> version[p], raced |-> b] OBVIOUS
  <2>3. f \in Request BY <1>1, <2>2 DEF Request
  <2>4. Reads(f, acked[p]) BY <1>1, <1>2, <2>2 DEF Reads
  <2>5. /\ fetch' = [fetch EXCEPT ![p] = f] /\ cache' = [cache EXCEPT ![p] = cache[p]]
        /\ UNCHANGED <<page, ui, calls, server, acked, count>>
    BY <1>1, <1>4, <2>1, <2>2 DEF ReadRows
  <2> QED BY <1>1, <1>2, <2>3, <2>4, <2>5, OneList
<1>5. CASE Loaded(p)
  <2>1. PICK f \in Request : f = fetch[p] BY <1>1
  <2>2. f.state = "read" BY <1>5, <2>1 DEF Loaded
  <2>3. f.rows \in Table /\ f.ver \in Nat /\ f.raced \in BOOLEAN BY <2>2 DEF Request, Idle
  <2>4. PICK e : e = [loaded |-> TRUE, rows |-> f.rows, ver |-> f.ver, stale |-> FALSE,
                      error |-> FALSE, raced |-> f.raced] OBVIOUS
  <2>5. e \in CacheEntry BY <2>3, <2>4 DEF CacheEntry
  <2>6. Current(e, acked[p]) BY <1>2, <2>1, <2>2, <2>4 DEF Current, Reads
  <2>7. /\ fetch' = [fetch EXCEPT ![p] = Idle] /\ cache' = [cache EXCEPT ![p] = e]
        /\ UNCHANGED <<page, ui, calls, server, acked, count>>
    BY <1>5, <2>1, <2>4 DEF Loaded
  <2> QED BY <1>1, <1>3, <2>5, <2>6, <2>7, OneList
<1>6. CASE LoadFailed(p)
  <2>1. count' \in Counts BY <1>1, <1>6, WithinTyped DEF LoadFailed
  <2>2. PICK e : e = [cache[p] EXCEPT !.error = TRUE, !.stale = TRUE] OBVIOUS
  <2>3. e \in CacheEntry /\ e.stale BY <1>1, <2>2 DEF CacheEntry
  <2>4. Current(e, acked[p]) BY <2>3 DEF Current
  <2>5. /\ fetch' = [fetch EXCEPT ![p] = Idle] /\ cache' = [cache EXCEPT ![p] = e]
        /\ UNCHANGED <<page, ui, calls, server, acked>>
    BY <1>1, <1>6, <2>2 DEF LoadFailed
  <2> QED BY <1>3, <2>1, <2>3, <2>4, <2>5, OneList
<1> QED BY <1>4, <1>5, <1>6

LEMMA PollInv == ASSUME ConsoleInv, PollTick PROVE ConsoleInv' /\ Keeps
<1>1. ui \in Component /\ calls \subseteq Mutation /\ \A c \in calls : Sound(c, version) BY Now
<1>2. Invalidated("filters") /\ UNCHANGED <<page, ui, calls, server, count, acked>>
  BY DEF PollTick
<1> QED BY <1>1, <1>2, MarkedInv DEF Keeps

LEMMA NextInv == ASSUME ConsoleInv, Next PROVE ConsoleInv' /\ Keeps
<1>1. ASSUME User PROVE ConsoleInv' /\ Keeps
  BY <1>1, FiltersInv, RewritesInv, ClientsInv, UsersInv, UpstreamsInv, NavigateInv DEF User
<1>2. ASSUME NEW c \in calls, ServerStep(c) PROVE ConsoleInv' /\ Keeps BY <1>2, ServerInv
<1>3. ASSUME NEW c \in calls, AnswerStep(c) PROVE ConsoleInv' /\ Keeps
  BY <1>3, FilterAnswersInv, PageAnswersInv, FailedInv DEF AnswerStep
<1>4. ASSUME NEW p \in Pages, \/ ReadRows(p) \/ Loaded(p) \/ LoadFailed(p)
                              \/ \E i \in Ids : OtherAdmin(p, i)
      PROVE  ConsoleInv' /\ Keeps
  BY <1>4, CacheInv, OtherAdminInv
<1>5. ASSUME NEW i \in Ids, SyncEnds(i) PROVE ConsoleInv' /\ Keeps BY <1>5, SyncEndsInv
<1>6. ASSUME PollTick \/ IntervalTick PROVE ConsoleInv' /\ Keeps BY <1>6, PollInv, ReloadInv
<1> QED BY <1>1, <1>2, <1>3, <1>4, <1>5, <1>6 DEF Next

(* Whatever the five pages, the server and other administrators do, the query *)
(* cache stays dated.                                                         *)
THEOREM ConsoleInvariance == Spec => []ConsoleInv
<1>1. ConsoleInv /\ UNCHANGED vars => ConsoleInv'
  <2> SUFFICES ASSUME ConsoleInv, UNCHANGED vars PROVE ConsoleInv' OBVIOUS
  <2>1. /\ UNCHANGED <<page, server, query, acked>> /\ ui' = ui /\ calls' = calls /\ count' = count
    BY DEF vars, server, query
  <2> QED BY <2>1, Now, ComponentInv
<1>2. ConsoleInv /\ Next => ConsoleInv' BY NextInv
<1> QED BY <1>1, <1>2, ConsoleInitially, PTL DEF Spec

(* After a write of this console was answered, no list passes for fresh with  *)
(* rows from before it, unless a request nobody cancels was under way.        *)
THEOREM WritesAreShown == Spec => []OwnWritesShown
<1>1. ConsoleInv => OwnWritesShown BY DEF ConsoleInv, Dated, Current, OwnWritesShown
<1> QED BY <1>1, ConsoleInvariance, PTL

(* An answer empties the selection only when every delete of its batch has    *)
(* succeeded.                                                                 *)
THEOREM FailureKeepsSelection == Spec => KeptOnFailure
<1>1. ConsoleInv /\ [Next]_vars => [Keeps]_vars BY NextInv
<1>2. Spec => [][Keeps]_vars BY <1>1, ConsoleInvariance, PTL DEF Spec
<1> QED BY <1>2 DEF Keeps, KeptOnFailure
=============================================================================
