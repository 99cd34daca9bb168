--------------------------- MODULE SessionProofs ---------------------------
(* The login limit holds for every limit, every window and every number of    *)
(* overlapping requests (the first part); the sessions of any number of tabs  *)
(* use that counter as LoginAttempts expects, so it holds for them, and the   *)
(* password change is enforced.                                               *)
EXTENDS Session, FiniteSetTheorems, TLAPS

(* The limit alone is not inductive: a request may start while there is no    *)
(* entry, and that only counts nothing because a missing entry has count 0.   *)
IInv == /\ TypeOK
        /\ ~present => count = 0
        /\ LimitHolds

(* A request that moves to or from verifying changes the number in progress   *)
(* by one; one that does not changes nothing.                                 *)
LEMMA VerifyingMoves ==
  ASSUME TypeOK, NEW r \in Requests, NEW to \in {"idle", "verifying", "refused"}, Move(r, to)
  PROVE  /\ IsFiniteSet(Verifying) /\ Cardinality(Verifying) \in Nat
         /\ Cardinality(Verifying) <= Cardinality(Requests)
         /\ Cardinality(Requests) \in Nat
         /\ IsFiniteSet(Verifying') /\ Cardinality(Verifying') \in Nat
         /\ Cardinality(Verifying') <= Cardinality(Requests)
         /\ request[r] = "verifying" /\ to # "verifying"
              => Cardinality(Verifying') = Cardinality(Verifying) - 1
         /\ request[r] # "verifying" /\ to = "verifying"
              => Cardinality(Verifying') = Cardinality(Verifying) + 1
         /\ request[r] # "verifying" /\ to # "verifying"
              => Cardinality(Verifying') = Cardinality(Verifying)
<1>1. IsFiniteSet(Requests) BY LimitAssumption
<1>2. request' \in [Requests -> {"idle", "verifying", "refused"}] /\ request'[r] = to
  BY DEF TypeOK, Move
<1>3. \A q \in Requests : q # r => request'[q] = request[q]
  BY DEF TypeOK, Move
<1>4. Verifying \subseteq Requests /\ Verifying' \subseteq Requests BY DEF Verifying
<1>5. /\ IsFiniteSet(Verifying) /\ IsFiniteSet(Verifying')
      /\ Cardinality(Verifying) <= Cardinality(Requests)
      /\ Cardinality(Verifying') <= Cardinality(Requests)
  BY <1>1, <1>4, FS_Subset
<1>6. /\ Cardinality(Requests) \in Nat
      /\ Cardinality(Verifying) \in Nat /\ Cardinality(Verifying') \in Nat
  BY <1>1, <1>5, FS_CardinalityType
<1>7. ASSUME request[r] = "verifying", to # "verifying"
      PROVE  Cardinality(Verifying') = Cardinality(Verifying) - 1
  <2>1. r \in Verifying /\ Verifying' = Verifying \ {r}
    BY <1>2, <1>3, <1>7 DEF Verifying
  <2> QED BY <2>1, <1>5, FS_RemoveElement
<1>8. ASSUME request[r] # "verifying", to = "verifying"
      PROVE  Cardinality(Verifying') = Cardinality(Verifying) + 1
  <2>1. r \notin Verifying /\ Verifying' = Verifying \union {r}
    BY <1>2, <1>3, <1>8 DEF Verifying
  <2> QED BY <2>1, <1>5, FS_AddElement
<1>9. ASSUME request[r] # "verifying", to # "verifying" PROVE Verifying' = Verifying
  BY <1>2, <1>3, <1>9 DEF Verifying
<1> QED BY <1>5, <1>6, <1>7, <1>8, <1>9

LEMMA WindowTyped == FAILURE_WINDOW \in Nat /\ 0 \in 0..(FAILURE_WINDOW + 1)
BY LimitAssumption

LEMMA TypeStep == TypeOK /\ [Next]_vars => TypeOK'
<1> SUFFICES ASSUME TypeOK, [Next]_vars PROVE TypeOK' OBVIOUS
<1> USE LimitAssumption, WindowTyped DEF TypeOK
<1>1. ASSUME NEW r \in Requests, Check(r) PROVE TypeOK'
  BY <1>1 DEF Check, Move
<1>2. ASSUME NEW r \in Requests, Refuse(r) \/ GiveUp(r) PROVE TypeOK'
  BY <1>2 DEF Refuse, GiveUp, Move, entry
<1>3. ASSUME NEW r \in Requests, Fail(r) PROVE TypeOK'
  BY <1>3 DEF Fail, Move
<1>4. ASSUME NEW r \in Requests, Succeed(r) PROVE TypeOK'
  BY <1>4 DEF Succeed, Move
<1>5. CASE Tick BY <1>5 DEF Tick, Expired
<1>6. CASE Restart BY <1>6 DEF Restart
<1>7. CASE UNCHANGED vars BY <1>7 DEF vars, entry
<1> QED BY <1>1, <1>2, <1>3, <1>4, <1>5, <1>6, <1>7 DEF Next

LEMMA LimitStep == IInv /\ [Next]_vars => LimitHolds' /\ (~present => count = 0)'
<1> SUFFICES ASSUME IInv, [Next]_vars PROVE LimitHolds' /\ (~present => count = 0)'
  OBVIOUS
<1> USE LimitAssumption DEF IInv, LimitHolds
<1>1. ASSUME NEW r \in Requests, Check(r) PROVE LimitHolds' /\ (~present => count = 0)'
  <2>1. /\ Cardinality(Verifying') = Cardinality(Verifying) + 1
        /\ Cardinality(Verifying') \in Nat /\ Cardinality(Verifying') <= Cardinality(Requests)
        /\ Cardinality(Requests) \in Nat
    BY <1>1, VerifyingMoves DEF Check
  <2>2. count' < MAX_LOGIN_FAILURES /\ count' \in Nat
    BY <1>1 DEF Check, Locked, TypeOK
  <2>3. LimitHolds' BY <2>1, <2>2
  <2>4. (~present => count = 0)' BY <1>1 DEF Check, TypeOK
  <2> QED BY <2>3, <2>4
<1>2. ASSUME NEW r \in Requests, Refuse(r) PROVE LimitHolds' /\ (~present => count = 0)'
  <2>1. Cardinality(Verifying') = Cardinality(Verifying)
    BY <1>2, VerifyingMoves DEF Refuse
  <2> QED BY <1>2, <2>1 DEF Refuse, entry
<1>3. ASSUME NEW r \in Requests, Fail(r) PROVE LimitHolds' /\ (~present => count = 0)'
  <2>1. /\ Cardinality(Verifying') = Cardinality(Verifying) - 1
        /\ Cardinality(Verifying) \in Nat /\ Cardinality(Verifying) <= Cardinality(Requests)
        /\ Cardinality(Requests) \in Nat
    BY <1>3, VerifyingMoves DEF Fail
  <2>2. count \in Nat /\ (count' = 1 \/ count' = count + 1) /\ present'
    BY <1>3 DEF Fail, TypeOK
  <2> QED BY <2>1, <2>2
<1>4. ASSUME NEW r \in Requests, Succeed(r) PROVE LimitHolds' /\ (~present => count = 0)'
  <2>1. /\ Cardinality(Verifying') = Cardinality(Verifying) - 1
        /\ Cardinality(Verifying) \in Nat /\ Cardinality(Verifying) <= Cardinality(Requests)
        /\ Cardinality(Requests) \in Nat
    BY <1>4, VerifyingMoves DEF Succeed
  <2> QED BY <1>4, <2>1 DEF Succeed
<1>5. ASSUME NEW r \in Requests, GiveUp(r) PROVE LimitHolds' /\ (~present => count = 0)'
  <2>1. /\ Cardinality(Verifying') <= Cardinality(Verifying)
        /\ Cardinality(Verifying') \in Nat /\ Cardinality(Verifying) \in Nat
        /\ Cardinality(Requests) \in Nat
    BY <1>5, VerifyingMoves DEF GiveUp
  <2> QED BY <1>5, <2>1 DEF GiveUp, TypeOK, entry
<1>6. CASE Tick
  BY <1>6 DEF Tick, Verifying
<1>7. CASE Restart
  <2>1. Verifying' = {} /\ Cardinality(Verifying') = 0
    BY <1>7, FS_EmptySet DEF Restart, Verifying
  <2>2. Cardinality(Requests) \in Nat BY FS_CardinalityType
  <2> QED BY <1>7, <2>1, <2>2 DEF Restart
<1>8. CASE UNCHANGED vars
  BY <1>8 DEF vars, entry, Verifying
<1> QED BY <1>1, <1>2, <1>3, <1>4, <1>5, <1>6, <1>7, <1>8 DEF Next

LEMMA InitIInv == Init => IInv
<1> SUFFICES ASSUME Init PROVE IInv OBVIOUS
<1>1. Verifying = {} /\ Cardinality(Verifying) = 0
  BY FS_EmptySet DEF Init, Verifying
<1>2. Cardinality(Requests) \in Nat BY LimitAssumption, FS_CardinalityType
<1>3. TypeOK BY WindowTyped DEF Init, TypeOK
<1>4. LimitHolds BY <1>1, <1>2, LimitAssumption DEF Init, LimitHolds
<1> QED BY <1>3, <1>4 DEF Init, IInv

THEOREM Invariance == Spec => []IInv
<1>1. Init => IInv BY InitIInv
<1>2. IInv /\ [Next]_vars => IInv'
  BY TypeStep, LimitStep DEF IInv
<1> QED BY <1>1, <1>2, PTL DEF Spec

(* The counter of auth.rs keeps its type, whatever the requests do. *)
THEOREM Typing == Spec => []TypeOK
BY Invariance, PTL DEF IInv

(* No window counts more failures than the limit and the requests that were   *)
(* already past the check allow.                                              *)
THEOREM LimitAlwaysHolds == Spec => []LimitHolds
BY Invariance, PTL DEF IInv
-----------------------------------------------------------------------------
(* The sessions.                                                              *)
Routes == {"login", "change", "app"}
TabState == [token : Nat, must : BOOLEAN, page : Routes, busy : BOOLEAN, home : BOOLEAN,
             reloaded : BOOLEAN]
Call == [tab : Tabs, kind : {"login", "change", "read", "logout"}, right : BOOLEAN, token : Nat,
         state : {"sent", "checked", "ok", "error", "unauthorized"}]

SessionTyped ==
    /\ tab \in [Tabs -> TabState] /\ storage \in Nat /\ calls \subseteq Call
    /\ server \in [weak : BOOLEAN, issued : Nat, weakly : SUBSET Nat, expired : SUBSET Nat]
    /\ acts \in Nat
-----------------------------------------------------------------------------
(* A page load drops a request of its tab, whatever it is doing.              *)
LEMMA LoadsIsGiveUp ==
  ASSUME TypeOK, NEW t \in Tabs, NEW s, NEW page_, Loads(t, s, page_), UNCHANGED entry
  PROVE  [Next]_vars
<1>1. CASE request[t] = "idle"
  <2>1. request' = request BY <1>1 DEF TypeOK, Loads, Tabs
  <2> QED BY <2>1 DEF vars
<1>2. CASE request[t] # "idle"
  <2>1. GiveUp(t) BY <1>2 DEF GiveUp, Move, Loads
  <2> QED BY <2>1 DEF Next, Tabs
<1> QED BY <1>1, <1>2

(* Every step of the sessions is a step of the counter, or leaves it alone.   *)
LEMMA CounterStep == TypeOK /\ SessionTyped /\ [SessionNext]_allVars => [Next]_vars
<1> SUFFICES ASSUME TypeOK, SessionTyped, [SessionNext]_allVars PROVE [Next]_vars OBVIOUS
<1>1. \A c \in calls : c.tab \in Tabs BY DEF SessionTyped, Call
<1>2. ASSUME NEW t \in Tabs, User(t) \/ GoHome(t) PROVE [Next]_vars
  <2>1. ASSUME NEW page_ \in {"login", "change", "app"}, Reload(t, page_) PROVE [Next]_vars
    BY <2>1, LoadsIsGiveUp DEF Reload
  <2>2. CASE \/ AskChange(t) \/ LeaveChange(t) \/ Read(t) \/ Logout(t) \/ GoHome(t)
             \/ \E right \in BOOLEAN : Login(t, right) \/ Change(t, right)
    BY <2>2 DEF AskChange, LeaveChange, Open, Read, Logout, GoHome, Login, Change
  <2> QED BY <1>2, <2>1, <2>2 DEF User
<1>3. ASSUME NEW c \in calls, Answer(c) PROVE [Next]_vars
  <2>1. CASE LoginChecked(c) BY <1>1, <2>1 DEF LoginChecked, Next, Tabs
  <2>2. CASE LoginServed(c) BY <1>1, <2>2 DEF LoginServed, Next, Tabs
  <2>3. CASE Unauthorized(c) BY <1>1, <2>3, LoadsIsGiveUp DEF Unauthorized
  <2>4. CASE LoggedIn(c) \/ Served(c) \/ TimesOut(c) \/ Changed(c) \/ NotDone(c) \/ ReadDone(c)
             \/ LoggedOut(c)
    BY <2>4 DEF LoggedIn, Served, TimesOut, Changed, NotDone, ReadDone, LoggedOut
  <2> QED BY <1>3, <2>1, <2>2, <2>3, <2>4 DEF Answer
<1>4. ASSUME NEW n \in 1..MaxTokens, Expire(n) PROVE [Next]_vars BY <1>4 DEF Expire
<1>5. CASE Tick /\ UNCHANGED sessionVars BY <1>5 DEF Next
<1>6. CASE ServerRestart BY <1>6 DEF ServerRestart, Next
<1>7. CASE UNCHANGED allVars BY <1>7 DEF allVars
<1> QED BY <1>2, <1>3, <1>4, <1>5, <1>6, <1>7 DEF SessionNext
-----------------------------------------------------------------------------
(* What a page load and Open make of a tab is typed, and never the protected  *)
(* pages while the flag is up.                                                *)
LEMMA OpenTyped ==
  ASSUME NEW s \in TabState, NEW r \in Routes
  PROVE  /\ Allowed(s, r) \in Routes
         /\ s.must => Allowed(s, r) # "app"
BY DEF TabState, Routes, Allowed

LEMMA LoadsTyped ==
  ASSUME SessionTyped, NEW t \in Tabs, NEW s \in Nat, NEW r \in Routes, Loads(t, s, r)
  PROVE  /\ tab' \in [Tabs -> TabState] /\ calls' \subseteq calls
         /\ tab'[t].token = s /\ tab'[t].reloaded /\ tab'[t].must = FALSE
         /\ \A u \in Tabs \ {t} : tab'[u] = tab[u]
<1> DEFINE fresh == [Start EXCEPT !.token = s]
           page_ == IF r = "login" THEN r ELSE Allowed(fresh, r)
<1>1. fresh \in TabState /\ fresh.token = s /\ fresh.reloaded /\ fresh.must = FALSE
  BY DEF Start, TabState, Routes
<1>2. page_ \in Routes BY <1>1, OpenTyped DEF Routes
<1>3. [fresh EXCEPT !.page = page_] \in TabState BY <1>1, <1>2 DEF TabState
<1>4. tab' = [tab EXCEPT ![t] = [fresh EXCEPT !.page = page_]] BY DEF Loads
<1> HIDE DEF fresh, page_
<1>5. /\ [fresh EXCEPT !.page = page_].token = s
      /\ [fresh EXCEPT !.page = page_].reloaded
      /\ [fresh EXCEPT !.page = page_].must = FALSE
  BY <1>1, <1>2 DEF TabState
<1> QED BY <1>3, <1>4, <1>5 DEF SessionTyped, Loads

LEMMA SetTyped ==
  ASSUME SessionTyped, NEW t \in Tabs, NEW s \in TabState, Set(t, s)
  PROVE  /\ tab' \in [Tabs -> TabState] /\ storage' \in Nat /\ storage' = s.token
         /\ tab'[t] = s /\ \A u \in Tabs \ {t} : tab'[u] = tab[u]
BY DEF SessionTyped, Set, TabState
-----------------------------------------------------------------------------
(* The flag of a tab whose token was issued for the default password is up as *)
(* long as that is the password, and a password change that succeeded has     *)
(* ended that: without the second half Changed could lower the flag too soon. *)
(* No token is around before it is issued, or a new weak token could be one a *)
(* tab already has.                                                           *)
GoodTab(s) == /\ s.token <= server.issued
              /\ s.must => s.page # "app"
              /\ ~s.reloaded /\ s.token \in server.weakly /\ server.weak => s.must
GoodCall(c) == /\ c.token <= server.issued
               /\ c.kind = "change" /\ c.state = "ok" => ~server.weak
SInv == /\ SessionTyped
        /\ storage <= server.issued /\ server.weakly \subseteq 1..server.issued
        /\ \A t \in Tabs : GoodTab(tab[t])
        /\ \A c \in calls : GoodCall(c)

(* Steps that leave the server alone have to look after what they touch.      *)
LEMMA ServerAlone ==
  ASSUME SInv, UNCHANGED server, acts' \in Nat,
         tab' \in [Tabs -> TabState], storage' \in Nat, storage' <= server.issued,
         \A t \in Tabs : tab'[t] = tab[t] \/ GoodTab(tab'[t]),
         calls' \subseteq Call, \A c \in calls' : c \in calls \/ GoodCall(c)
  PROVE  SInv'
<1>1. \A s : GoodTab(s)' <=> GoodTab(s) BY DEF GoodTab
<1>2. ASSUME NEW t \in Tabs PROVE GoodTab(tab[t])' BY DEF SInv, GoodTab
<1>3. ASSUME NEW c \in calls' PROVE GoodCall(c)' BY DEF SInv, GoodCall
<1> QED BY <1>2, <1>3 DEF SInv, SessionTyped

(* Steps that write the store of one tab.                                     *)
LEMMA OneTab ==
  ASSUME SInv, NEW t \in Tabs, NEW s \in TabState, Set(t, s), GoodTab(s), UNCHANGED server,
         acts' \in Nat, calls' \subseteq Call, \A c \in calls' : c \in calls \/ GoodCall(c)
  PROVE  SInv'
<1>1. SessionTyped BY DEF SInv
<1>2. /\ tab' \in [Tabs -> TabState] /\ storage' \in Nat /\ storage' = s.token
      /\ tab'[t] = s /\ \A u \in Tabs \ {t} : tab'[u] = tab[u]
  BY <1>1, SetTyped
<1>3. storage' <= server.issued BY <1>2 DEF GoodTab
<1>4. \A u \in Tabs : tab'[u] = tab[u] \/ GoodTab(tab'[u]) BY <1>2
<1> QED BY <1>2, <1>3, <1>4, ServerAlone

(* Steps that load a page in one tab.                                         *)
LEMMA OneLoad ==
  ASSUME SInv, NEW t \in Tabs, NEW s \in Nat, NEW r \in Routes, Loads(t, s, r),
         s <= server.issued, storage' \in {storage, s}, UNCHANGED server, acts' \in Nat
  PROVE  SInv'
<1>1. SessionTyped BY DEF SInv
<1>2. /\ tab' \in [Tabs -> TabState] /\ calls' \subseteq calls
      /\ tab'[t].token = s /\ tab'[t].reloaded /\ tab'[t].must = FALSE
      /\ \A u \in Tabs \ {t} : tab'[u] = tab[u]
  BY <1>1, LoadsTyped
<1>3. GoodTab(tab'[t]) BY <1>2 DEF GoodTab
<1>4. \A u \in Tabs : tab'[u] = tab[u] \/ GoodTab(tab'[u]) BY <1>2, <1>3
<1>5. storage' \in Nat /\ storage' <= server.issued BY <1>1 DEF SInv, SessionTyped
<1>6. calls' \subseteq Call BY <1>1, <1>2 DEF SessionTyped
<1> QED BY <1>2, <1>4, <1>5, <1>6, ServerAlone

(* Steps that show another page of a tab.                                     *)
LEMMA OneOpen ==
  ASSUME SInv, NEW t \in Tabs, NEW r \in Routes, NEW h \in BOOLEAN,
         tab' = [tab EXCEPT ![t] = [tab[t] EXCEPT !.page = Allowed(tab[t], r), !.home = h]],
         UNCHANGED <<storage, calls, server, acts>>
  PROVE  SInv'
<1> DEFINE s == [tab[t] EXCEPT !.page = Allowed(tab[t], r), !.home = h]
<1>1. tab[t] \in TabState /\ GoodTab(tab[t]) BY DEF SInv, SessionTyped
<1>2. Allowed(tab[t], r) \in Routes /\ (tab[t].must => Allowed(tab[t], r) # "app")
  BY <1>1, OpenTyped
<1>3. /\ s \in TabState /\ s.token = tab[t].token /\ s.must = tab[t].must
      /\ s.reloaded = tab[t].reloaded /\ s.page = Allowed(tab[t], r)
  BY <1>1, <1>2 DEF TabState
<1>4. GoodTab(s) BY <1>1, <1>2, <1>3 DEF GoodTab
<1>5. tab' \in [Tabs -> TabState] /\ \A u \in Tabs : tab'[u] = tab[u] \/ GoodTab(tab'[u])
  BY <1>3, <1>4 DEF SInv, SessionTyped
<1> QED BY <1>5, ServerAlone DEF SInv, SessionTyped

(* A request that is sent carries the token of its tab, which is issued; one  *)
(* that comes to another state only has to look after its answer.             *)
LEMMA SentTyped ==
  ASSUME SInv, NEW t \in Tabs, NEW kind \in {"login", "change", "read", "logout"},
         NEW right \in BOOLEAN, Sent(t, kind, right)
  PROVE  calls' \subseteq Call /\ \A c \in calls' : c \in calls \/ GoodCall(c)
<1> DEFINE new == [tab |-> t, kind |-> kind, right |-> right, token |-> tab[t].token, state |-> "sent"]
<1>1. tab[t] \in TabState /\ GoodTab(tab[t]) BY DEF SInv, SessionTyped
<1>2. new \in Call BY <1>1 DEF Call, TabState
<1>3. GoodCall(new) BY <1>1 DEF GoodCall, GoodTab
<1>4. calls' = calls \union {new} BY DEF Sent
<1> QED BY <1>2, <1>3, <1>4 DEF SInv, SessionTyped

LEMMA BecomesTyped ==
  ASSUME SInv, NEW c \in calls,
         NEW state \in {"sent", "checked", "ok", "error", "unauthorized"}, Becomes(c, state)
  PROVE  /\ calls' \subseteq Call
         /\ \A d \in calls' : d \in calls \/ (/\ d.token = c.token /\ d.kind = c.kind
                                              /\ d.state = state)
         /\ state # "ok" => \A d \in calls' : d \in calls \/ GoodCall(d)
<1> DEFINE new == [c EXCEPT !.state = state]
<1>1. c \in Call /\ GoodCall(c) BY DEF SInv, SessionTyped
<1>2. new \in Call /\ new.token = c.token /\ new.kind = c.kind /\ new.state = state
  BY <1>1 DEF Call
<1>3. calls' = (calls \ {c}) \union {new} BY DEF Becomes
<1>4. state # "ok" => GoodCall(new) BY <1>1, <1>2 DEF GoodCall
<1> HIDE DEF new
<1> QED BY <1>2, <1>3, <1>4 DEF SInv, SessionTyped

LEMMA UserStep ==
  ASSUME SInv, NEW t \in Tabs, User(t) \/ GoHome(t)
  PROVE  SInv'
<1>1. tab[t] \in TabState /\ GoodTab(tab[t]) /\ acts \in Nat /\ tab \in [Tabs -> TabState]
  BY DEF SInv, SessionTyped
<1>2. ASSUME Act PROVE acts' \in Nat BY <1>1, <1>2 DEF Act
<1>3. ASSUME NEW r \in {"login", "change", "app"}, Reload(t, r) PROVE SInv'
  <2>1. storage \in Nat /\ storage <= server.issued BY DEF SInv, SessionTyped
  <2> QED BY <1>2, <1>3, <2>1, OneLoad DEF Reload, Routes
<1>4. ASSUME NEW r \in Routes, Open(t, r) PROVE SInv'
  <2>1. [tab[t] EXCEPT !.page = Allowed(tab[t], r)]
          = [tab[t] EXCEPT !.page = Allowed(tab[t], r), !.home = tab[t].home]
    BY <1>1 DEF TabState
  <2>2. tab' = [tab EXCEPT ![t] = [tab[t] EXCEPT !.page = Allowed(tab[t], r)]]
    BY <1>4 DEF Open
  <2>3. tab[t].home \in BOOLEAN BY <1>1 DEF TabState
  <2> DEFINE h == tab[t].home
             both == [tab[t] EXCEPT !.page = Allowed(tab[t], r), !.home = h]
  <2>4. tab' = [tab EXCEPT ![t] = both] BY <2>1, <2>2
  <2>5. UNCHANGED <<storage, calls, server, acts>> BY <1>4 DEF Open
  <2> HIDE DEF h
  <2> QED BY <2>3, <2>4, <2>5, OneOpen DEF h
<1>5. CASE AskChange(t) \/ LeaveChange(t)
  BY <1>4, <1>5 DEF AskChange, LeaveChange, Routes
<1>6. CASE GoHome(t)
  <2>1. tab' = [tab EXCEPT ![t] = [tab[t] EXCEPT !.page = Allowed(tab[t], "app"), !.home = FALSE]]
    <3> DEFINE s == [tab[t] EXCEPT !.home = FALSE]
               p == Allowed(tab[t], "app")
               first == [tab EXCEPT ![t].home = FALSE]
    <3>3. first = [tab EXCEPT ![t] = s] OBVIOUS
    <3>4. tab' = [first EXCEPT ![t].page = p] BY <1>6 DEF GoHome
    <3>5. first[t] = s BY <1>1, <3>3
    <3>6. tab' = [first EXCEPT ![t] = [s EXCEPT !.page = p]] BY <3>4, <3>5
    <3> HIDE DEF s, p, first
    <3>1. tab' = [tab EXCEPT ![t] = [s EXCEPT !.page = p]] BY <1>1, <3>3, <3>6
    <3> USE DEF s, p
    <3>2. [[tab[t] EXCEPT !.home = FALSE] EXCEPT !.page = Allowed(tab[t], "app")]
            = [tab[t] EXCEPT !.page = Allowed(tab[t], "app"), !.home = FALSE]
      BY <1>1 DEF TabState
    <3> QED BY <3>1, <3>2
  <2> QED BY <1>6, <2>1, OneOpen DEF GoHome, Routes
<1>7. ASSUME NEW right \in BOOLEAN, Login(t, right) \/ Change(t, right) PROVE SInv'
  <2> DEFINE s == [tab[t] EXCEPT !.busy = TRUE]
  <2>1. /\ s \in TabState /\ s.token = tab[t].token /\ s.must = tab[t].must
        /\ s.page = tab[t].page /\ s.reloaded = tab[t].reloaded
    BY <1>1 DEF TabState
  <2>2. GoodTab(s) BY <1>1, <2>1 DEF GoodTab
  <2>3. Set(t, s) /\ UNCHANGED server /\ acts' \in Nat BY <1>2, <1>7 DEF Login, Change
  <2>4. Sent(t, "login", right) \/ Sent(t, "change", right) BY <1>7 DEF Login, Change
  <2>5. calls' \subseteq Call /\ \A c \in calls' : c \in calls \/ GoodCall(c)
    BY <2>4, SentTyped
  <2> HIDE DEF s
  <2> QED BY <2>1, <2>2, <2>3, <2>5, OneTab
<1>8. CASE Read(t) \/ Logout(t)
  <2>1. Sent(t, "read", TRUE) \/ Sent(t, "logout", TRUE) BY <1>8 DEF Read, Logout
  <2>2. calls' \subseteq Call /\ \A c \in calls' : c \in calls \/ GoodCall(c)
    BY <2>1, SentTyped
  <2>3. UNCHANGED <<tab, storage, server>> /\ acts' \in Nat BY <1>2, <1>8 DEF Read, Logout
  <2> QED BY <1>1, <2>2, <2>3, ServerAlone DEF SInv, SessionTyped
<1> QED BY <1>3, <1>5, <1>6, <1>7, <1>8 DEF User

LEMMA AnswerStep ==
  ASSUME SInv, NEW c \in calls, Answer(c)
  PROVE  SInv'
<1>1. c \in Call /\ GoodCall(c) /\ c.tab \in Tabs /\ c.token \in Nat
  BY DEF SInv, SessionTyped, Call
<1>2. tab[c.tab] \in TabState /\ GoodTab(tab[c.tab]) BY <1>1 DEF SInv, SessionTyped
<1>3. /\ acts \in Nat /\ storage \in Nat /\ storage <= server.issued /\ calls \subseteq Call
      /\ tab \in [Tabs -> TabState] /\ server.issued \in Nat /\ server.weak \in BOOLEAN
      /\ server.weakly \subseteq 1..server.issued
  BY DEF SInv, SessionTyped
<1>4. ASSUME calls' = calls \ {c} PROVE calls' \subseteq Call /\ \A d \in calls' : d \in calls
  BY <1>3, <1>4
<1>5. CASE \/ LoginChecked(c) \/ TimesOut(c)
  <2>1. Becomes(c, "checked") \/ Becomes(c, "error")
    BY <1>5 DEF LoginChecked, TimesOut
  <2>2. calls' \subseteq Call /\ \A d \in calls' : d \in calls \/ GoodCall(d)
    BY <2>1, BecomesTyped
  <2>3. UNCHANGED <<tab, storage, server, acts>> BY <1>5 DEF LoginChecked, TimesOut
  <2> QED BY <1>3, <2>2, <2>3, ServerAlone
<1>6. CASE ReadDone(c)
  BY <1>3, <1>4, <1>6, ServerAlone DEF ReadDone
<1>7. CASE Unauthorized(c)
  <2>1. Loads(c.tab, 0, "login") /\ storage' = 0 /\ UNCHANGED server /\ acts' \in Nat
    BY <1>3, <1>7 DEF Unauthorized
  <2> QED BY <1>1, <1>3, <2>1, OneLoad DEF Routes
<1>8. CASE LoggedIn(c)
  <2> DEFINE S(weak, r) == [Start EXCEPT !.token = c.token, !.must = weak, !.reloaded = FALSE,
                                         !.page = r]
  <2>1. /\ Start.busy = FALSE /\ Start.home = FALSE /\ Start.token = 0
        /\ Start \in TabState
    BY DEF Start, TabState, Routes
  <2>2. /\ S(TRUE, "change") \in TabState /\ S(TRUE, "change").token = c.token
        /\ S(TRUE, "change").must = TRUE /\ S(TRUE, "change").page = "change"
    BY <1>1, <2>1 DEF TabState, Routes
  <2>3. /\ S(FALSE, "app") \in TabState /\ S(FALSE, "app").token = c.token
        /\ S(FALSE, "app").must = FALSE
    BY <1>1, <2>1 DEF TabState, Routes
  <2>4. GoodTab(S(TRUE, "change")) BY <1>1, <2>2 DEF GoodTab, GoodCall
  <2>5. c.token \notin server.weakly => GoodTab(S(FALSE, "app"))
    BY <1>1, <2>3 DEF GoodTab, GoodCall
  <2>6. UNCHANGED <<server, acts>> /\ calls' = calls \ {c} BY <1>8 DEF LoggedIn
  <2>7. CASE c.token \in server.weakly
    <3>1. Set(c.tab, S(TRUE, "change")) BY <1>8, <2>7 DEF LoggedIn, Set
    <3> HIDE DEF S
    <3> QED BY <1>1, <1>3, <1>4, <2>2, <2>4, <2>6, <3>1, OneTab
  <2>8. CASE c.token \notin server.weakly
    <3>1. Set(c.tab, S(FALSE, "app"))
      <4>1. (c.token \in server.weakly) = FALSE BY <2>8
      <4> QED BY <1>8, <4>1, Zenon DEF LoggedIn, Set
    <3> HIDE DEF S
    <3> QED BY <1>1, <1>3, <1>4, <2>3, <2>5, <2>6, <2>8, <3>1, OneTab
  <2> QED BY <2>7, <2>8
<1>9. CASE NotDone(c)
  <2> DEFINE s == [tab[c.tab] EXCEPT !.busy = FALSE]
  <2>1. /\ s \in TabState /\ s.token = tab[c.tab].token /\ s.must = tab[c.tab].must
        /\ s.page = tab[c.tab].page /\ s.reloaded = tab[c.tab].reloaded
    BY <1>2 DEF TabState
  <2>2. Set(c.tab, s) /\ UNCHANGED <<server, acts>> /\ calls' = calls \ {c}
    BY <1>9 DEF NotDone
  <2>3. GoodTab(s) BY <1>2, <2>1 DEF GoodTab
  <2> HIDE DEF s
  <2> QED BY <1>1, <1>3, <1>4, <2>1, <2>2, <2>3, OneTab
<1>10. CASE Changed(c)
  <2> DEFINE s == [tab[c.tab] EXCEPT !.must = FALSE, !.busy = FALSE, !.home = TRUE]
  <2>1. s \in TabState /\ s.token = tab[c.tab].token /\ s.must = FALSE
    BY <1>2 DEF TabState
  <2>2. Set(c.tab, s) /\ UNCHANGED <<server, acts>> /\ calls' = calls \ {c} /\ ~server.weak
    BY <1>1, <1>10 DEF Changed, GoodCall
  <2>3. GoodTab(s) BY <1>2, <2>1, <2>2 DEF GoodTab
  <2> HIDE DEF s
  <2> QED BY <1>1, <1>3, <1>4, <2>1, <2>2, <2>3, OneTab
<1>11. CASE LoggedOut(c)
  <2> DEFINE s == [tab[c.tab] EXCEPT !.token = 0, !.must = FALSE, !.page = "login"]
  <2>1. s \in TabState /\ s.token = 0 /\ s.must = FALSE BY <1>2 DEF TabState, Routes
  <2>2. Set(c.tab, s) /\ UNCHANGED <<server, acts>> /\ calls' = calls \ {c}
    BY <1>11 DEF LoggedOut
  <2>3. 0 \notin server.weakly BY <1>3
  <2>4. GoodTab(s) BY <1>3, <2>1, <2>3 DEF GoodTab
  <2> HIDE DEF s
  <2> QED BY <1>1, <1>3, <1>4, <2>1, <2>2, <2>4, OneTab
<1>12. CASE Served(c)
  <2>1. CASE Becomes(c, "unauthorized") /\ UNCHANGED server
    <3>1. calls' \subseteq Call /\ \A d \in calls' : d \in calls \/ GoodCall(d)
      BY <2>1, BecomesTyped
    <3> QED BY <1>3, <1>12, <2>1, <3>1, ServerAlone DEF Served
  <2>2. CASE /\ IF c.right THEN Becomes(c, "ok") ELSE Becomes(c, "error")
             /\ server' = [server EXCEPT !.weak = @ /\ ~(c.kind = "change" /\ c.right)]
    <3>1. /\ calls' \subseteq Call
          /\ \A d \in calls' : d \in calls \/ (/\ d.token = c.token /\ d.kind = c.kind
                                               /\ d.state = IF c.right THEN "ok" ELSE "error")
      BY <2>2, BecomesTyped
    <3>2. /\ server' \in [weak : BOOLEAN, issued : Nat, weakly : SUBSET Nat, expired : SUBSET Nat]
          /\ server'.issued = server.issued /\ server'.weakly = server.weakly
          /\ server'.weak => server.weak
          /\ c.kind = "change" /\ c.right => ~server'.weak
      BY <2>2 DEF SInv, SessionTyped
    <3>3. UNCHANGED <<tab, storage, acts>> BY <1>12 DEF Served
    <3>4. \A d \in calls' : GoodCall(d)'
      BY <1>1, <3>1, <3>2 DEF SInv, GoodCall
    <3>5. \A t \in Tabs : GoodTab(tab[t])' BY <3>2, <3>3 DEF SInv, GoodTab
    <3> QED BY <3>1, <3>2, <3>3, <3>4, <3>5 DEF SInv, SessionTyped
  <2> QED BY <1>12, <2>1, <2>2 DEF Served
<1>13. CASE LoginServed(c)
  <2>1. CASE (Becomes(c, "unauthorized") \/ Becomes(c, "error")) /\ UNCHANGED server
    <3>1. calls' \subseteq Call /\ \A d \in calls' : d \in calls \/ GoodCall(d)
      BY <2>1, BecomesTyped
    <3> QED BY <1>3, <1>13, <2>1, <3>1, ServerAlone DEF LoginServed
  <2>2. CASE /\ server' = [server EXCEPT !.issued = @ + 1,
                             !.weakly = IF server.weak THEN @ \union {server.issued + 1} ELSE @]
             /\ calls' = (calls \ {c})
                           \union {[c EXCEPT !.state = "ok", !.token = server.issued + 1]}
    <3>1. PICK n \in Nat : n = server.issued + 1 BY <1>3
    <3>2. PICK w \in SUBSET Nat : /\ w = IF server.weak THEN server.weakly \union {n} ELSE server.weakly
                                  /\ w \subseteq server.weakly \union {n}
      <4>1. server.weakly \in SUBSET Nat /\ server.weakly \union {n} \in SUBSET Nat
        BY <1>3, <3>1
      <4>2. CASE server.weak BY <4>1, <4>2, Zenon
      <4>3. CASE ~server.weak BY <4>1, <4>3, Zenon
      <4> QED BY <4>2, <4>3
    <3>3. server' = [server EXCEPT !.issued = n, !.weakly = w] BY <2>2, <3>1, <3>2
    <3>4. /\ server' \in [weak : BOOLEAN, issued : Nat, weakly : SUBSET Nat, expired : SUBSET Nat]
          /\ server'.issued = n /\ server'.weak = server.weak /\ server'.weakly = w
      BY <3>3 DEF SInv, SessionTyped
    <3>5. server'.weakly \subseteq 1..server'.issued BY <1>3, <3>1, <3>2, <3>4
    <3>6. UNCHANGED <<tab, storage, acts>> /\ c.kind = "login" BY <1>13 DEF LoginServed
    <3>7. PICK new : new = [c EXCEPT !.state = "ok", !.token = n] OBVIOUS
    <3>8. new \in Call /\ new.token = n /\ new.kind = "login" BY <1>1, <3>6, <3>7 DEF Call
    <3>9. calls' \subseteq calls \union {new} BY <2>2, <3>1, <3>7
    <3>10. ASSUME NEW d \in calls' PROVE d \in Call /\ GoodCall(d)'
      <4>1. CASE d = new BY <3>4, <3>8, <4>1 DEF GoodCall
      <4>2. CASE d \in calls
        <5>1. d \in Call /\ d.token \in Nat /\ GoodCall(d)
          BY <4>2 DEF SInv, SessionTyped, Call
        <5> QED BY <1>3, <3>1, <3>4, <5>1 DEF GoodCall
      <4> QED BY <3>9, <4>1, <4>2
    <3>11. ASSUME NEW t \in Tabs PROVE GoodTab(tab[t])'
      <4>1. tab[t].token \in Nat /\ GoodTab(tab[t]) /\ tab'[t] = tab[t]
        BY <3>6 DEF SInv, SessionTyped, TabState
      <4> QED BY <1>3, <3>1, <3>2, <3>4, <4>1 DEF GoodTab
    <3>12. storage' <= server'.issued BY <1>3, <3>1, <3>4, <3>6
    <3> QED BY <3>4, <3>5, <3>6, <3>10, <3>11, <3>12 DEF SInv, SessionTyped
  <2> QED BY <1>13, <2>1, <2>2 DEF LoginServed
<1> QED BY <1>5, <1>6, <1>7, <1>8, <1>9, <1>10, <1>11, <1>12, <1>13 DEF Answer

LEMMA SessionInvStep == SInv /\ [SessionNext]_allVars => SInv'
<1> SUFFICES ASSUME SInv, [SessionNext]_allVars PROVE SInv' OBVIOUS
<1>1. /\ acts \in Nat /\ storage \in Nat /\ storage <= server.issued /\ calls \subseteq Call
      /\ tab \in [Tabs -> TabState]
  BY DEF SInv, SessionTyped
<1>2. ASSUME Act PROVE acts' \in Nat BY <1>1, <1>2 DEF Act
<1>3. ASSUME NEW n \in 1..MaxTokens, Expire(n) PROVE SInv'
  <2>1. UNCHANGED <<tab, storage, calls>> /\ acts' \in Nat BY <1>2, <1>3 DEF Expire
  <2>2. /\ server' \in [weak : BOOLEAN, issued : Nat, weakly : SUBSET Nat, expired : SUBSET Nat]
        /\ server'.issued = server.issued /\ server'.weak = server.weak
        /\ server'.weakly = server.weakly
    <3>1. PICK old : old = server.expired \union {n} OBVIOUS
    <3>2. old \in SUBSET Nat BY <3>1, SessionAssumption DEF SInv, SessionTyped
    <3>3. server' = [server EXCEPT !.expired = old] BY <1>3, <3>1 DEF Expire
    <3> QED BY <3>2, <3>3 DEF SInv, SessionTyped
  <2>3. \A t \in Tabs : GoodTab(tab[t])' BY <2>1, <2>2 DEF SInv, GoodTab
  <2>4. \A c \in calls' : GoodCall(c)' BY <2>1, <2>2 DEF SInv, GoodCall
  <2> QED BY <2>1, <2>2, <2>3, <2>4 DEF SInv, SessionTyped
<1>4. CASE ServerRestart
  <2>1. UNCHANGED <<tab, storage, server>> /\ acts' \in Nat BY <1>2, <1>4 DEF ServerRestart
  <2>2. ASSUME NEW d \in calls' PROVE d \in Call /\ (d \in calls \/ GoodCall(d))
    <3>1. PICK c \in calls : d = IF c.state \in {"sent", "checked"} THEN [c EXCEPT !.state = "error"]
                                                                  ELSE c
      BY <1>4, <2>2 DEF ServerRestart
    <3>2. c \in Call /\ GoodCall(c) BY <1>1 DEF SInv
    <3>3. CASE d = c BY <3>2, <3>3
    <3>4. CASE d = [c EXCEPT !.state = "error"]
      <4>1. d \in Call /\ d.state = "error" /\ d.token = c.token BY <3>2, <3>4 DEF Call
      <4> QED BY <3>2, <4>1 DEF GoodCall
    <3> QED BY <3>1, <3>3, <3>4
  <2>3. calls' \subseteq Call BY <2>2
  <2> QED BY <1>1, <2>1, <2>2, <2>3, ServerAlone
<1>5. CASE UNCHANGED sessionVars
  BY <1>1, <1>5, ServerAlone DEF sessionVars
<1> QED BY <1>3, <1>4, <1>5, UserStep, AnswerStep DEF SessionNext, allVars

LEMMA SessionInvInit == SessionInit => SInv
<1> SUFFICES ASSUME SessionInit PROVE SInv OBVIOUS
<1>1. Start \in TabState /\ Start.token = 0 /\ Start.reloaded = TRUE /\ Start.must = FALSE
  BY DEF Start, TabState, Routes
<1>2. tab = [t \in Tabs |-> Start] /\ storage = 0 /\ calls = {} /\ acts = 0
  BY DEF SessionInit
<1>3. /\ server \in [weak : BOOLEAN, issued : Nat, weakly : SUBSET Nat, expired : SUBSET Nat]
      /\ server.issued = 0 /\ server.weakly = {}
  BY DEF SessionInit
<1>4. \A t \in Tabs : GoodTab(tab[t]) BY <1>1, <1>2, <1>3 DEF GoodTab
<1> QED BY <1>1, <1>2, <1>3, <1>4 DEF SInv, SessionTyped

THEOREM SessionInvariance == SessionSpec => [](SInv /\ IInv)
<1>1. SessionInit => SInv /\ IInv BY SessionInvInit, InitIInv DEF SessionInit
<1>2. SInv /\ IInv /\ [SessionNext]_allVars => (SInv /\ IInv)'
  <2>1. SInv /\ IInv /\ [SessionNext]_allVars => [Next]_vars
    BY CounterStep DEF SInv, IInv
  <2> QED BY <2>1, SessionInvStep, TypeStep, LimitStep DEF IInv
<1> QED BY <1>1, <1>2, PTL DEF SessionSpec

(* The store, the requests and the server of the sessions keep their types,   *)
(* and so does the counter of auth.rs below them.                             *)
THEOREM SessionTyping == SessionSpec => [](SessionTyped /\ TypeOK)
BY SessionInvariance, PTL DEF SInv, IInv

(* Whatever the tabs do (stores/authStore.ts, Login.tsx, reloads, logouts),   *)
(* the counter of auth.rs only sees steps that LoginAttempts allows.          *)
THEOREM SessionsUseTheCounter == SessionSpec => Spec
<1>1. SessionInit => Init BY DEF SessionInit
<1>2. SInv /\ IInv /\ [SessionNext]_allVars => [Next]_vars
  BY CounterStep DEF SInv, IInv
<1> QED BY <1>1, <1>2, SessionInvariance, PTL DEF SessionSpec, Spec

(* The tabs of a browser cannot get past the limit of auth.rs, however many   *)
(* there are and whatever is reloaded or restarted.                           *)
THEOREM SessionLimitHolds == SessionSpec => []LimitHolds
BY SessionInvariance, PTL DEF IInv

(* Nobody gets to a protected page with the default password still in place,  *)
(* in a tab that was not loaded again since its login (ProtectedRoute.tsx).   *)
THEOREM ForcedChangeHolds == SessionSpec => []ForcedChange
<1>1. SInv => ForcedChange BY DEF SInv, GoodTab, ForcedChange
<1> QED BY <1>1, SessionInvariance, PTL
=============================================================================
