------------------------------ MODULE Session ------------------------------
(* The sessions of one account in the tabs of one browser: the store of       *)
(* stores/authStore.ts, of which every set also writes localStorage, the      *)
(* interceptors of api/client.ts, the pages that log in, change the password  *)
(* and log out, and api/handlers/auth.rs behind them, whose counter of failed *)
(* logins all tabs of the address share (LoginAttempts, a request per tab).   *)
EXTENDS LoginAttempts

CONSTANTS MaxActs,   \* bound: logins, changes, logouts and reads sent, reloads, expiries
          MaxTokens  \* bound: tokens issued

ASSUME SessionAssumption == MaxActs \in Nat /\ MaxTokens \in Nat

VARIABLES tab,       \* per tab: its store, what page it shows, whether it was reloaded since login
          storage,   \* localStorage: the token of auth-storage, 0 for none
          calls,     \* requests in flight
          server,    \* whether the password is still the default one, tokens issued and expired
          acts       \* bound: see MaxActs

Tabs == Requests
sessionVars == <<tab, storage, calls, server, acts>>
allVars == <<vars, sessionVars>>

Start == [token |-> 0, must |-> FALSE, page |-> "login", busy |-> FALSE, home |-> FALSE,
          reloaded |-> TRUE]
SessionInit == /\ Init
               /\ tab = [t \in Tabs |-> Start] /\ storage = 0 /\ calls = {} /\ acts = 0
               /\ server = [weak |-> TRUE, issued |-> 0, weakly |-> {}, expired |-> {}]

Act == acts < MaxActs /\ acts' = acts + 1
Of(t) == {c \in calls : c.tab = t}
Sent(t, kind, right) ==
    calls' = calls \union {[tab |-> t, kind |-> kind, right |-> right, token |-> tab[t].token,
                            state |-> "sent"]}
Becomes(c, state) == calls' = (calls \ {c}) \union {[c EXCEPT !.state = state]}

(* set of the persisted store: the tab's token is what localStorage has next. *)
Set(t, s) == tab' = [tab EXCEPT ![t] = s] /\ storage' = s.token

(* Layout/ProtectedRoute.tsx, and the effect of the password page.            *)
Allowed(s, page) == IF s.token = 0 THEN "login"
                    ELSE IF s.must /\ page = "app" THEN "change" ELSE page
-----------------------------------------------------------------------------
(* A page load: the store starts from localStorage, requests are dropped.     *)
Loads(t, s, page) ==
    /\ tab' = [tab EXCEPT ![t] = [Start EXCEPT !.token = s,
                  !.page = IF page = "login" THEN page ELSE Allowed([Start EXCEPT !.token = s], page)]]
    /\ calls' = calls \ Of(t)
    /\ request' = [request EXCEPT ![t] = "idle"]

Reload(t, page) ==
    /\ Act /\ Loads(t, storage, page)
    /\ UNCHANGED <<entry, storage, server>>

Open(t, page) ==
    /\ tab' = [tab EXCEPT ![t].page = Allowed(tab[t], page)]
    /\ UNCHANGED <<vars, storage, calls, server, acts>>

(* The links of DashboardLayout.tsx; back and cancel of the password page,    *)
(* where only cancel minds the flag.                                          *)
AskChange(t) == tab[t].page = "app" /\ Open(t, "change")
LeaveChange(t) == tab[t].page = "change" /\ tab[t].token # 0 /\ Open(t, "app")

Read(t) ==
    /\ tab[t].page = "app" /\ Act /\ Sent(t, "read", TRUE)
    /\ UNCHANGED <<vars, tab, storage, server>>
-----------------------------------------------------------------------------
(* Login.tsx, its form, and handleSubmit up to its await.                     *)
LoginForm(t) == tab[t].page = "login" /\ ~tab[t].busy
Login(t, right) ==
    /\ LoginForm(t) /\ Act
    /\ Set(t, [tab[t] EXCEPT !.busy = TRUE]) /\ Sent(t, "login", right)
    /\ UNCHANGED <<vars, server>>

LoginChecked(c) ==
    /\ c.kind = "login" /\ c.state = "sent"
    /\ \/ Check(c.tab) /\ Becomes(c, "checked")
       \/ Refuse(c.tab) /\ Becomes(c, "error")
    /\ UNCHANGED <<tab, storage, server, acts>>

LoginServed(c) ==
    /\ c.kind = "login" /\ c.state = "checked"
    /\ \/ /\ c.right /\ server.issued < MaxTokens /\ Succeed(c.tab)
          /\ server' = [server EXCEPT !.issued = @ + 1,
                           !.weakly = IF server.weak THEN @ \union {server.issued + 1} ELSE @]
          /\ calls' = (calls \ {c}) \union {[c EXCEPT !.state = "ok", !.token = server.issued + 1]}
       \/ ~c.right /\ Fail(c.tab) /\ Becomes(c, "unauthorized") /\ UNCHANGED server
       \/ GiveUp(c.tab) /\ Becomes(c, "error") /\ UNCHANGED server
    /\ UNCHANGED <<tab, storage, acts>>

LoggedIn(c) ==
    /\ c.kind = "login" /\ c.state = "ok" /\ calls' = calls \ {c}
    /\ LET weak == c.token \in server.weakly IN
       Set(c.tab, [Start EXCEPT !.token = c.token, !.must = weak, !.reloaded = FALSE,
                                !.page = IF weak THEN "change" ELSE "app"])
    /\ UNCHANGED <<vars, server, acts>>
-----------------------------------------------------------------------------
(* ChangePassword.tsx; right: the current password is.                        *)
ChangeForm(t) == tab[t].page = "change" /\ ~tab[t].busy
Change(t, right) ==
    /\ ChangeForm(t) /\ Act
    /\ Set(t, [tab[t] EXCEPT !.busy = TRUE]) /\ Sent(t, "change", right)
    /\ UNCHANGED <<vars, server>>

(* auth.rs change_password and the AuthUser in front of every handler.        *)
Served(c) ==
    /\ c.kind \in {"change", "read"} /\ c.state = "sent"
    /\ \/ c.token \in server.expired /\ Becomes(c, "unauthorized") /\ UNCHANGED server
       \/ /\ c.token \notin server.expired
          /\ IF c.right THEN Becomes(c, "ok") ELSE Becomes(c, "error")
          /\ server' = [server EXCEPT !.weak = @ /\ ~(c.kind = "change" /\ c.right)]
    /\ UNCHANGED <<vars, tab, storage, acts>>

(* No answer within 30 s (client.ts), or it is lost: the request may never    *)
(* have been served, or served in full; the tab cannot tell.  Of a read or a  *)
(* logout the tab makes the same whether it succeeds or fails.                *)
TimesOut(c) ==
    /\ c.kind \in {"login", "change"}
    /\ c.state \in {"sent", "ok", "unauthorized"} /\ Becomes(c, "error")
    /\ UNCHANGED <<vars, tab, storage, server, acts>>

Changed(c) ==
    /\ c.kind = "change" /\ c.state = "ok" /\ calls' = calls \ {c}
    /\ Set(c.tab, [tab[c.tab] EXCEPT !.must = FALSE, !.busy = FALSE, !.home = TRUE])
    /\ UNCHANGED <<vars, server, acts>>
(* setTimeout: a second later the dashboard is opened, whatever is on show.   *)
GoHome(t) ==
    /\ tab[t].home
    /\ tab' = [tab EXCEPT ![t].home = FALSE, ![t].page = Allowed(tab[t], "app")]
    /\ UNCHANGED <<vars, storage, calls, server, acts>>

\* Fault: the flag is reset in the finally block.
FaultyNotDone(c) ==
    /\ c.kind \in {"login", "change"} /\ c.state = "error" /\ calls' = calls \ {c}
    /\ Set(c.tab, [tab[c.tab] EXCEPT !.busy = FALSE, !.must = FALSE])
    /\ UNCHANGED <<vars, server, acts>>

(* catch and finally of both pages.                                           *)
NotDone(c) ==
    /\ c.kind \in {"login", "change"} /\ c.state = "error" /\ calls' = calls \ {c}
    /\ Set(c.tab, [tab[c.tab] EXCEPT !.busy = FALSE])
    /\ UNCHANGED <<vars, server, acts>>

ReadDone(c) ==
    /\ c.kind = "read" /\ c.state \in {"ok", "error"} /\ calls' = calls \ {c}
    /\ UNCHANGED <<vars, tab, storage, server, acts>>
-----------------------------------------------------------------------------
(* DashboardLayout.tsx handleLogout: the server has nothing to do, and        *)
(* whatever it says the store is cleared.                                     *)
Logout(t) ==
    /\ tab[t].page = "app" /\ Act /\ Sent(t, "logout", TRUE)
    /\ UNCHANGED <<vars, tab, storage, server>>
LoggedOut(c) ==
    /\ c.kind = "logout" /\ calls' = calls \ {c}
    /\ Set(c.tab, [tab[c.tab] EXCEPT !.token = 0, !.must = FALSE, !.page = "login"])
    /\ UNCHANGED <<vars, server, acts>>

(* The response interceptor: any 401, that of a wrong password included,      *)
(* clears the store and loads the login page anew.                            *)
Unauthorized(c) ==
    /\ c.state = "unauthorized" /\ storage' = 0 /\ Loads(c.tab, 0, "login")
    /\ UNCHANGED <<entry, server, acts>>

Expire(n) ==
    /\ n \in (1..server.issued) \ server.expired /\ Act
    /\ server' = [server EXCEPT !.expired = @ \union {n}]
    /\ UNCHANGED <<vars, tab, storage, calls>>

(* A server that restarts answers nothing it was asked before.                *)
ServerRestart ==
    /\ Act /\ Restart
    /\ calls' = {IF c.state \in {"sent", "checked"} THEN [c EXCEPT !.state = "error"] ELSE c : c \in calls}
    /\ UNCHANGED <<tab, storage, server>>

Answer(c) == \/ LoginChecked(c) \/ LoginServed(c) \/ LoggedIn(c) \/ Served(c) \/ TimesOut(c)
             \/ Changed(c) \/ NotDone(c) \/ ReadDone(c) \/ LoggedOut(c) \/ Unauthorized(c)
User(t) == \/ \E page \in {"login", "change", "app"} : Reload(t, page)
           \/ AskChange(t) \/ LeaveChange(t)
           \/ \E right \in BOOLEAN : Login(t, right) \/ Change(t, right)
           \/ Read(t) \/ Logout(t)
SessionNext ==
    \/ \E t \in Tabs : User(t) \/ GoHome(t)
    \/ \E c \in calls : Answer(c)
    \/ \E n \in 1..MaxTokens : Expire(n)
    \/ Tick /\ UNCHANGED sessionVars
    \/ ServerRestart

SessionSpec == SessionInit /\ [][SessionNext]_allVars
(* Every request is answered or times out, and time passes.                   *)
SessionFairness == /\ WF_allVars(Tick /\ UNCHANGED sessionVars)
                   /\ \A t \in Tabs : WF_allVars(\E c \in Of(t) : Answer(c))
SessionFairSpec == SessionSpec /\ SessionFairness
-----------------------------------------------------------------------------
(* A user who logged in with the default password sees no protected page      *)
(* until the password was changed (ProtectedRoute.tsx:15), in a tab that was  *)
(* not loaded again since: the flag is not persisted, and a reload drops it.  *)
ForcedChange == \A t \in Tabs :
    tab[t].page = "app" /\ ~tab[t].reloaded /\ tab[t].token \in server.weakly => ~server.weak

=============================================================================
