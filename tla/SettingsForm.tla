---------------------------- MODULE SettingsForm ----------------------------
(* The DNS settings: the form of frontend/src/pages/Settings.tsx and the two  *)
(* handlers of api/handlers/settings.rs, which read and write one row of the  *)
(* settings table at a time, while another administrator saves settings too.  *)
EXTENDS Naturals, Sequences

CONSTANTS Order,       \* the settings, in the order both handlers go through them
          Values,      \* what the form's controls can say
          OutOfRange,  \* those among them that update_dns refuses
          Defaults,    \* the rows there are at first, and what get_dns falls back on
          Elsewhere,   \* what another administrator saves
          MaxEvents,   \* bound: saves, faults, reloads, visits, other administrators
          None

Settings == {Order[i] : i \in DOMAIN Order}
ASSUME SettingsAssumption ==
    /\ Order \in Seq(Settings) /\ OutOfRange \subseteq Values
    /\ \A i, j \in DOMAIN Order : Order[i] = Order[j] => i = j
    /\ Elsewhere \subseteq [Settings -> Values] /\ MaxEvents \in Nat
    /\ Defaults \in [Settings -> Values \ OutOfRange] /\ None \notin Values

VARIABLES open,      \* whether the page is mounted
          form,      \* its form: None until settings were loaded
          data,      \* query cache: the settings last loaded, or None
          error,     \* query cache: whether the last load failed
          get,       \* the request for the settings: how many were read, and what
          stored,    \* server: the settings table
          puts,      \* updates sent and not yet answered
          events,    \* bound: see MaxEvents
          typed,     \* history: settings typed since the form was filled or sent
          version    \* history: how often a setting was stored (the seeds count as once), and
                     \* as of when data was read: 0 if nothing was, or a default stands in

page == <<open, form, typed>>
query == <<data, error, get>>
formVars == <<page, query, stored, puts, events, version>>

Event == events < MaxEvents /\ events' = events + 1
Idle == [at |-> 0, part |-> <<>>]
Asked == [at |-> 1, part |-> <<>>]
Ready == open /\ data # None /\ ~error     \* else a spinner or a retry button is all there is
Saving == \E u \in puts : u.mine /\ u.left = 0    \* a page opened again has a mutation of its own

FormInit ==
    /\ open = TRUE /\ form = None /\ typed = {}
    /\ data = None /\ error = FALSE /\ get = Asked
    /\ stored = Defaults /\ puts = {} /\ events = 0
    /\ version = [stored |-> 1, read |-> 0, data |-> 0]
-----------------------------------------------------------------------------
(* The controls, which stay enabled while a save is under way.                *)
Edit(k, v) ==
    /\ Ready /\ form # None /\ form[k] # v /\ Event
    /\ form' = [form EXCEPT ![k] = v] /\ typed' = typed \union {k}
    /\ UNCHANGED <<open, query, stored, puts, version>>

Sends(mine, body) == puts' = {[u EXCEPT !.alone = FALSE] : u \in puts} \union
    {[mine |-> mine, left |-> 0, body |-> body, at |-> 1, state |-> "writing", before |-> stored,
      alone |-> puts = {}]}

(* handleSave: all settings of the form, typed or not.                        *)
Save ==
    /\ Ready /\ form # None /\ ~Saving /\ Event
    /\ Sends(TRUE, form) /\ typed' = {}
    /\ UNCHANGED <<open, form, query, stored, version>>

OtherSave(body) ==
    /\ (\A u \in puts : u.mine) /\ Event /\ Sends(FALSE, body)
    /\ UNCHANGED <<page, query, stored, version>>

Refused(u) == puts' = (puts \ {u}) \union {[u EXCEPT !.state = "bad"]}
Stores(u, k) ==
    /\ puts' = (puts \ {u}) \union {[u EXCEPT !.at = @ + 1]}
    /\ stored' = [stored EXCEPT ![k] = u.body[Order[u.at]]]
    /\ version' = [version EXCEPT !.stored = @ + 1]

\* Fault: the second row is written under the key of the first.
FaultyWriteSetting(u) ==
    /\ u.state = "writing" /\ u.at <= Len(Order)
    /\ IF u.body[Order[u.at]] \in OutOfRange
       THEN Refused(u) /\ UNCHANGED <<stored, version>>
       ELSE Stores(u, Order[IF u.at = 2 THEN 1 ELSE u.at])
    /\ UNCHANGED <<page, query, events>>

(* update_dns: check a setting, write its row, go on to the next.             *)
WriteSetting(u) ==
    /\ u.state = "writing" /\ u.at <= Len(Order)
    /\ IF u.body[Order[u.at]] \in OutOfRange
       THEN Refused(u) /\ UNCHANGED <<stored, version>>
       ELSE Stores(u, Order[u.at])
    /\ UNCHANGED <<page, query, events>>

(* SQLite is busy or the answer is lost: what was written stays written.      *)
SaveFails(u) ==
    /\ u.state = "writing" /\ Event
    /\ Refused(u)
    /\ UNCHANGED <<page, query, stored, version>>
-----------------------------------------------------------------------------
(* refetch: drops the request under way, unless nothing was ever loaded.      *)
Refetched == get' = IF data = None /\ get # Idle THEN get ELSE Asked

Saved(u) ==
    /\ u.state = "writing" /\ u.at > Len(Order) /\ puts' = puts \ {u}
    /\ IF u.mine THEN Refetched ELSE UNCHANGED get
    /\ UNCHANGED <<page, data, error, stored, events, version>>

(* onError: a message; what the refused save did write is not fetched.        *)
SaveFailed(u) ==
    /\ u.state = "bad" /\ puts' = puts \ {u}
    /\ UNCHANGED <<page, query, stored, events, version>>

(* get_dns: the settings are read one query after the other;                  *)
ReadSetting ==
    /\ get.at \in DOMAIN Order
    /\ get' = [at |-> get.at + 1, part |-> Append(get.part, stored[Order[get.at]])]
    /\ version' = IF get.at = 1 THEN [version EXCEPT !.read = version.stored] ELSE version
    /\ UNCHANGED <<page, data, error, stored, puts, events>>

(* a query that fails is answered with a default, which is what the migration *)
(* had put there, and the request goes on.                                    *)
SelectFails ==
    /\ get.at \in DOMAIN Order /\ Event
    /\ get' = [at |-> get.at + 1, part |-> Append(get.part, Defaults[Order[get.at]])]
    /\ version' = [version EXCEPT !.read = 0]
    /\ UNCHANGED <<page, data, error, stored, puts>>

\* Fault: the effect runs after every load, whatever was loaded.
FaultyLoaded ==
    /\ get.at > Len(Order) /\ get' = Idle
    /\ data' = [k \in Settings |-> get.part[CHOOSE i \in DOMAIN Order : Order[i] = k]]
    /\ error' = FALSE
    /\ IF open THEN form' = data' /\ typed' = {} ELSE UNCHANGED <<form, typed>>
    /\ version' = [version EXCEPT !.data = version.read]
    /\ UNCHANGED <<open, stored, puts, events>>

(* A load that brings what is there already keeps the object of the cache     *)
(* (structural sharing), and the effect on [settings] does not run.           *)
Loaded ==
    /\ get.at > Len(Order) /\ get' = Idle
    /\ data' = [k \in Settings |-> get.part[CHOOSE i \in DOMAIN Order : Order[i] = k]]
    /\ error' = FALSE
    /\ IF open /\ data' # data THEN form' = data' /\ typed' = {} ELSE UNCHANGED <<form, typed>>
    /\ version' = [version EXCEPT !.data = version.read]
    /\ UNCHANGED <<open, stored, puts, events>>

(* The request itself fails: no answer, or not one that lets the user in.     *)
LoadFailed ==
    /\ get # Idle /\ Event /\ get' = Idle /\ error' = TRUE
    /\ UNCHANGED <<page, data, stored, puts, version>>

(* The retry button, or the window gets the focus after staleTime.            *)
Retry ==
    /\ open /\ get = Idle /\ error /\ get' = Asked
    /\ UNCHANGED <<page, data, error, stored, puts, events, version>>
Focus ==
    /\ open /\ get = Idle /\ Event /\ get' = Asked
    /\ UNCHANGED <<page, data, error, stored, puts, version>>

(* A save under way goes on when the page is left; left counts how often it   *)
(* was, and so tells the saves of earlier visits apart.  Settings loaded      *)
(* longer ago than staleTime, or not at all, are loaded again.                *)
Leave == /\ open /\ Event /\ open' = FALSE /\ form' = None /\ typed' = {}
         /\ puts' = {IF u.mine THEN [u EXCEPT !.left = @ + 1] ELSE u : u \in puts}
         /\ UNCHANGED <<query, stored, version>>
Enter == /\ ~open /\ open' = TRUE /\ form' = data /\ UNCHANGED typed
         /\ \E aged \in BOOLEAN :
                get' = IF get = Idle /\ (aged \/ error \/ data = None) THEN Asked ELSE get
         /\ UNCHANGED <<data, error, stored, puts, events, version>>
=============================================================================
