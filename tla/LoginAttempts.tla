--------------------------- MODULE LoginAttempts ---------------------------
(* The counter of failed logins per address (api/handlers/auth.rs login and   *)
(* record_login_failure).  The entry is locked while a step reads or writes   *)
(* it, and free while the database is asked and the password verified, so     *)
(* requests of one address overlap.  One address is enough: entries of        *)
(* different addresses never meet.  The window is measured by its age.        *)
EXTENDS Naturals, FiniteSets

CONSTANTS Requests,            \* requests in progress from the address
          MAX_LOGIN_FAILURES, FAILURE_WINDOW

ASSUME LimitAssumption ==
    /\ MAX_LOGIN_FAILURES \in Nat \ {0} /\ FAILURE_WINDOW \in Nat \ {0}
    /\ IsFiniteSet(Requests)

VARIABLES count, age,   \* the entry: failures, and how old its window is
          present,      \* whether there is an entry
          request       \* per request: "idle", "verifying" or "refused"

entry == <<count, age, present>>
vars == <<entry, request>>

Init == /\ count = 0 /\ age = 0 /\ present = FALSE
        /\ request = [r \in Requests |-> "idle"]

Expired == age > FAILURE_WINDOW

\* Fault: locks one failure late.
FaultyLocked == present /\ ~Expired /\ count > MAX_LOGIN_FAILURES

FaultyForGood == present /\ count >= MAX_LOGIN_FAILURES   \* fault: whatever its window

Locked == present /\ ~Expired /\ count >= MAX_LOGIN_FAILURES
Move(r, to) == request' = [request EXCEPT ![r] = to]
-----------------------------------------------------------------------------
(* login: an expired window starts again with no failure, *)
Check(r) ==
    /\ request[r] \in {"idle", "refused"} /\ ~Locked
    /\ Move(r, "verifying")
    /\ IF present /\ Expired THEN count' = 0 /\ age' = 0 ELSE UNCHANGED <<count, age>>
    /\ UNCHANGED present
(* and a locked address is refused before anything else. *)
Refuse(r) ==
    /\ request[r] \in {"idle", "refused"} /\ Locked
    /\ Move(r, "refused")
    /\ UNCHANGED entry

(* record_login_failure: a missing entry is created, an expired one replaced. *)
Fail(r) ==
    /\ request[r] = "verifying"
    /\ Move(r, "idle")
    /\ present' = TRUE
    /\ IF ~present \/ Expired THEN count' = 1 /\ age' = 0
                              ELSE count' = count + 1 /\ UNCHANGED age

(* A successful login removes the entry. *)
Succeed(r) ==
    /\ request[r] = "verifying"
    /\ Move(r, "idle")
    /\ present' = FALSE /\ count' = 0 /\ age' = 0

(* A database error ends a request, a closed connection drops it: not counted. *)
GiveUp(r) ==
    /\ request[r] # "idle"
    /\ Move(r, "idle")
    /\ UNCHANGED entry

(* Time passes; past the window its age makes no difference. *)
Tick == /\ age' = IF present /\ ~Expired THEN age + 1 ELSE age
        /\ UNCHANGED <<count, present, request>>

(* A restart forgets everything: the map is in memory. *)
Restart == /\ count' = 0 /\ age' = 0 /\ present' = FALSE
           /\ request' = [r \in Requests |-> "idle"]

Next == \/ \E r \in Requests : Check(r) \/ Refuse(r) \/ Fail(r) \/ Succeed(r) \/ GiveUp(r)
        \/ Tick
        \/ Restart

Spec == Init /\ [][Next]_vars
(* Only that time passes: nobody has to log in. *)
FairSpec == Spec /\ WF_vars(Tick)
-----------------------------------------------------------------------------
Verifying == {r \in Requests : request[r] = "verifying"}

TypeOK == /\ count \in Nat /\ age \in 0..(FAILURE_WINDOW + 1)
          /\ present \in BOOLEAN
          /\ request \in [Requests -> {"idle", "verifying", "refused"}]

(* Requests in progress when the limit is reached may still fail, but no more *)
(* of them than there are: a window never counts more than the limit and the  *)
(* overlap allow (auth.rs:12, 45).                                            *)
LimitHolds == count + Cardinality(Verifying) < MAX_LOGIN_FAILURES + Cardinality(Requests)

(* A lock ends by itself, however often the address keeps asking              *)
(* (auth.rs:14, README: 15 minutes).                                          *)
LockEnds == Locked ~> ~Locked
=============================================================================
