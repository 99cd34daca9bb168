------------------------------ MODULE Accounts ------------------------------
(* The users table: seed_admin (db/mod.rs), create and update_role            *)
(* (api/handlers/users.rs), and the tokens of auth.rs and jwt.rs, whose role  *)
(* is the one read at login.  A handler is a task; between its statements     *)
(* other tasks run.  No handler deletes or deactivates a user.                *)
EXTENDS Naturals, FiniteSets

CONSTANTS Tasks,       \* requests in progress
          Users,       \* user names
          Admin,       \* the name seed_admin uses
          Absent,      \* the role of a name that is not in the table
          MaxRestarts  \* bound: how often the server is restarted

ASSUME AccountAssumption ==
    /\ IsFiniteSet(Users) /\ Admin \in Users
    /\ Absent \notin {"super_admin", "admin", "operator"}
    /\ MaxRestarts \in Nat

Roles == {"super_admin", "admin", "operator"}

VARIABLES role,     \* database: the role of each user, or Absent
          token,    \* per user: the roles of the tokens it holds
          task,     \* per task: where it is and what it carries
          restarts,
          raced     \* history: a role was written while another request was about to write one

vars == <<role, token, task, restarts, raced>>

Idle == [step |-> "idle"]
At(t, step) == task[t].step = step
Set(t, f) == task' = [task EXCEPT ![t] = f]

SuperAdmins == {u \in Users : role[u] = "super_admin"}

(* main: seed_admin creates the first user if there is none. *)
Seeded(r) == IF \A u \in Users : r[u] = Absent THEN [r EXCEPT ![Admin] = "super_admin"] ELSE r
Init == /\ role = Seeded([u \in Users |-> Absent])
        /\ token = [u \in Users |-> {}]
        /\ task = [t \in Tasks |-> Idle]
        /\ restarts = 0
        /\ raced = FALSE
-----------------------------------------------------------------------------
(* AdminUser: the caller shows an administrator's token, whatever the table says now. *)
Authorised == \E u \in Users : token[u] \intersect {"super_admin", "admin"} # {}

LogIn(t, u) ==
    /\ At(t, "idle") /\ role[u] # Absent
    /\ Set(t, [step |-> "verified", user |-> u, role |-> role[u]])
    /\ UNCHANGED <<role, token, restarts, raced>>
(* and a token issued for the role that was read. *)
Issue(t) ==
    /\ At(t, "verified")
    /\ token' = [token EXCEPT ![task[t].user] = @ \union {task[t].role}]
    /\ Set(t, Idle)
    /\ UNCHANGED <<role, restarts, raced>>

(* create: the name is looked up, *)
Create(t, u, r) ==
    /\ At(t, "idle") /\ Authorised
    /\ role[u] = Absent   \* else "already exists"
    /\ Set(t, [step |-> "insert", user |-> u, role |-> r])
    /\ UNCHANGED <<role, token, restarts, raced>>

(* and inserted; the UNIQUE column refuses a second one. *)
Insert(t) ==
    /\ At(t, "insert")
    /\ role' = [role EXCEPT ![task[t].user] = IF @ = Absent THEN task[t].role ELSE @]
    /\ Set(t, Idle)
    /\ UNCHANGED <<token, restarts, raced>>

(* update_role: the row is read; *)
ReadUser(t, u, r) ==
    /\ At(t, "idle") /\ Authorised
    /\ role[u] # Absent   \* else "not found"
    /\ Set(t, [step |-> IF role[u] = "super_admin" /\ r # "super_admin" THEN "count" ELSE "update",
               user |-> u, role |-> r])
    /\ UNCHANGED <<role, token, restarts, raced>>
(* demoting a super administrator needs another one; *)
FaultyCountAdmins(t) ==   \* fault: the count is compared with 0
    /\ At(t, "count")
    /\ Set(t, IF Cardinality(SuperAdmins) <= 0 THEN Idle ELSE [task[t] EXCEPT !.step = "update"])
    /\ UNCHANGED <<role, token, restarts, raced>>

CountAdmins(t) ==
    /\ At(t, "count")
    /\ Set(t, IF Cardinality(SuperAdmins) <= 1 THEN Idle ELSE [task[t] EXCEPT !.step = "update"])
    /\ UNCHANGED <<role, token, restarts, raced>>
(* and the role is written in a statement of its own. *)
Update(t) ==
    /\ At(t, "update")
    /\ role' = [role EXCEPT ![task[t].user] = task[t].role]
    /\ Set(t, Idle)
    /\ raced' = (raced \/ \E s \in Tasks \ {t} : At(s, "update"))
    /\ UNCHANGED <<token, restarts>>

(* A database error ends a request, a closed connection drops it. *)
GiveUp(t) ==
    /\ ~At(t, "idle") /\ Set(t, Idle)
    /\ UNCHANGED <<role, token, restarts, raced>>

(* A restart drops every request; tokens stay valid (the secret is configured). *)
Restart ==
    /\ restarts < MaxRestarts /\ restarts' = restarts + 1
    /\ task' = [t \in Tasks |-> Idle]
    /\ role' = Seeded(role)
    /\ UNCHANGED <<token, raced>>

(* A token expires, or its holder discards it. *)
Expire(u) ==
    /\ \E r \in token[u] : token' = [token EXCEPT ![u] = @ \ {r}]
    /\ UNCHANGED <<role, task, restarts, raced>>

Next == \/ \E t \in Tasks, u \in Users :
             \/ LogIn(t, u)
             \/ \E r \in Roles : Create(t, u, r) \/ ReadUser(t, u, r)
        \/ \E t \in Tasks : \/ Issue(t) \/ Insert(t) \/ CountAdmins(t) \/ Update(t)
                            \/ GiveUp(t)
        \/ Restart
        \/ \E u \in Users : Expire(u)

Spec == Init /\ [][Next]_vars
-----------------------------------------------------------------------------
TypeOK ==
    /\ role \in [Users -> Roles \union {Absent}]
    /\ token \in [Users -> SUBSET Roles]
    /\ task \in [Tasks -> {Idle}
                   \union [step : {"verified", "insert", "count", "update"}, user : Users, role : Roles]]
    /\ restarts \in 0..MaxRestarts
    /\ raced \in BOOLEAN

(* A role changes by update_role only, never because a name was created twice *)
(* or the server was restarted (users.rs:84-109, db/mod.rs:61).               *)
OnlyUpdated ==
    [][\A u \in Users : role[u] # Absent /\ role'[u] # role[u]
         => \E t \in Tasks : At(t, "update") /\ task[t].user = u /\ role'[u] = task[t].role]_vars

(* The check and the write of a demotion are separate statements              *)
(* (users.rs:142-159); only a role written between them by another request    *)
(* can make it the demotion of the last super administrator.                  *)
LostOnlyInRace == ~raced => SuperAdmins # {}

=============================================================================
