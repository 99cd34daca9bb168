---------------------------- MODULE ClientGroups ----------------------------
(* Client groups (api/handlers/client_groups.rs): memberships and rule        *)
(* bindings, changed by requests that run statement after statement without a *)
(* transaction.  The handlers invalidate a cache of AppState (api/mod.rs)     *)
(* that nothing fills: queries read the cache of DnsHandler.                  *)
EXTENDS Naturals, FiniteSets

CONSTANTS Tasks,      \* requests in progress
          Clients, Rules,
          MaxGroups   \* bound: groups ever created

ASSUME GroupAssumption == MaxGroups \in Nat

Ids == 1..MaxGroups

VARIABLES groups,      \* database: ids of the groups
          last_id,     \* database: the AUTOINCREMENT counter
          members,     \* database: <<client, group>>
          bound,       \* database: <<group, rule>>, of type custom_rule
          task,        \* per task: where it is and what it carries
          raced        \* history: a group was filled while it was being deleted

tables == <<groups, last_id, members, bound>>
tasks == <<task, raced>>
vars == <<tables, tasks>>

Idle == [step |-> "idle"]
At(t, step) == task[t].step = step
Races(f, h) == /\ f.step \in {"add", "bind", "join"}
               /\ h.step \in {"members", "rules", "group"}
               /\ f.group = h.group
Set(t, f) == /\ task' = [task EXCEPT ![t] = f]
             /\ raced' = (raced \/ \E s \in Tasks \ {t} : Races(f, task[s]) \/ Races(task[s], f))
MembersOf(g) == {c \in Clients : <<c, g>> \in members}

Init == /\ groups = {} /\ last_id = 0 /\ members = {} /\ bound = {}
        /\ task = [t \in Tasks |-> Idle] /\ raced = FALSE
-----------------------------------------------------------------------------
(* create_group: AUTOINCREMENT never gives out an id twice. *)
FaultyCreateGroup(t) ==   \* fault: without AUTOINCREMENT, the largest id is free again
    /\ At(t, "idle")
    /\ LET top == {0} \union groups
           id == 1 + CHOOSE i \in top : \A j \in top : j <= i
       IN  /\ id <= MaxGroups
           /\ groups' = groups \union {id} /\ last_id' = id
    /\ UNCHANGED <<members, bound, tasks>>

CreateGroup(t) ==
    /\ At(t, "idle")
    /\ last_id < MaxGroups /\ last_id' = last_id + 1
    /\ groups' = groups \union {last_id'}
    /\ UNCHANGED <<members, bound, tasks>>

(* batch_add_clients, batch_remove_clients: the group is looked up once, *)
BeginBatch(t, step, g, items) ==
    /\ At(t, "idle") /\ g \in groups
    /\ Set(t, [step |-> step, group |-> g, todo |-> items])
    /\ UNCHANGED tables
Next1(t, item) ==   \* one item is done; the response follows the last
    IF task[t].todo = {item} THEN Idle ELSE [task[t] EXCEPT !.todo = @ \ {item}]
(* and then one client after the other is added *)
AddClient(t, c) ==
    /\ At(t, "add") /\ c \in task[t].todo
    /\ members' = members \union {<<c, task[t].group>>}
    /\ Set(t, Next1(t, c))
    /\ UNCHANGED <<groups, last_id, bound>>
(* or removed. *)
RemoveClient(t, c) ==
    /\ At(t, "remove") /\ c \in task[t].todo
    /\ members' = members \ {<<c, task[t].group>>}
    /\ Set(t, Next1(t, c))
    /\ UNCHANGED <<groups, last_id, bound>>

(* batch_move_clients: each client leaves the source group, *)
BeginMove(t, from, to, cs) ==
    /\ At(t, "idle")
    /\ Set(t, [step |-> "leave", from |-> from, group |-> to, todo |-> cs])
    /\ UNCHANGED tables
LeaveGroup(t, c) ==
    /\ At(t, "leave") /\ c \in task[t].todo
    /\ members' = members \ {<<c, task[t].from>>}
    /\ Set(t, [step |-> "target", from |-> task[t].from, group |-> task[t].group,
               todo |-> task[t].todo \ {c}, client |-> c])
    /\ UNCHANGED <<groups, last_id, bound>>
(* the target group is looked up (a client stays outside if there is none), *)
NextMove(t) == IF task[t].todo = {} THEN Idle
               ELSE [step |-> "leave", from |-> task[t].from, group |-> task[t].group,
                     todo |-> task[t].todo]
FindTarget(t) ==
    /\ At(t, "target")
    /\ Set(t, IF task[t].group \in groups THEN [task[t] EXCEPT !.step = "join"] ELSE NextMove(t))
    /\ UNCHANGED tables
(* and the client joins it. *)
JoinGroup(t) ==
    /\ At(t, "join")
    /\ members' = members \union {<<task[t].client, task[t].group>>}
    /\ Set(t, NextMove(t))
    /\ UNCHANGED <<groups, last_id, bound>>

(* delete_group: memberships first, then bindings, then the group. *)
BeginDelete(t, g) ==
    /\ At(t, "idle") /\ g \in groups
    /\ Set(t, [step |-> "members", group |-> g])
    /\ UNCHANGED tables

\* Fault: the group goes first.
FaultyDeleteMembers(t) ==
    /\ At(t, "members")
    /\ members' = {m \in members : m[2] # task[t].group}
    /\ groups' = groups \ {task[t].group}
    /\ Set(t, [step |-> "rules", group |-> task[t].group])
    /\ UNCHANGED <<last_id, bound>>

DeleteMembers(t) ==
    /\ At(t, "members")
    /\ members' = {m \in members : m[2] # task[t].group}
    /\ Set(t, [step |-> "rules", group |-> task[t].group])
    /\ UNCHANGED <<groups, last_id, bound>>
DeleteBindings(t) ==
    /\ At(t, "rules")
    /\ bound' = {b \in bound : b[1] # task[t].group}
    /\ Set(t, [step |-> "group", group |-> task[t].group])
    /\ UNCHANGED <<groups, last_id, members>>

DeleteGroup(t) ==
    /\ At(t, "group")
    /\ groups' = groups \ {task[t].group}
    /\ Set(t, Idle)
    /\ UNCHANGED <<last_id, members, bound>>

(* batch_bind_rules, batch_unbind_rules: rule after rule, and then the cache  *)
(* of AppState is invalidated for the members.  An unbind without a rule_type *)
(* means "filter", a type that no binding has: it removes nothing.            *)
BindRule(t, r) ==
    /\ At(t, "bind") /\ r \in task[t].todo
    /\ bound' = bound \union {<<task[t].group, r>>}
    /\ Set(t, IF task[t].todo = {r} THEN [step |-> "invalidate", group |-> task[t].group]
              ELSE Next1(t, r))
    /\ UNCHANGED <<groups, last_id, members>>
UnbindRule(t, r) ==
    /\ At(t, "unbind") /\ r \in task[t].todo
    /\ bound' \in {bound, bound \ {<<task[t].group, r>>}}
    /\ Set(t, IF task[t].todo = {r} THEN [step |-> "invalidate", group |-> task[t].group]
              ELSE Next1(t, r))
    /\ UNCHANGED <<groups, last_id, members>>

Invalidate(t) ==
    /\ At(t, "invalidate")
    /\ Set(t, Idle)
    /\ UNCHANGED tables

(* A database error ends a request, a closed connection drops it. *)
GiveUp(t) ==
    /\ ~At(t, "idle") /\ Set(t, Idle)
    /\ UNCHANGED tables

Some(S) == (SUBSET S) \ {{}}
Next == \E t \in Tasks :
             \/ CreateGroup(t)
             \/ \E g \in Ids, cs \in Some(Clients) : BeginBatch(t, "add", g, cs)
             \/ \E g \in Ids, cs \in Some(Clients) : BeginBatch(t, "remove", g, cs)
             \/ \E from, to \in Ids, cs \in Some(Clients) : BeginMove(t, from, to, cs)
             \/ \E c \in Clients : AddClient(t, c) \/ RemoveClient(t, c) \/ LeaveGroup(t, c)
             \/ FindTarget(t) \/ JoinGroup(t)
             \/ \E g \in Ids : BeginDelete(t, g)
             \/ DeleteMembers(t) \/ DeleteBindings(t) \/ DeleteGroup(t)
             \/ \E g \in Ids, rs \in Some(Rules) : BeginBatch(t, "bind", g, rs)
             \/ \E g \in Ids, rs \in Some(Rules) : BeginBatch(t, "unbind", g, rs)
             \/ \E r \in Rules : BindRule(t, r) \/ UnbindRule(t, r)
             \/ Invalidate(t) \/ GiveUp(t)

Spec == Init /\ [][Next]_vars
-----------------------------------------------------------------------------
(* Rows of a group that is gone may be left behind when its deletion meets    *)
(* another request, but a new group never inherits them                       *)
(* (client_groups.rs:91-102, 006_client_groups.sql:9).                        *)
NewGroupEmpty ==
    [][\A g \in groups' \ groups : MembersOf(g)' = {} /\ ~\E r \in Rules : <<g, r>> \in bound']_vars

(* No membership or binding outlives its group, wherever a request breaks     *)
(* off, unless one request filled the group while another was deleting it:    *)
(* delete_group (client_groups.rs:269-285) takes the group's own row last.    *)
NoOrphans ==
    ~raced => /\ \A m \in members : m[2] \in groups
              /\ \A b \in bound : b[1] \in groups

=============================================================================
