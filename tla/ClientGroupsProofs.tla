------------------------- MODULE ClientGroupsProofs -------------------------
(* Theorems of ClientGroups: no request leaves a row of a group that is gone, *)
(* unless a request filled the group while another deleted it, and no new     *)
(* group inherits one.  The invariant says what each request in progress      *)
(* relies on: a request that fills a group found it among the groups, one     *)
(* that deletes it has already taken its memberships and bindings, and the    *)
(* two never hold the same group, or raced is set.                            *)
EXTENDS ClientGroups, TLAPS

Filling == {"add", "bind", "join"}
Deleting == {"members", "rules", "group"}
Batch == {"add", "remove", "leave", "target", "join"}

(* A request in progress, and the ids it may hold when n were given out. *)
TaskTyped(f, n) ==
    /\ f.step \in Batch \union Deleting \union {"idle", "bind", "unbind", "invalidate"}
    /\ f.step # "idle" => f.group \in Ids
    /\ f.step \in Batch => f.todo \subseteq Clients
    /\ f.step \in {"bind", "unbind"} => f.todo \subseteq Rules
    /\ f.step \in {"target", "join"} => f.client \in Clients
    /\ f.step \in Filling => f.group <= n

Typed ==
    /\ groups \subseteq 1..last_id /\ last_id \in 0..MaxGroups
    /\ members \subseteq Clients \X (1..last_id)
    /\ bound \subseteq (1..last_id) \X Rules
    /\ DOMAIN task = Tasks /\ \A t \in Tasks : TaskTyped(task[t], last_id)
    /\ raced \in BOOLEAN

(* What a request relies on between two of its statements. *)
Needs(f, gs, ms, bs) ==
    /\ f.step \in Filling => f.group \in gs
    /\ f.step \in {"rules", "group"} => \A m \in ms : m[2] # f.group
    /\ f.step = "group" => \A b \in bs : b[1] # f.group
Relies(f) == Needs(f, groups, members, bound)

Clean ==
    /\ \A s, t \in Tasks : ~Races(task[s], task[t])
    /\ \A t \in Tasks : Relies(task[t])
    /\ \A m \in members : m[2] \in groups
    /\ \A b \in bound : b[1] \in groups

GInv == Typed /\ (~raced => Clean)
-----------------------------------------------------------------------------
LEMMA GInvInit == Init => GInv
<1> SUFFICES ASSUME Init PROVE GInv OBVIOUS
<1>1. \A t \in Tasks : task[t].step = "idle" BY DEF Init, Idle
<1>2. Typed
  <2>1. DOMAIN task = Tasks BY DEF Init
  <2>2. raced \in BOOLEAN BY DEF Init
  <2>3. \A t \in Tasks : TaskTyped(task[t], last_id)
    BY <1>1 DEF TaskTyped, Filling, Deleting, Batch
  <2> QED BY <2>1, <2>2, <2>3, GroupAssumption DEF Init, Typed
<1>3. Clean BY <1>1 DEF Init, Clean, Relies, Needs, Races, Filling
<1> QED BY <1>2, <1>3 DEF GInv

(* A step of one request leaves the others alone, and sees whether they race. *)
LEMMA SetStep ==
  ASSUME Typed, NEW t \in Tasks, NEW f, Set(t, f)
  PROVE  /\ DOMAIN task' = Tasks /\ task'[t] = f
         /\ \A s \in Tasks \ {t} : task'[s] = task[s]
         /\ raced' \in BOOLEAN
         /\ ~raced' => /\ ~raced
                       /\ \A s \in Tasks \ {t} : ~Races(f, task[s]) /\ ~Races(task[s], f)
<1>1. DOMAIN task' = Tasks /\ task'[t] = f /\ \A s \in Tasks \ {t} : task'[s] = task[s]
  BY DEF Set, Typed
<1>2. raced' <=> (raced \/ \E s \in Tasks \ {t} : Races(f, task[s]) \/ Races(task[s], f))
  BY DEF Set
<1>3. raced' \in BOOLEAN BY DEF Set
<1> QED BY <1>1, <1>2, <1>3, Zenon

(* The pairs that race after it are the pairs it saw. *)
LEMMA NoNewRace ==
  ASSUME Typed, NEW t \in Tasks, NEW f, Set(t, f), ~raced',
         \A s, u \in Tasks : ~Races(task[s], task[u])
  PROVE  \A s, u \in Tasks : ~Races(task'[s], task'[u])
<1>1. ~Races(f, f) BY DEF Races
<1> QED BY <1>1, SetStep, Zenon

(* A request that reads, or ends, and leaves the tables as they are. *)
LEMMA TablesKept ==
  ASSUME GInv, NEW t \in Tasks, NEW f, Set(t, f), UNCHANGED tables,
         TaskTyped(f, last_id), ~raced => Relies(f)
  PROVE  GInv'
<1>1. UNCHANGED <<groups, last_id, members, bound>> BY DEF tables
<1>2. \A s \in Tasks : TaskTyped(task'[s], last_id)
  BY <1>1, SetStep DEF GInv, Typed, TaskTyped
<1>3. Typed' BY <1>1, <1>2, SetStep DEF GInv, Typed, TaskTyped
<1>4. ASSUME ~raced' PROVE Clean'
  <2>1. ~raced /\ Clean BY <1>4, SetStep DEF GInv
  <2>2. \A s, u \in Tasks : ~Races(task'[s], task'[u])
    BY <1>4, <2>1, NoNewRace DEF GInv, Clean
  <2>3. \A s \in Tasks : Relies(task'[s])
    BY <2>1, SetStep DEF GInv, Clean
  <2> QED BY <1>1, <2>1, <2>2, <2>3 DEF Clean, Relies, Needs, Races
<1> QED BY <1>3, <1>4 DEF GInv

(* A request that fills its group, removes rows, or takes the group away.     *)
LEMMA Filled ==
  ASSUME GInv, NEW t \in Tasks, NEW f, Set(t, f), UNCHANGED <<groups, last_id>>,
         task[t].step \in Filling, TaskTyped(f, last_id), ~raced => Relies(f),
         members' \subseteq members \union (Clients \X {task[t].group}),
         bound' \subseteq bound \union ({task[t].group} \X Rules),
         task[t].group \in 1..last_id,
         f.step \notin {"rules", "group"}
  PROVE  GInv'
<1> DEFINE g == task[t].group
<1>1. Typed'
  <2>1. \A s \in Tasks : TaskTyped(task'[s], last_id) BY SetStep DEF GInv, Typed
  <2> QED BY <2>1, SetStep DEF GInv, Typed
<1>2. ASSUME ~raced' PROVE Clean'
  <2>1. ~raced /\ Clean BY <1>2, SetStep DEF GInv
  <2>2. \A s, u \in Tasks : ~Races(task'[s], task'[u])
    BY <1>2, <2>1, NoNewRace DEF GInv, Clean
  <2>3. g \in groups BY <2>1 DEF Clean, Relies, Needs
  <2>4. \A m \in members' : m \in members \/ m[2] = g
    OBVIOUS
  <2>5. \A b \in bound' : b \in bound \/ b[1] = g
    OBVIOUS
  <2>6. ASSUME NEW s \in Tasks PROVE Relies(task[s])'
    <3>1. CASE s = t BY <2>1, <3>1, SetStep DEF GInv, Relies, Needs
    <3>2. CASE s # t
      <4>1. task'[s] = task[s] /\ Relies(task[s]) BY <2>1, <3>2, SetStep DEF GInv, Clean
      <4>2. task[s].step \in {"rules", "group"} => task[s].group # g
        BY <2>1 DEF Clean, Races, Filling
      <4> QED BY <2>4, <2>5, <4>1, <4>2 DEF Relies, Needs
    <3> QED BY <3>1, <3>2
  <2>7. (\A m \in members' : m[2] \in groups) /\ (\A b \in bound' : b[1] \in groups)
    BY <2>1, <2>3, <2>4, <2>5 DEF Clean
  <2> QED BY <2>2, <2>6, <2>7 DEF Clean, Races
<1> QED BY <1>1, <1>2 DEF GInv

LEMMA Emptied ==
  ASSUME GInv, NEW t \in Tasks, NEW f, Set(t, f), UNCHANGED <<groups, last_id>>,
         members' \subseteq members, bound' \subseteq bound,
         TaskTyped(f, last_id),
         ~raced => Needs(f, groups', members', bound')
  PROVE  GInv'
<1>1. Typed'
  <2>1. \A s \in Tasks : TaskTyped(task'[s], last_id) BY SetStep DEF GInv, Typed
  <2> QED BY <2>1, SetStep DEF GInv, Typed
<1>2. ASSUME ~raced' PROVE Clean'
  <2>1. ~raced /\ Clean BY <1>2, SetStep DEF GInv
  <2>2. \A s, u \in Tasks : ~Races(task'[s], task'[u])
    BY <1>2, <2>1, NoNewRace DEF GInv, Clean
  <2>3. \A s \in Tasks : Relies(task[s])'
    BY <2>1, SetStep DEF GInv, Clean, Relies, Needs
  <2> QED BY <2>1, <2>2, <2>3 DEF Clean, Races
<1> QED BY <1>1, <1>2 DEF GInv

LEMMA Deleted ==
  ASSUME GInv, NEW t \in Tasks, DeleteGroup(t)
  PROVE  GInv'
<1> DEFINE g == task[t].group
<1>1. /\ Set(t, Idle) /\ task[t].step = "group" /\ groups' = groups \ {g}
      /\ UNCHANGED <<last_id, members, bound>>
  BY DEF DeleteGroup, At
<1>2. TaskTyped(Idle, last_id) BY DEF TaskTyped, Idle, Filling, Deleting, Batch
<1>3. Typed'
  <2>1. \A s \in Tasks : TaskTyped(task'[s], last_id) BY <1>1, <1>2, SetStep DEF GInv, Typed
  <2> QED BY <1>1, <2>1, SetStep DEF GInv, Typed
<1>4. ASSUME ~raced' PROVE Clean'
  <2>1. ~raced /\ Clean BY <1>1, <1>4, SetStep DEF GInv
  <2>2. \A s, u \in Tasks : ~Races(task'[s], task'[u])
    BY <1>1, <1>4, <2>1, NoNewRace DEF GInv, Clean
  <2>3. (\A m \in members : m[2] # g) /\ (\A b \in bound : b[1] # g)
    BY <1>1, <2>1 DEF Clean, Relies, Needs
  <2>4. ASSUME NEW s \in Tasks PROVE Relies(task[s])'
    <3>1. CASE s = t
      BY <1>1, <3>1, SetStep DEF GInv, Relies, Needs, Idle, Filling
    <3>2. CASE s # t
      <4>1. task'[s] = task[s] /\ Relies(task[s])
        BY <1>1, <2>1, <3>2, SetStep DEF GInv, Clean
      <4>2. task[s].step \in Filling => task[s].group # g
        BY <1>1, <2>1 DEF Clean, Races, Filling
      <4> QED BY <1>1, <4>1, <4>2 DEF Relies, Needs
    <3> QED BY <3>1, <3>2
  <2> QED BY <1>1, <2>1, <2>2, <2>3, <2>4 DEF Clean, Races
<1> QED BY <1>3, <1>4 DEF GInv

LEMMA Created ==
  ASSUME GInv, NEW t \in Tasks, CreateGroup(t)
  PROVE  GInv'
<1>1. /\ last_id' = last_id + 1 /\ last_id < MaxGroups /\ groups' = groups \union {last_id'}
      /\ UNCHANGED <<members, bound, task, raced>>
  BY DEF CreateGroup, tasks
<1>2. last_id \in 0..MaxGroups BY DEF GInv, Typed
<1>3. last_id' \in 0..MaxGroups /\ (1..last_id) \subseteq 1..last_id'
  BY <1>1, <1>2, GroupAssumption
<1>4. \A s \in Tasks : TaskTyped(task[s], last_id')
  <2> SUFFICES ASSUME NEW s \in Tasks PROVE TaskTyped(task[s], last_id') OBVIOUS
  <2>1. TaskTyped(task[s], last_id) BY DEF GInv, Typed
  <2>2. task[s].step \in Filling => task[s].group \in Ids /\ task[s].group <= last_id
    BY <2>1 DEF TaskTyped, Filling
  <2>3. task[s].step \in Filling => task[s].group <= last_id'
    BY <1>1, <1>2, <2>2, GroupAssumption DEF Ids
  <2> QED BY <2>1, <2>3 DEF TaskTyped
<1>5. Typed'
  <2>1. groups' \subseteq 1..last_id' BY <1>1, <1>2, <1>3, GroupAssumption DEF GInv, Typed
  <2>2. /\ members' \subseteq Clients \X (1..last_id')
        /\ bound' \subseteq (1..last_id') \X Rules
    BY <1>1, <1>3 DEF GInv, Typed
  <2>3. DOMAIN task' = Tasks /\ raced' \in BOOLEAN BY <1>1 DEF GInv, Typed
  <2> QED BY <1>1, <1>3, <1>4, <2>1, <2>2, <2>3 DEF Typed
<1>6. ASSUME ~raced' PROVE Clean'
  <2>1. Clean BY <1>1, <1>6 DEF GInv
  <2> QED BY <1>1, <2>1 DEF Clean, Relies, Needs, Races
<1> QED BY <1>5, <1>6 DEF GInv
-----------------------------------------------------------------------------
LEMMA IdleFree == TaskTyped(Idle, last_id) /\ Relies(Idle)
BY DEF TaskTyped, Relies, Needs, Idle, Filling, Deleting, Batch

(* What a request goes on with: the same step for the items left, or nothing. *)
LEMMA NextItem ==
  ASSUME GInv, NEW t \in Tasks, NEW item, task[t].step \in {"add", "remove", "bind", "unbind"}
  PROVE  /\ TaskTyped(Next1(t, item), last_id)
         /\ Next1(t, item).step \in {"idle", task[t].step}
         /\ Next1(t, item).step # "idle" => Next1(t, item).group = task[t].group
<1>1. TaskTyped(task[t], last_id) BY DEF GInv, Typed
<1>2. CASE task[t].todo = {item} BY <1>2, IdleFree DEF Next1, Idle
<1>3. CASE task[t].todo # {item}
  <2> DEFINE n == [task[t] EXCEPT !.todo = @ \ {item}]
  <2>1. Next1(t, item) = n BY <1>3 DEF Next1
  <2>2. n.step = task[t].step /\ n.group = task[t].group OBVIOUS
  <2>3. n.todo = task[t].todo \ {item} \/ n.todo = task[t].todo OBVIOUS
  <2> HIDE DEF n
  <2>4. TaskTyped(n, last_id) BY <1>1, <2>2, <2>3 DEF TaskTyped, Filling, Deleting, Batch
  <2> QED BY <2>1, <2>2, <2>4
<1> QED BY <1>2, <1>3

LEMMA BatchInv ==
  ASSUME GInv, NEW t \in Tasks, NEW step, NEW g, NEW items, BeginBatch(t, step, g, items),
         \/ step \in {"add", "remove"} /\ items \subseteq Clients
         \/ step \in {"bind", "unbind"} /\ items \subseteq Rules
  PROVE  GInv'
<1> DEFINE f == [step |-> step, group |-> g, todo |-> items]
<1>1. Set(t, f) /\ g \in groups /\ UNCHANGED tables BY DEF BeginBatch
<1>2. g \in Ids /\ g <= last_id BY <1>1, GroupAssumption DEF GInv, Typed, Ids
<1>3. TaskTyped(f, last_id) BY <1>2 DEF TaskTyped, Filling, Deleting, Batch
<1>4. Relies(f) BY <1>1 DEF Relies, Needs
<1> HIDE DEF f
<1> QED BY <1>1, <1>3, <1>4, TablesKept

LEMMA AddInv ==
  ASSUME GInv, NEW t \in Tasks, NEW c \in Clients, AddClient(t, c)
  PROVE  GInv'
<1> DEFINE f == Next1(t, c)
<1>1. /\ task[t].step = "add" /\ Set(t, f) /\ UNCHANGED <<groups, last_id, bound>>
      /\ members' = members \union {<<c, task[t].group>>}
  BY DEF AddClient, At
<1>2. /\ TaskTyped(f, last_id) /\ f.step \in {"idle", "add"}
      /\ f.step # "idle" => f.group = task[t].group
  BY <1>1, NextItem
<1> HIDE DEF f
<1>3. TaskTyped(task[t], last_id) /\ last_id \in Nat BY DEF GInv, Typed
<1>4. task[t].group \in 1..last_id BY <1>1, <1>3, GroupAssumption DEF TaskTyped, Filling, Ids
<1>5. ~raced => Relies(f) BY <1>1, <1>2 DEF GInv, Clean, Relies, Needs, Filling
<1> QED BY <1>1, <1>2, <1>4, <1>5, Filled DEF Filling

LEMMA BindInv ==
  ASSUME GInv, NEW t \in Tasks, NEW r \in Rules, BindRule(t, r)
  PROVE  GInv'
<1> DEFINE f == IF task[t].todo = {r} THEN [step |-> "invalidate", group |-> task[t].group]
                ELSE Next1(t, r)
<1>1. /\ task[t].step = "bind" /\ Set(t, f) /\ UNCHANGED <<groups, last_id, members>>
      /\ bound' = bound \union {<<task[t].group, r>>}
  BY DEF BindRule, At
<1>2. TaskTyped(task[t], last_id) /\ last_id \in Nat BY DEF GInv, Typed
<1>3. /\ TaskTyped(f, last_id) /\ f.step \in {"idle", "bind", "invalidate"}
      /\ f.step = "bind" => f.group = task[t].group
  BY <1>1, <1>2, NextItem DEF TaskTyped, Filling, Deleting, Batch
<1> HIDE DEF f
<1>4. task[t].group \in 1..last_id BY <1>1, <1>2, GroupAssumption DEF TaskTyped, Filling, Ids
<1>5. ~raced => Relies(f) BY <1>1, <1>3 DEF GInv, Clean, Relies, Needs, Filling
<1> QED BY <1>1, <1>3, <1>4, <1>5, Filled DEF Filling

LEMMA TakeInv ==
  ASSUME GInv, NEW t \in Tasks,
         \/ \E c \in Clients : RemoveClient(t, c) \/ LeaveGroup(t, c)
         \/ \E r \in Rules : UnbindRule(t, r)
  PROVE  GInv'
<1>0. TaskTyped(task[t], last_id) BY DEF GInv, Typed
<1>1. ASSUME NEW c \in Clients, RemoveClient(t, c) PROVE GInv'
  <2> DEFINE f == Next1(t, c)
  <2>1. /\ task[t].step = "remove" /\ Set(t, f) /\ UNCHANGED <<groups, last_id, bound>>
        /\ members' \subseteq members
    BY <1>1 DEF RemoveClient, At
  <2>2. TaskTyped(f, last_id) /\ f.step \in {"idle", "remove"} BY <2>1, NextItem
  <2> HIDE DEF f
  <2>3. Needs(f, groups', members', bound') BY <2>2 DEF Relies, Needs, Filling
  <2> QED BY <2>1, <2>2, <2>3, Emptied
<1>2. ASSUME NEW c \in Clients, LeaveGroup(t, c) PROVE GInv'
  <2> DEFINE f == [step |-> "target", from |-> task[t].from, group |-> task[t].group,
                   todo |-> task[t].todo \ {c}, client |-> c]
  <2>1. /\ task[t].step = "leave" /\ Set(t, f) /\ UNCHANGED <<groups, last_id, bound>>
        /\ members' \subseteq members
    BY <1>2 DEF LeaveGroup, At
  <2>2. TaskTyped(f, last_id) /\ f.step = "target"
    BY <1>0, <2>1 DEF TaskTyped, Filling, Deleting, Batch
  <2> HIDE DEF f
  <2>3. Needs(f, groups', members', bound') BY <2>2 DEF Relies, Needs, Filling
  <2> QED BY <2>1, <2>2, <2>3, Emptied
<1>3. ASSUME NEW r \in Rules, UnbindRule(t, r) PROVE GInv'
  <2> DEFINE f == IF task[t].todo = {r} THEN [step |-> "invalidate", group |-> task[t].group]
                  ELSE Next1(t, r)
  <2>1. /\ task[t].step = "unbind" /\ Set(t, f) /\ UNCHANGED <<groups, last_id, members>>
        /\ bound' \subseteq bound
    BY <1>3 DEF UnbindRule, At
  <2>2. TaskTyped(f, last_id) /\ f.step \in {"idle", "unbind", "invalidate"}
    BY <1>0, <2>1, NextItem DEF TaskTyped, Filling, Deleting, Batch
  <2> HIDE DEF f
  <2>3. Needs(f, groups', members', bound') BY <2>2 DEF Relies, Needs, Filling
  <2> QED BY <2>1, <2>2, <2>3, Emptied
<1> QED BY <1>1, <1>2, <1>3

LEMMA MoveInv ==
  ASSUME GInv, NEW t \in Tasks,
         \/ \E from, to \in Ids, cs \in SUBSET Clients : BeginMove(t, from, to, cs)
         \/ FindTarget(t) \/ JoinGroup(t)
  PROVE  GInv'
<1>0. TaskTyped(task[t], last_id) /\ last_id \in Nat BY DEF GInv, Typed
<1>1. ASSUME NEW from \in Ids, NEW to \in Ids, NEW cs \in SUBSET Clients,
             BeginMove(t, from, to, cs)
      PROVE  GInv'
  <2> DEFINE f == [step |-> "leave", from |-> from, group |-> to, todo |-> cs]
  <2>1. Set(t, f) /\ UNCHANGED tables BY <1>1 DEF BeginMove
  <2>2. TaskTyped(f, last_id) /\ Relies(f) BY DEF TaskTyped, Relies, Needs, Filling, Deleting, Batch
  <2> HIDE DEF f
  <2> QED BY <2>1, <2>2, TablesKept
<1>2. ASSUME task[t].step \in {"target", "join"}
      PROVE  TaskTyped(NextMove(t), last_id) /\ NextMove(t).step \in {"idle", "leave"}
  BY <1>0, <1>2, IdleFree DEF NextMove, Idle, TaskTyped, Filling, Deleting, Batch
<1>3. CASE FindTarget(t)
  <2> DEFINE f == IF task[t].group \in groups THEN [task[t] EXCEPT !.step = "join"]
                  ELSE NextMove(t)
  <2>1. task[t].step = "target" /\ Set(t, f) /\ UNCHANGED tables BY <1>3 DEF FindTarget, At
  <2>2. TaskTyped(f, last_id) /\ Relies(f)
    <3>1. CASE task[t].group \in groups
      <4>1. DOMAIN f = DOMAIN task[t] /\ f.group = task[t].group BY <3>1
      <4>2. f.todo = task[t].todo /\ f.client = task[t].client BY <3>1
      <4>3. f.step = "join" \/ f.step = task[t].step BY <3>1
      <4>4. f.group <= last_id BY <3>1, <4>1 DEF GInv, Typed
      <4> HIDE DEF f
      <4> QED BY <1>0, <2>1, <3>1, <4>1, <4>2, <4>3, <4>4
           DEF TaskTyped, Relies, Needs, Filling, Deleting, Batch
    <3>2. CASE task[t].group \notin groups
      <4>1. f = NextMove(t) BY <3>2
      <4> HIDE DEF f
      <4> QED BY <1>2, <2>1, <4>1 DEF Relies, Needs, Filling
    <3> QED BY <3>1, <3>2
  <2> HIDE DEF f
  <2> QED BY <2>1, <2>2, TablesKept
<1>4. CASE JoinGroup(t)
  <2> DEFINE f == NextMove(t)
  <2>1. /\ task[t].step = "join" /\ Set(t, f) /\ UNCHANGED <<groups, last_id, bound>>
        /\ members' = members \union {<<task[t].client, task[t].group>>}
    BY <1>4 DEF JoinGroup, At
  <2>2. TaskTyped(f, last_id) /\ f.step \in {"idle", "leave"} BY <1>2, <2>1
  <2> HIDE DEF f
  <2>3. task[t].client \in Clients /\ task[t].group \in 1..last_id
    BY <1>0, <2>1, GroupAssumption DEF TaskTyped, Filling, Ids
  <2>4. Relies(f) BY <2>2 DEF Relies, Needs, Filling
  <2> QED BY <2>1, <2>2, <2>3, <2>4, Filled DEF Filling
<1> QED BY <1>1, <1>3, <1>4

LEMMA DeleteInv ==
  ASSUME GInv, NEW t \in Tasks,
         \/ \E g \in Ids : BeginDelete(t, g)
         \/ DeleteMembers(t) \/ DeleteBindings(t)
  PROVE  GInv'
<1>0. TaskTyped(task[t], last_id) BY DEF GInv, Typed
<1>1. ASSUME NEW g \in Ids, BeginDelete(t, g) PROVE GInv'
  <2> DEFINE f == [step |-> "members", group |-> g]
  <2>1. Set(t, f) /\ UNCHANGED tables BY <1>1 DEF BeginDelete
  <2>2. TaskTyped(f, last_id) /\ Relies(f) BY DEF TaskTyped, Relies, Needs, Filling, Deleting, Batch
  <2> HIDE DEF f
  <2> QED BY <2>1, <2>2, TablesKept
<1>2. CASE DeleteMembers(t)
  <2> DEFINE f == [step |-> "rules", group |-> task[t].group]
  <2>1. /\ task[t].step = "members" /\ Set(t, f) /\ UNCHANGED <<groups, last_id, bound>>
        /\ members' = {m \in members : m[2] # task[t].group}
    BY <1>2 DEF DeleteMembers, At
  <2>2. TaskTyped(f, last_id) BY <1>0, <2>1 DEF TaskTyped, Filling, Deleting, Batch
  <2>3. Needs(f, groups', members', bound') BY <2>1 DEF Relies, Needs, Filling
  <2>4. members' \subseteq members BY <2>1
  <2> HIDE DEF f
  <2> QED BY <2>1, <2>2, <2>3, <2>4, Emptied
<1>3. CASE DeleteBindings(t)
  <2> DEFINE f == [step |-> "group", group |-> task[t].group]
  <2>1. /\ task[t].step = "rules" /\ Set(t, f) /\ UNCHANGED <<groups, last_id, members>>
        /\ bound' = {b \in bound : b[1] # task[t].group}
    BY <1>3 DEF DeleteBindings, At
  <2>2. TaskTyped(f, last_id) BY <1>0, <2>1 DEF TaskTyped, Filling, Deleting, Batch
  <2>3. ~raced => Needs(f, groups', members', bound') BY <2>1 DEF GInv, Clean, Relies, Needs, Filling
  <2>4. bound' \subseteq bound BY <2>1
  <2> HIDE DEF f
  <2> QED BY <2>1, <2>2, <2>3, <2>4, Emptied
<1> QED BY <1>1, <1>2, <1>3

LEMMA GInvStep == GInv /\ [Next]_vars => GInv'
<1> SUFFICES ASSUME GInv, [Next]_vars PROVE GInv' OBVIOUS
<1>1. ASSUME UNCHANGED <<tables, tasks>> PROVE GInv'
  BY <1>1 DEF tables, tasks, GInv, Typed, Clean, Relies, Needs, Races
<1>2. CASE UNCHANGED vars BY <1>1, <1>2 DEF vars
<1>3. ASSUME NEW t \in Tasks, NEW g \in Ids, NEW cs \in Some(Clients),
             BeginBatch(t, "add", g, cs) \/ BeginBatch(t, "remove", g, cs)
      PROVE  GInv'
  <2>1. cs \subseteq Clients BY DEF Some
  <2>2. CASE BeginBatch(t, "add", g, cs) BY <2>1, <2>2, BatchInv
  <2>3. CASE BeginBatch(t, "remove", g, cs) BY <2>1, <2>3, BatchInv
  <2> QED BY <1>3, <2>2, <2>3
<1>4. ASSUME NEW t \in Tasks, NEW g \in Ids, NEW rs \in Some(Rules),
             BeginBatch(t, "bind", g, rs) \/ BeginBatch(t, "unbind", g, rs)
      PROVE  GInv'
  <2>1. rs \subseteq Rules BY DEF Some
  <2>2. CASE BeginBatch(t, "bind", g, rs) BY <2>1, <2>2, BatchInv
  <2>3. CASE BeginBatch(t, "unbind", g, rs) BY <2>1, <2>3, BatchInv
  <2> QED BY <1>4, <2>2, <2>3
<1>5. ASSUME NEW t \in Tasks, Invalidate(t) \/ GiveUp(t) PROVE GInv'
  <2>1. Set(t, Idle) /\ UNCHANGED tables BY <1>5 DEF Invalidate, GiveUp
  <2> QED BY <2>1, IdleFree, TablesKept
<1>6. ASSUME NEW t \in Tasks,
             \E from, to \in Ids, cs \in Some(Clients) : BeginMove(t, from, to, cs)
      PROVE  GInv'
  BY <1>6, MoveInv DEF Some
<1> QED
  BY <1>2, <1>3, <1>4, <1>5, <1>6, Created, Deleted, AddInv, BindInv, TakeInv, MoveInv,
     DeleteInv DEF Next

THEOREM GroupInvariance == Spec => []GInv
BY GInvInit, GInvStep, PTL DEF Spec

(* No membership and no binding outlives its group, unless a request filled   *)
(* the group while delete_group was taking it away (client_groups.rs:269).    *)
THEOREM NoRowsOutlive == Spec => []NoOrphans
<1>1. GInv => NoOrphans BY DEF GInv, Clean, NoOrphans
<1> QED BY <1>1, GroupInvariance, PTL

(* A new group starts without members and without rules, whatever the         *)
(* deleted groups left behind (006_client_groups.sql:9).                      *)
THEOREM NewGroupsEmpty == Spec => NewGroupEmpty
<1> DEFINE Empty == \A g \in groups' \ groups :
                       MembersOf(g)' = {} /\ ~\E r \in Rules : <<g, r>> \in bound'
<1>1. ASSUME GInv, Next PROVE Empty
  <2>1. CASE groups' \subseteq groups BY <2>1
  <2>2. ASSUME NEW t \in Tasks, CreateGroup(t) PROVE Empty
    <3>1. /\ groups' = groups \union {last_id + 1} /\ UNCHANGED <<members, bound>>
      BY <2>2 DEF CreateGroup
    <3>2. last_id \in Nat /\ members \subseteq Clients \X (1..last_id)
          /\ bound \subseteq (1..last_id) \X Rules
      BY <1>1 DEF GInv, Typed
    <3>3. last_id + 1 \notin 1..last_id BY <3>2
    <3>4. \A c \in Clients : <<c, last_id + 1>> \notin members BY <3>2, <3>3
    <3>5. \A r \in Rules : <<last_id + 1, r>> \notin bound BY <3>2, <3>3
    <3> QED BY <3>1, <3>4, <3>5 DEF MembersOf
  <2>3. groups' \subseteq groups \/ \E t \in Tasks : CreateGroup(t)
    BY <1>1 DEF Next, BeginBatch, AddClient, RemoveClient, BeginMove, LeaveGroup, FindTarget,
       JoinGroup, BeginDelete, DeleteMembers, DeleteBindings, DeleteGroup, BindRule, UnbindRule,
       Invalidate, GiveUp, tables
  <2> QED BY <2>1, <2>2, <2>3
<1>2. GInv /\ [Next]_vars => [Empty]_vars BY <1>1
<1> QED BY <1>2, GroupInvariance, PTL DEF Spec, NewGroupEmpty
=============================================================================
