--------------------------- MODULE AccountsProofs ---------------------------
(* The race that Accounts records is the only way to lose the last super      *)
(* administrator, for any finite number of users and any number of requests.  *)
EXTENDS Accounts, FiniteSetTheorems, TLAPS

(* A request about to write a role names a user that exists. *)
TargetExists ==
    \A t \in Tasks : task[t].step \in {"count", "update"} => role[task[t].user] # Absent

(* A request about to demote a super administrator has seen another one, who  *)
(* still is one unless some role was written meanwhile.                       *)
Demotes(t) == At(t, "update") /\ role[task[t].user] = "super_admin" /\ task[t].role # "super_admin"
AnotherRemains ==
    ~raced => \A t \in Tasks : Demotes(t) => \E v \in Users \ {task[t].user} : role[v] = "super_admin"

IInv == TypeOK /\ TargetExists /\ AnotherRemains /\ LostOnlyInRace
-----------------------------------------------------------------------------
(* Two of a finite set differ from each other. *)
LEMMA TwoSuperAdmins ==
    ASSUME NEW u \in Users, ~(Cardinality(SuperAdmins) <= 1)
    PROVE  \E v \in Users \ {u} : role[v] = "super_admin"
<1>1. IsFiniteSet(SuperAdmins)
  BY AccountAssumption, FS_Subset DEF SuperAdmins
<1>2. SUFFICES ASSUME \A v \in Users \ {u} : role[v] # "super_admin" PROVE FALSE
  OBVIOUS
<1>3. SuperAdmins \subseteq {u}
  BY <1>2 DEF SuperAdmins
<1>4. IsFiniteSet({u}) /\ Cardinality({u}) = 1
  BY FS_Singleton
<1>5. Cardinality(SuperAdmins) <= Cardinality({u}) /\ Cardinality(SuperAdmins) \in Nat
  BY <1>1, <1>3, <1>4, FS_Subset, FS_CardinalityType
<1> QED  BY <1>4, <1>5

(* Seeding gives a user table its first user and leaves any other alone. *)
LEMMA SeedingTyped ==
    ASSUME NEW r \in [Users -> Roles \union {Absent}]
    PROVE  /\ Seeded(r) \in [Users -> Roles \union {Absent}]
           /\ \A u \in Users : r[u] # Absent => Seeded(r) = r
           /\ (\A u \in Users : r[u] = Absent) => Seeded(r)[Admin] = "super_admin"
  BY AccountAssumption DEF Seeded, Roles

LEMMA InitIInv == Init => IInv
<1> SUFFICES ASSUME Init PROVE IInv
  OBVIOUS
<1>1. [u \in Users |-> Absent] \in [Users -> Roles \union {Absent}]
  OBVIOUS
<1>2. role \in [Users -> Roles \union {Absent}] /\ role[Admin] = "super_admin"
  <2>1. \A u \in Users : [v \in Users |-> Absent][u] = Absent
    OBVIOUS
  <2> QED  BY <1>1, <2>1, SeedingTyped DEF Init
<1>3. TypeOK
  <2>1. token = [u \in Users |-> {}] /\ task = [t \in Tasks |-> Idle]
    BY DEF Init
  <2>2. token \in [Users -> SUBSET Roles]
    BY <2>1
  <2>3. restarts = 0 /\ raced = FALSE
    BY DEF Init
  <2>4. restarts \in 0..MaxRestarts
    BY <2>3, AccountAssumption
  <2> QED  BY <1>2, <2>1, <2>2, <2>3, <2>4 DEF TypeOK
<1>4. \A t \in Tasks : task[t].step = "idle"
  BY DEF Init, Idle
<1>5. TargetExists /\ AnotherRemains
  BY <1>4 DEF TargetExists, AnotherRemains, Demotes, At
<1>6. LostOnlyInRace
  BY <1>2, AccountAssumption DEF LostOnlyInRace, SuperAdmins
<1> QED  BY <1>3, <1>5, <1>6 DEF IInv

(* Steps that change no role: the request may only come to the write if what  *)
(* it is about to do is safe.                                                 *)
LEMMA RoleKept ==
    ASSUME IInv, TypeOK', UNCHANGED <<role, raced>>, NEW t \in Tasks,
           \A s \in Tasks \ {t} : task'[s] = task[s],
           task'[t].step \in {"count", "update"} => role[task'[t].user] # Absent,
           Demotes(t)' => \E v \in Users \ {task'[t].user} : role[v] = "super_admin"
    PROVE  IInv'
<1>1. TargetExists'
  BY DEF IInv, TargetExists
<1>2. AnotherRemains'
  BY DEF IInv, AnotherRemains, Demotes, At
<1> QED  BY <1>1, <1>2 DEF IInv, LostOnlyInRace, SuperAdmins

LEMMA QuietIInv ==
    ASSUME IInv, NEW t \in Tasks,
           \/ \E u \in Users : LogIn(t, u) \/ \E r \in Roles : Create(t, u, r)
           \/ Issue(t) \/ GiveUp(t)
    PROVE  IInv'
<1>1. TypeOK' /\ UNCHANGED <<role, raced>>
  BY DEF IInv, TypeOK, LogIn, Create, Issue, GiveUp, Set, At, Idle
<1>2. /\ task'[t].step \notin {"count", "update"}
      /\ \A s \in Tasks \ {t} : task'[s] = task[s]
  BY DEF IInv, TypeOK, LogIn, Create, Issue, GiveUp, Set, At, Idle
<1> QED  BY <1>1, <1>2, RoleKept DEF Demotes, At

(* A demotion of a super administrator goes to the count first. *)
LEMMA ReadIInv ==
    ASSUME IInv, NEW t \in Tasks, NEW u \in Users, NEW r \in Roles, ReadUser(t, u, r)
    PROVE  IInv'
<1> DEFINE step == IF role[u] = "super_admin" /\ r # "super_admin" THEN "count" ELSE "update"
<1>1. /\ task' = [task EXCEPT ![t] = [step |-> step, user |-> u, role |-> r]]
      /\ UNCHANGED <<role, token, restarts, raced>> /\ role[u] # Absent
  BY DEF ReadUser, Set
<1>2. TypeOK'
  BY <1>1 DEF IInv, TypeOK
<1>3. task'[t] = [step |-> step, user |-> u, role |-> r]
  BY <1>1 DEF IInv, TypeOK
<1>4. ~Demotes(t)'
  BY <1>1, <1>3 DEF Demotes, At
<1> QED  BY <1>1, <1>2, <1>3, <1>4, RoleKept DEF IInv, TypeOK

(* Only with another super administrator does it go on to the write. *)
LEMMA CountIInv == ASSUME IInv, NEW t \in Tasks, CountAdmins(t) PROVE IInv'
<1>1. UNCHANGED <<role, token, restarts, raced>> /\ At(t, "count")
  BY DEF CountAdmins
<1>2. task[t].user \in Users /\ role[task[t].user] # Absent
  BY <1>1 DEF IInv, TypeOK, TargetExists, At, Idle
<1>3. CASE Cardinality(SuperAdmins) <= 1
  <2>1. task' = [task EXCEPT ![t] = Idle]
    BY <1>3 DEF CountAdmins, Set
  <2>2. TypeOK' /\ task'[t].step = "idle"
    BY <1>1, <2>1 DEF IInv, TypeOK, Idle
  <2> QED  BY <1>1, <2>1, <2>2, RoleKept DEF IInv, TypeOK, Demotes, At
<1>4. CASE ~(Cardinality(SuperAdmins) <= 1)
  <2>1. task' = [task EXCEPT ![t] = [task[t] EXCEPT !.step = "update"]]
    BY <1>4 DEF CountAdmins, Set
  <2>2. task[t] \in [step : {"verified", "insert", "count", "update"}, user : Users, role : Roles]
    BY <1>1 DEF IInv, TypeOK, At, Idle
  <2>3. TypeOK' /\ task'[t].user = task[t].user
    BY <1>1, <2>1, <2>2 DEF IInv, TypeOK
  <2>4. \E v \in Users \ {task'[t].user} : role[v] = "super_admin"
    BY <1>2, <1>4, <2>3, TwoSuperAdmins
  <2> QED  BY <1>1, <1>2, <2>1, <2>3, <2>4, RoleKept DEF IInv, TypeOK
<1> QED  BY <1>3, <1>4

(* An INSERT adds a user and changes none. *)
LEMMA InsertIInv == ASSUME IInv, NEW t \in Tasks, Insert(t) PROVE IInv'
<1>1. task[t] \in [step : {"verified", "insert", "count", "update"}, user : Users, role : Roles]
  BY DEF Insert, IInv, TypeOK, At, Idle
<1>2. /\ role' = [role EXCEPT ![task[t].user] = IF @ = Absent THEN task[t].role ELSE @]
      /\ task' = [task EXCEPT ![t] = Idle] /\ UNCHANGED <<token, restarts, raced>>
  BY DEF Insert, Set
<1>3. TypeOK'
  BY <1>1, <1>2 DEF IInv, TypeOK
<1>4. \A u \in Users : role[u] # Absent => role'[u] = role[u]
  BY <1>1, <1>2 DEF IInv, TypeOK
<1>5. \A s \in Tasks : task'[s] = IF s = t THEN Idle ELSE task[s]
  BY <1>2 DEF IInv, TypeOK
<1>6. \A s \in Tasks : task[s].step \in {"count", "update"} => task[s].user \in Users
  BY DEF IInv, TypeOK, Idle
<1>7. TargetExists'
  BY <1>4, <1>5, <1>6, AccountAssumption DEF IInv, TargetExists, Idle
<1>8. AnotherRemains'
  BY <1>2, <1>4, <1>5, <1>6, AccountAssumption
     DEF IInv, AnotherRemains, TargetExists, Demotes, At, Idle
<1>9. LostOnlyInRace'
  BY <1>2, <1>4, AccountAssumption DEF IInv, LostOnlyInRace, SuperAdmins
<1> QED  BY <1>3, <1>7, <1>8, <1>9 DEF IInv

(* A role is written while another request is about to write one: that is the *)
(* race.  Otherwise a super administrator remains, because the one who is     *)
(* demoted was not the last, and no other request is about to demote anyone.  *)
LEMMA UpdateIInv == ASSUME IInv, NEW t \in Tasks, Update(t) PROVE IInv'
<1> DEFINE u == task[t].user
           r == task[t].role
<1>1. task[t] \in [step : {"verified", "insert", "count", "update"}, user : Users, role : Roles]
  BY DEF Update, IInv, TypeOK, At, Idle
<1>2. /\ At(t, "update") /\ role' = [role EXCEPT ![u] = r]
      /\ task' = [task EXCEPT ![t] = Idle]
      /\ raced' = (raced \/ \E s \in Tasks \ {t} : At(s, "update"))
      /\ UNCHANGED <<token, restarts>>
  BY DEF Update, Set
<1>3. u \in Users /\ r \in Roles
  BY <1>1
<1>4. TypeOK'
  BY <1>2, <1>3 DEF IInv, TypeOK
<1>5. \A v \in Users : role'[v] = IF v = u THEN r ELSE role[v]
  BY <1>2, <1>3 DEF IInv, TypeOK
<1>6. \A s \in Tasks : task'[s] = IF s = t THEN Idle ELSE task[s]
  BY <1>2 DEF IInv, TypeOK
<1>7. \A s \in Tasks : task[s].step \in {"count", "update"} => task[s].user \in Users
  BY DEF IInv, TypeOK, Idle
<1>8. r # Absent
  BY <1>3, AccountAssumption DEF Roles
<1>9. TargetExists'
  BY <1>5, <1>6, <1>7, <1>8 DEF IInv, TargetExists, Idle
<1>10. AnotherRemains'
  <2> SUFFICES ASSUME ~raced', NEW s \in Tasks, Demotes(s)' PROVE FALSE
    BY DEF AnotherRemains
  <2>1. s # t /\ At(s, "update")
    BY <1>6 DEF Demotes, At, Idle
  <2> QED  BY <1>2, <2>1
<1>11. LostOnlyInRace'
  <2> SUFFICES ASSUME ~raced' PROVE SuperAdmins' # {}
    BY DEF LostOnlyInRace
  <2>1. ~raced
    BY <1>2 DEF IInv, TypeOK
  <2>2. CASE r = "super_admin"
    BY <1>3, <1>5, <2>2 DEF SuperAdmins
  <2>3. CASE r # "super_admin" /\ role[u] = "super_admin"
    <3>1. PICK v \in Users \ {u} : role[v] = "super_admin"
      BY <1>2, <2>1, <2>3 DEF IInv, AnotherRemains, Demotes
    <3> QED  BY <1>5, <3>1 DEF SuperAdmins
  <2>4. CASE role[u] # "super_admin"
    BY <1>5, <2>1, <2>4 DEF IInv, LostOnlyInRace, SuperAdmins
  <2> QED  BY <2>2, <2>3, <2>4
<1> QED  BY <1>4, <1>9, <1>10, <1>11 DEF IInv

(* A restart forgets the requests; seeding has no effect on a table with users. *)
LEMMA RestartIInv == ASSUME IInv, Restart PROVE IInv'
<1>1. /\ task' = [t \in Tasks |-> Idle] /\ role' = Seeded(role) /\ UNCHANGED <<token, raced>>
      /\ restarts < MaxRestarts /\ restarts' = restarts + 1
  BY DEF Restart
<1>2. role' \in [Users -> Roles \union {Absent}]
  BY <1>1, SeedingTyped DEF IInv, TypeOK
<1>3. TypeOK'
  BY <1>1, <1>2, AccountAssumption DEF IInv, TypeOK
<1>4. TargetExists' /\ AnotherRemains'
  BY <1>1 DEF TargetExists, AnotherRemains, Demotes, At, Idle
<1>5. LostOnlyInRace'
  <2> SUFFICES ASSUME ~raced PROVE SuperAdmins' # {}
    BY <1>1 DEF LostOnlyInRace
  <2>1. PICK u \in Users : role[u] = "super_admin"
    BY DEF IInv, LostOnlyInRace, SuperAdmins
  <2>2. role' = role
    BY <1>1, <2>1, SeedingTyped, AccountAssumption DEF IInv, TypeOK
  <2> QED  BY <2>1, <2>2 DEF SuperAdmins
<1> QED  BY <1>3, <1>4, <1>5 DEF IInv

LEMMA ExpireIInv == ASSUME IInv, NEW u \in Users, Expire(u) PROVE IInv'
<1>1. UNCHANGED <<role, task, restarts, raced>>
  BY DEF Expire
<1>2. TypeOK'
  BY <1>1 DEF Expire, IInv, TypeOK
<1> QED  BY <1>1, <1>2
         DEF IInv, TargetExists, AnotherRemains, Demotes, At, LostOnlyInRace, SuperAdmins

LEMMA NextIInv == IInv /\ [Next]_vars => IInv'
<1> SUFFICES ASSUME IInv, [Next]_vars PROVE IInv'
  OBVIOUS
<1>1. CASE UNCHANGED vars
  BY <1>1 DEF vars, IInv, TypeOK, TargetExists, AnotherRemains, Demotes, At, LostOnlyInRace, SuperAdmins
<1>2. CASE Next
  BY <1>2, QuietIInv, ReadIInv, CountIInv, InsertIInv, UpdateIInv, RestartIInv, ExpireIInv DEF Next
<1> QED  BY <1>1, <1>2
-----------------------------------------------------------------------------
(* The inductive invariant holds throughout. *)
THEOREM Invariance == Spec => []IInv
  BY InitIInv, NextIInv, PTL DEF Spec

(* Every variable of the users model keeps its type. *)
THEOREM Typing == Spec => []TypeOK
  BY Invariance, PTL DEF IInv

(* Without a role written between the count and the write of a demotion, a    *)
(* super administrator remains.                                               *)
THEOREM LostOnlyInRaceHolds == Spec => []LostOnlyInRace
  BY Invariance, PTL DEF IInv

(* A step changes the role of a user only by the request that was about to    *)
(* write it: no INSERT replaces and no seeding repeats.                       *)
LEMMA StepOnlyUpdates ==
    ASSUME TypeOK, [Next]_vars, NEW u \in Users, role[u] # Absent, role'[u] # role[u]
    PROVE  \E t \in Tasks : At(t, "update") /\ task[t].user = u /\ role'[u] = task[t].role
<1>1. ASSUME NEW t \in Tasks, Update(t)
      PROVE  At(t, "update") /\ task[t].user = u /\ role'[u] = task[t].role
  BY <1>1 DEF Update, TypeOK
<1>2. ASSUME NEW t \in Tasks, Insert(t) PROVE FALSE
  BY <1>2 DEF Insert, TypeOK
<1>3. ASSUME Restart PROVE FALSE
  BY <1>3, SeedingTyped DEF Restart, TypeOK
<1>4. role' # role
  OBVIOUS
<1> QED  BY <1>1, <1>2, <1>3, <1>4
         DEF Next, LogIn, Create, ReadUser, Issue, CountAdmins, GiveUp, Expire, vars

THEOREM RolesOnlyUpdated == Spec => OnlyUpdated
<1>1. IInv /\ [Next]_vars =>
        [\A u \in Users : role[u] # Absent /\ role'[u] # role[u]
           => \E t \in Tasks : At(t, "update") /\ task[t].user = u /\ role'[u] = task[t].role]_vars
  BY StepOnlyUpdates DEF IInv
<1> QED  BY <1>1, Invariance, PTL DEF Spec, OnlyUpdated
=============================================================================
