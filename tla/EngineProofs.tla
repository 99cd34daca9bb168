------------------------------ MODULE EngineProofs --------------------------
(* Theorems of the filter engine and of the handlers that drive it, for any   *)
(* number of tasks, rules, rewrites, lists and database changes, in three     *)
(* parts: the engine is safe and implements EngineContract; the handlers of   *)
(* rules and rewrites, and those of filter lists with their syncs, use it as  *)
(* FilterEngine expects, so what is proved of the engine holds of them.       *)
EXTENDS RuleAdmin, ListSync, TLAPS

(* The last recorded view is the database's. *)
RecordsNow == Now \in Nat \ {0} /\ commits[Now] = View(custom_rules, dns_rewrites)

(* What a reload holds is a state the database was in; outside a reload it    *)
(* holds nothing.                                                             *)
HoldsCommitted ==
    \A t \in Tasks :
      /\ pc[t] \in {"count", "install", "install_rewrites"} =>
            new_rules[t].at \in 1..Now /\ new_rules[t].val = commits[new_rules[t].at].rules
      /\ pc[t] \in {"install", "install_rewrites"} =>
            /\ new_rewrites[t].at \in 1..Now
            /\ new_rewrites[t].val = commits[new_rewrites[t].at].rewrites
      /\ pc[t] \in {"idle", "handling", "reload"} => new_rules[t].at = 0

(* A task under way wrote a state that exists; an idle one has none to reload. *)
OwnExists == \A t \in Tasks : own[t] \in 0..Now /\ (pc[t] = "idle" => own[t] = 0)

(* Unless a reload was lost or installed out of order, each table is the      *)
(* newest one, or the task that wrote the newest state has yet to install it. *)
Awaited(steps) == \E t \in Tasks : own[t] = Now /\ pc[t] \in steps
BeforeRules == {"handling", "reload", "count", "install"}
NewestOrAwaited ==
    ~abandoned /\ ~regressed =>
      /\ rules.at = Now \/ Awaited(BeforeRules)
      /\ rewrites.at = Now \/ Awaited(BeforeRules \union {"install_rewrites"})

IInv == /\ TypeOK /\ RecordsNow /\ ShowsCommitted /\ HoldsCommitted
        /\ OwnExists /\ ReloadsOwnWrite /\ NewestOrAwaited
-----------------------------------------------------------------------------
(* What the SELECTs return has its type, whatever the tables. *)
LEMMA ViewTyped ==
    ASSUME NEW R \in RuleTables, NEW W \in RewriteTables
    PROVE  /\ EnabledRules(R) \in SUBSET RuleIds
           /\ RewriteMap(W) \in RewriteMaps
           /\ View(R, W) \in ViewSet
<1>1. EnabledRules(R) \in SUBSET RuleIds
  BY DEF RuleTables, RuleRow, EnabledRules
<1>2. RewriteMap(W) \in RewriteMaps
  <2> DEFINE D == {r.domain : r \in W}
  <2>1. D \in SUBSET Domains
    BY DEF RewriteTables, RewriteRow
  <2>2. ASSUME NEW d \in D PROVE AnswerOf(W, d) \in Answers
    <3>1. PICK r \in W : r.domain = d
      BY <2>2
    <3>2. (CHOOSE s \in W : s.domain = d) \in W
      BY <3>1
    <3> QED  BY <3>2 DEF AnswerOf, RewriteTables, RewriteRow
  <2>3. RewriteMap(W) \in [D -> Answers]
    BY <2>2 DEF RewriteMap
  <2> QED  BY <2>1, <2>3 DEF RewriteMaps
<1> QED  BY <1>1, <1>2 DEF View, ViewSet

(* Recording a state keeps the states recorded before. *)
LEMMA AppendKeeps ==
    ASSUME NEW S, NEW s \in Seq(S), NEW e \in S
    PROVE  /\ Append(s, e) \in Seq(S)
           /\ Len(s) \in Nat
           /\ Len(Append(s, e)) = Len(s) + 1
           /\ \A i \in 1..Len(s) : Append(s, e)[i] = s[i]
           /\ Append(s, e)[Len(s) + 1] = e
  OBVIOUS

LEMMA NoCopiesTyped == NoRules \in RuleCopies /\ NoRewrites \in RewriteCopies
<1>1. [d \in {} |-> d] \in [{} -> Answers]
  OBVIOUS
<1> QED  BY <1>1 DEF NoRules, NoRewrites, RuleCopies, RewriteCopies, RewriteMaps

(* The engine that main() builds. *)
LEMMA InitIInv == Init => IInv
<1> SUFFICES ASSUME Init PROVE IInv
  OBVIOUS
<1>1. TypeOK
  <2>1. /\ rules \in RuleCopies /\ rewrites \in RewriteCopies
        /\ View(custom_rules, dns_rewrites) \in ViewSet
    BY ViewTyped DEF Init, RuleCopies, RewriteCopies
  <2>2. commits \in Seq(ViewSet)
    BY <2>1 DEF Init
  <2> QED  BY <2>1, <2>2, NoCopiesTyped DEF Init, TypeOK, Steps
<1>2. RecordsNow /\ ShowsCommitted
  BY DEF Init, RecordsNow, ShowsCommitted, Now, View
<1>3. HoldsCommitted /\ OwnExists /\ ReloadsOwnWrite
  BY DEF Init, HoldsCommitted, OwnExists, ReloadsOwnWrite, Now, NoRules
<1>4. NewestOrAwaited
  BY DEF Init, NewestOrAwaited, Now
<1> QED  BY <1>1, <1>2, <1>3, <1>4 DEF IInv

(* A handler's write adds a state; what a reload already holds stays what it  *)
(* was, and the writer is the one who has to install the newest state.        *)
LEMMA WriteIInv == ASSUME IInv, NEW t \in Tasks, Write(t) PROVE IInv'
<1> USE DEF IInv
<1>1. PICK step \in {"handling", "reload"} : Commit(t, custom_rules', dns_rewrites', step)
  BY DEF Write
<1>2. pc[t] \in {"idle", "handling"} /\ custom_rules' \in RuleTables /\ dns_rewrites' \in RewriteTables
  BY DEF Write
<1>3. View(custom_rules', dns_rewrites') \in ViewSet
  BY <1>2, ViewTyped
<1>4. commits \in Seq(ViewSet) /\ commits' = Append(commits, View(custom_rules', dns_rewrites'))
  BY <1>1 DEF Commit, TypeOK
<1>5. /\ commits' \in Seq(ViewSet)
      /\ Now \in Nat /\ Now' = Now + 1
      /\ \A i \in 1..Now : commits'[i] = commits[i]
      /\ commits'[Now'] = View(custom_rules', dns_rewrites')
  BY <1>3, <1>4, AppendKeeps DEF Now
<1>6. /\ UNCHANGED <<rules, rewrites, new_rules, new_rewrites, abandoned, regressed>>
      /\ pc' = [pc EXCEPT ![t] = step] /\ own' = [own EXCEPT ![t] = Now + 1]
  BY <1>1 DEF Commit, Goto, engine
<1>7. pc' \in [Tasks -> Steps] /\ own' \in [Tasks -> Nat]
  BY <1>5, <1>6 DEF TypeOK, Steps
<1>8. TypeOK'
  BY <1>2, <1>5, <1>6, <1>7 DEF TypeOK
<1>9. RecordsNow' /\ ShowsCommitted'
  BY <1>5, <1>6 DEF RecordsNow, ShowsCommitted, View
<1>10. HoldsCommitted'
  BY <1>2, <1>5, <1>6 DEF HoldsCommitted, TypeOK
<1>11. OwnExists'
  BY <1>5, <1>6 DEF OwnExists, TypeOK
<1>12. ReloadsOwnWrite'
  BY <1>2, <1>6 DEF ReloadsOwnWrite, TypeOK
<1>13. NewestOrAwaited'
  <2>1. own'[t] = Now' /\ pc'[t] \in {"handling", "reload"}
    BY <1>5, <1>6 DEF TypeOK
  <2> QED  BY <2>1 DEF NewestOrAwaited, Awaited, BeforeRules
<1> QED  BY <1>8, <1>9, <1>10, <1>11, <1>12, <1>13

(* Going on to another step before the reload changes nothing else. *)
LEMMA ProceedIInv ==
    ASSUME IInv, NEW t \in Tasks,
           \/ Begin(t)
           \/ StartReload(t)
    PROVE  IInv'
<1> USE DEF IInv
<1>1. PICK step \in {"handling", "reload"} :
         pc[t] \in {"idle", "handling"} /\ pc' = [pc EXCEPT ![t] = step]
  BY DEF Begin, StartReload, Proceed, Goto
<1>2. /\ UNCHANGED <<custom_rules, dns_rewrites, rules, rewrites, new_rules, new_rewrites>>
      /\ UNCHANGED <<commits, own, abandoned, regressed>>
  BY DEF Begin, StartReload, Proceed, tables, engine, history
<1>3. TypeOK'
  BY <1>1, <1>2 DEF TypeOK, Steps
<1>4. RecordsNow' /\ ShowsCommitted'
  BY <1>2 DEF RecordsNow, ShowsCommitted, Now
<1>5. HoldsCommitted' /\ ReloadsOwnWrite' /\ OwnExists'
  BY <1>1, <1>2 DEF HoldsCommitted, ReloadsOwnWrite, OwnExists, Now, TypeOK
<1>6. NewestOrAwaited'
  BY <1>1, <1>2 DEF NewestOrAwaited, Awaited, BeforeRules, Now, TypeOK
<1> QED  BY <1>3, <1>4, <1>5, <1>6

(* The first SELECT returns the newest state. *)
LEMMA ReadRulesIInv == ASSUME IInv, NEW t \in Tasks, ReadRules(t) PROVE IInv'
<1> USE DEF IInv
<1> DEFINE read == [val |-> EnabledRules(custom_rules), at |-> Now]
<1>1. /\ pc[t] = "reload" /\ pc' = [pc EXCEPT ![t] = "count"]
      /\ new_rules' = [new_rules EXCEPT ![t] = read]
  BY DEF ReadRules, Goto
<1>2. /\ UNCHANGED <<custom_rules, dns_rewrites, rules, rewrites, new_rewrites>>
      /\ UNCHANGED <<commits, own, abandoned, regressed>>
  BY DEF ReadRules, tables, engine, history
<1>3. read \in RuleCopies
  BY ViewTyped DEF TypeOK, RuleCopies, RecordsNow
<1>4. TypeOK'
  BY <1>1, <1>2, <1>3 DEF TypeOK, Steps
<1>5. RecordsNow' /\ ShowsCommitted'
  BY <1>2 DEF RecordsNow, ShowsCommitted, Now
<1>6. HoldsCommitted' /\ OwnExists'
  BY <1>1, <1>2 DEF HoldsCommitted, OwnExists, RecordsNow, View, Now, TypeOK
<1>7. ReloadsOwnWrite'
  BY <1>1, <1>2 DEF ReloadsOwnWrite, OwnExists, RecordsNow, Now, TypeOK
<1>8. NewestOrAwaited'
  BY <1>1, <1>2 DEF NewestOrAwaited, Awaited, BeforeRules, Now, TypeOK
<1> QED  BY <1>4, <1>5, <1>6, <1>7, <1>8

(* So does the second, which comes after the first. *)
LEMMA ReadRewritesIInv == ASSUME IInv, NEW t \in Tasks, ReadRewrites(t) PROVE IInv'
<1> USE DEF IInv
<1> DEFINE read == [val |-> RewriteMap(dns_rewrites), at |-> Now]
<1>1. /\ pc[t] = "count" /\ pc' = [pc EXCEPT ![t] = "install"]
      /\ new_rewrites' = [new_rewrites EXCEPT ![t] = read]
  BY DEF ReadRewrites, Goto
<1>2. /\ UNCHANGED <<custom_rules, dns_rewrites, rules, rewrites, new_rules>>
      /\ UNCHANGED <<commits, own, abandoned, regressed>>
  BY DEF ReadRewrites, tables, engine, history
<1>3. read \in RewriteCopies
  BY ViewTyped DEF TypeOK, RewriteCopies, RecordsNow
<1>4. TypeOK'
  BY <1>1, <1>2, <1>3 DEF TypeOK, Steps
<1>5. RecordsNow' /\ ShowsCommitted'
  BY <1>2 DEF RecordsNow, ShowsCommitted, Now
<1>6. HoldsCommitted' /\ OwnExists'
  BY <1>1, <1>2 DEF HoldsCommitted, OwnExists, RecordsNow, View, Now, TypeOK
<1>7. ReloadsOwnWrite'
  BY <1>1, <1>2 DEF ReloadsOwnWrite, OwnExists, HoldsCommitted, RecordsNow, Now, TypeOK
<1>8. NewestOrAwaited'
  BY <1>1, <1>2 DEF NewestOrAwaited, Awaited, BeforeRules, Now, TypeOK
<1> QED  BY <1>4, <1>5, <1>6, <1>7, <1>8

(* Replacing the rules: a table that is not older than the one it replaces    *)
(* keeps the newest state shown, and a task that wrote it now shows it.       *)
LEMMA InstallRulesIInv == ASSUME IInv, NEW t \in Tasks, InstallRules(t) PROVE IInv'
<1> USE DEF IInv
<1>1. /\ pc[t] = "install" /\ pc' = [pc EXCEPT ![t] = "install_rewrites"]
      /\ rules' = new_rules[t]
      /\ regressed' = (regressed \/ new_rules[t].at < rules.at)
  BY DEF InstallRules, Goto
<1>2. /\ UNCHANGED <<custom_rules, dns_rewrites, rewrites, new_rules, new_rewrites>>
      /\ UNCHANGED <<commits, own, abandoned>>
  BY DEF InstallRules, tables
<1>3. TypeOK'
  BY <1>1, <1>2 DEF TypeOK, Steps
<1>4. RecordsNow' /\ ShowsCommitted'
  BY <1>1, <1>2 DEF RecordsNow, ShowsCommitted, HoldsCommitted, Now
<1>5. HoldsCommitted' /\ OwnExists' /\ ReloadsOwnWrite'
  BY <1>1, <1>2 DEF HoldsCommitted, OwnExists, ReloadsOwnWrite, Now, TypeOK
<1>6. ASSUME ~abandoned', ~regressed'
      PROVE  /\ rules'.at = Now' \/ Awaited(BeforeRules)'
             /\ rewrites'.at = Now' \/ Awaited(BeforeRules \union {"install_rewrites"})'
  <2>1. ~abandoned /\ ~regressed /\ ~(new_rules[t].at < rules.at)
    BY <1>1, <1>2, <1>6 DEF TypeOK
  <2>2. Now \in Nat /\ rules.at \in 1..Now /\ new_rules[t].at \in 1..Now /\ own[t] <= new_rules[t].at
    BY <1>1 DEF RecordsNow, ShowsCommitted, HoldsCommitted, ReloadsOwnWrite
  <2>3. CASE rules.at = Now
    BY <1>1, <1>2, <2>1, <2>2, <2>3 DEF NewestOrAwaited, Awaited, BeforeRules, Now, TypeOK
  <2>4. CASE own[t] = Now
    BY <1>1, <1>2, <2>2, <2>4 DEF Awaited, Now, TypeOK
  <2>5. CASE rules.at # Now /\ own[t] # Now
    <3>1. PICK u \in Tasks : own[u] = Now /\ pc[u] \in BeforeRules
      BY <2>1, <2>5 DEF NewestOrAwaited, Awaited
    <3> QED  BY <1>1, <1>2, <2>5, <3>1 DEF Awaited, BeforeRules, Now, TypeOK
  <2> QED  BY <2>3, <2>4, <2>5
<1> QED  BY <1>3, <1>4, <1>5, <1>6 DEF NewestOrAwaited

LEMMA InstallRewritesIInv == ASSUME IInv, NEW t \in Tasks, InstallRewrites(t) PROVE IInv'
<1> USE DEF IInv
<1>1. /\ pc[t] = "install_rewrites" /\ pc' = [pc EXCEPT ![t] = "idle"]
      /\ rewrites' = new_rewrites[t]
      /\ regressed' = (regressed \/ new_rewrites[t].at < rewrites.at)
      /\ new_rules' = [new_rules EXCEPT ![t] = NoRules]
      /\ new_rewrites' = [new_rewrites EXCEPT ![t] = NoRewrites]
      /\ own' = [own EXCEPT ![t] = 0]
  BY DEF InstallRewrites, Goto
<1>2. UNCHANGED <<custom_rules, dns_rewrites, rules, commits, abandoned>>
  BY DEF InstallRewrites, tables
<1>3. TypeOK'
  BY <1>1, <1>2, NoCopiesTyped DEF TypeOK, Steps
<1>4. RecordsNow' /\ ShowsCommitted'
  BY <1>1, <1>2 DEF RecordsNow, ShowsCommitted, HoldsCommitted, Now
<1>5. HoldsCommitted' /\ OwnExists' /\ ReloadsOwnWrite'
  BY <1>1, <1>2 DEF HoldsCommitted, OwnExists, ReloadsOwnWrite, RecordsNow, NoRules, Now, TypeOK
<1>6. ASSUME ~abandoned', ~regressed'
      PROVE  /\ rules'.at = Now' \/ Awaited(BeforeRules)'
             /\ rewrites'.at = Now' \/ Awaited(BeforeRules \union {"install_rewrites"})'
  <2>1. ~abandoned /\ ~regressed /\ ~(new_rewrites[t].at < rewrites.at)
    BY <1>1, <1>2, <1>6 DEF TypeOK
  <2>2. /\ Now \in Nat /\ rewrites.at \in 1..Now
        /\ new_rewrites[t].at \in 1..Now /\ own[t] <= new_rewrites[t].at
    BY <1>1 DEF RecordsNow, ShowsCommitted, HoldsCommitted, ReloadsOwnWrite
  <2>3. rules'.at = Now' \/ Awaited(BeforeRules)'
    BY <1>1, <1>2, <2>1 DEF NewestOrAwaited, Awaited, BeforeRules, Now, TypeOK
  <2>4. CASE rewrites.at = Now \/ own[t] = Now
    BY <1>1, <1>2, <2>1, <2>2, <2>3, <2>4 DEF Now
  <2>5. CASE rewrites.at # Now /\ own[t] # Now
    <3>1. PICK u \in Tasks :
             own[u] = Now /\ pc[u] \in BeforeRules \union {"install_rewrites"}
      BY <2>1, <2>5 DEF NewestOrAwaited, Awaited
    <3> QED  BY <1>1, <1>2, <2>3, <2>5, <3>1 DEF Awaited, BeforeRules, Now, TypeOK
  <2> QED  BY <2>4, <2>5
<1> QED  BY <1>3, <1>4, <1>5, <1>6 DEF NewestOrAwaited

(* A task that ends early takes its own state with it only if it had written, *)
(* and then the loss is recorded.                                             *)
LEMMA LeaveIInv == ASSUME IInv, NEW t \in Tasks, Leave(t) PROVE IInv'
<1> USE DEF IInv
<1>1. /\ pc' = [pc EXCEPT ![t] = "idle"]
      /\ new_rules' = [new_rules EXCEPT ![t] = NoRules]
      /\ new_rewrites' = [new_rewrites EXCEPT ![t] = NoRewrites]
      /\ own' = [own EXCEPT ![t] = 0]
      /\ abandoned' = (abandoned \/ own[t] # 0)
  BY DEF Leave, Goto
<1>2. UNCHANGED <<custom_rules, dns_rewrites, rules, rewrites, commits, regressed>>
  BY DEF Leave, tables, engine
<1>3. TypeOK'
  BY <1>1, <1>2, NoCopiesTyped DEF TypeOK, Steps
<1>4. RecordsNow' /\ ShowsCommitted'
  BY <1>1, <1>2 DEF RecordsNow, ShowsCommitted, Now
<1>5. HoldsCommitted' /\ OwnExists' /\ ReloadsOwnWrite'
  BY <1>1, <1>2 DEF HoldsCommitted, OwnExists, ReloadsOwnWrite, RecordsNow, NoRules, Now, TypeOK
<1>6. NewestOrAwaited'
  BY <1>1, <1>2 DEF NewestOrAwaited, Awaited, RecordsNow, Now, TypeOK
<1> QED  BY <1>3, <1>4, <1>5, <1>6

LEMMA RestartIInv == ASSUME IInv, Restart PROVE IInv'
<1> USE DEF IInv
<1>1. Now \in Nat \ {0} /\ Now' = Now /\ UNCHANGED <<custom_rules, dns_rewrites, commits>>
  BY DEF Restart, RecordsNow, Now, tables
<1>2. TypeOK'
  <2>1. rules' \in RuleCopies /\ rewrites' \in RewriteCopies
    BY <1>1, ViewTyped DEF Restart, TypeOK, RuleCopies, RewriteCopies
  <2> QED  BY <1>1, <2>1, NoCopiesTyped DEF Restart, TypeOK, Steps
<1>3. RecordsNow' /\ ShowsCommitted'
  BY <1>1 DEF Restart, RecordsNow, ShowsCommitted, View
<1>4. HoldsCommitted' /\ OwnExists' /\ ReloadsOwnWrite'
  BY <1>1 DEF Restart, HoldsCommitted, OwnExists, ReloadsOwnWrite, NoRules
<1>5. NewestOrAwaited'
  BY <1>1 DEF Restart, NewestOrAwaited
<1> QED  BY <1>2, <1>3, <1>4, <1>5

LEMMA StutterIInv == ASSUME IInv, UNCHANGED vars PROVE IInv'
  BY DEF IInv, vars, tables, engine, history, TypeOK, RecordsNow, ShowsCommitted, HoldsCommitted,
         OwnExists, ReloadsOwnWrite, NewestOrAwaited, Awaited, Now

LEMMA NextIInv == IInv /\ [Next]_vars => IInv'
<1> SUFFICES ASSUME IInv, [Next]_vars PROVE IInv'
  OBVIOUS
<1>1. ASSUME NEW t \in Tasks, Write(t) PROVE IInv'
  BY <1>1, WriteIInv
<1>2. ASSUME NEW t \in Tasks, Begin(t) \/ StartReload(t) PROVE IInv'
  BY <1>2, ProceedIInv
<1>3. ASSUME NEW t \in Tasks, ReadRules(t) PROVE IInv'
  BY <1>3, ReadRulesIInv
<1>4. ASSUME NEW t \in Tasks, ReadRewrites(t) PROVE IInv'
  BY <1>4, ReadRewritesIInv
<1>5. ASSUME NEW t \in Tasks, InstallRules(t) PROVE IInv'
  BY <1>5, InstallRulesIInv
<1>6. ASSUME NEW t \in Tasks, InstallRewrites(t) PROVE IInv'
  BY <1>6, InstallRewritesIInv
<1>7. ASSUME NEW t \in Tasks, Reject(t) \/ Abandon(t) PROVE IInv'
  BY <1>7, LeaveIInv DEF Reject, Abandon
<1>8. CASE Restart
  BY <1>8, RestartIInv
<1>9. CASE UNCHANGED vars
  BY <1>9, StutterIInv
<1> QED  BY <1>1, <1>2, <1>3, <1>4, <1>5, <1>6, <1>7, <1>8, <1>9 DEF Next

(* The inductive invariant holds throughout. *)
THEOREM Invariance == Spec => []IInv
  BY InitIInv, NextIInv, PTL DEF Spec

(* The types, for every value of the constants. *)
THEOREM Typing == Spec => []TypeOK
<1>1. IInv => TypeOK
  BY DEF IInv
<1> QED  BY <1>1, Invariance, PTL

(* reload() never shows a table the database did not hold. *)
THEOREM OnlyCommittedShown == Spec => []ShowsCommitted
<1>1. IInv => ShowsCommitted
  BY DEF IInv
<1> QED  BY <1>1, Invariance, PTL

(* A task that wrote reloads its own write or something later. *)
THEOREM OwnWriteReloaded == Spec => []ReloadsOwnWrite
<1>1. IInv => ReloadsOwnWrite
  BY DEF IInv
<1> QED  BY <1>1, Invariance, PTL

(* At rest the engine is stale only if a reload was lost or installed late. *)
THEOREM FreshAtRest == Spec => []RestsFresh
<1>1. ASSUME IInv, Idle, ~abandoned, ~regressed PROVE Fresh
  <2>1. ~Awaited(BeforeRules \union {"install_rewrites"}) /\ ~Awaited(BeforeRules)
    BY <1>1 DEF Idle, Awaited, BeforeRules
  <2>2. rules.at = Now /\ rewrites.at = Now
    BY <1>1, <2>1 DEF IInv, NewestOrAwaited
  <2> QED  BY <1>1, <2>2 DEF IInv, ShowsCommitted, RecordsNow, View, Fresh
<1>2. IInv => RestsFresh
  BY <1>1 DEF RestsFresh
<1> QED  BY <1>2, Invariance, PTL
-----------------------------------------------------------------------------
(* The engine implements its contract. *)
since == [t \in Tasks |-> new_rules[t].at]

LEMMA InitContract == Init => Contract!Init
<1> SUFFICES ASSUME Init PROVE Contract!Init
  OBVIOUS
<1> DEFINE view == View(custom_rules, dns_rewrites)
<1>1. view \in ViewSet
  BY ViewTyped DEF Init
<1>2. commits = <<view>> /\ rules.val = view.rules /\ rewrites.val = view.rewrites
  BY DEF Init, View
<1>3. since = [t \in Tasks |-> 0]
  BY DEF Init, since, NoRules
<1> QED  BY <1>1, <1>2, <1>3 DEF Contract!Init, since

(* A step that leaves the reload of every task where it was. *)
LEMMA SinceKept ==
    ASSUME NEW t \in Tasks, new_rules \in [Tasks -> RuleCopies], NEW c \in RuleCopies,
           new_rules' = [new_rules EXCEPT ![t] = c]
    PROVE  /\ since' = [since EXCEPT ![t] = c.at]
           /\ since[t] = new_rules[t].at
  BY DEF since, RuleCopies

LEMMA StepContract == IInv /\ [Next]_vars => [Contract!Next]_(Contract!vars)
<1> SUFFICES ASSUME IInv, [Next]_vars PROVE [Contract!Next]_(Contract!vars)
  OBVIOUS
<1> USE DEF IInv
<1>1. ASSUME NEW t \in Tasks, Write(t) PROVE Contract!Change
  <2>1. View(custom_rules', dns_rewrites') \in ViewSet
    BY <1>1, ViewTyped DEF Write
  <2>2. /\ commits' = Append(commits, View(custom_rules', dns_rewrites'))
        /\ UNCHANGED <<rules, rewrites, new_rules>>
    BY <1>1 DEF Write, Commit, engine
  <2> QED  BY <2>1, <2>2 DEF Contract!Change
<1>2. ASSUME NEW t \in Tasks, Begin(t) \/ StartReload(t) PROVE UNCHANGED Contract!vars
  BY <1>2 DEF Begin, StartReload, Proceed, engine, history, Contract!vars
<1>3. ASSUME NEW t \in Tasks, ReadRules(t) PROVE Contract!Ask(t)
  <2> DEFINE read == [val |-> EnabledRules(custom_rules), at |-> Now]
  <2>1. /\ new_rules' = [new_rules EXCEPT ![t] = read] /\ pc[t] = "reload"
        /\ UNCHANGED <<rules, rewrites, commits>>
    BY <1>3 DEF ReadRules, engine, history
  <2>2. read \in RuleCopies
    BY ViewTyped DEF TypeOK, RuleCopies, RecordsNow
  <2>3. since' = [since EXCEPT ![t] = Now] /\ since[t] = 0
    BY <2>1, <2>2, SinceKept DEF TypeOK, HoldsCommitted
  <2> QED  BY <2>1, <2>3 DEF Contract!Ask, Contract!Now, Now, since
<1>4. ASSUME NEW t \in Tasks, ReadRewrites(t) PROVE UNCHANGED Contract!vars
  BY <1>4 DEF ReadRewrites, engine, history, Contract!vars
<1>5. ASSUME NEW t \in Tasks, InstallRules(t) PROVE Contract!ShowRules(t)
  <2>1. /\ rules' = new_rules[t] /\ pc[t] = "install"
        /\ UNCHANGED <<rewrites, new_rules, commits>>
    BY <1>5 DEF InstallRules
  <2>2. /\ since[t] = new_rules[t].at /\ new_rules[t].at \in 1..Now /\ Now \in Nat
        /\ new_rules[t].val = commits[new_rules[t].at].rules
    BY <2>1 DEF HoldsCommitted, RecordsNow, since
  <2>3. since[t] # 0 /\ new_rules[t].at \in since[t]..Now
    BY <2>2
  <2> QED  BY <2>1, <2>2, <2>3 DEF Contract!ShowRules, Contract!Now, Now, since
<1>6. ASSUME NEW t \in Tasks, InstallRewrites(t) PROVE Contract!ShowRewrites(t)
  <2>1. /\ rewrites' = new_rewrites[t] /\ pc[t] = "install_rewrites"
        /\ new_rules' = [new_rules EXCEPT ![t] = NoRules]
        /\ UNCHANGED <<rules, commits>>
    BY <1>6 DEF InstallRewrites
  <2>2. since' = [since EXCEPT ![t] = 0]
    BY <2>1, NoCopiesTyped, SinceKept DEF TypeOK, NoRules
  <2>3. /\ since[t] = new_rules[t].at /\ new_rules[t].at \in 1..Now /\ Now \in Nat
        /\ new_rewrites[t].at \in 1..Now /\ new_rules[t].at <= new_rewrites[t].at
        /\ new_rewrites[t].val = commits[new_rewrites[t].at].rewrites
    BY <2>1 DEF HoldsCommitted, RecordsNow, ReloadsOwnWrite, since
  <2>4. since[t] # 0 /\ new_rewrites[t].at \in since[t]..Now
    BY <2>3
  <2> QED  BY <2>1, <2>2, <2>3, <2>4 DEF Contract!ShowRewrites, Contract!Now, Now, since
<1>7. ASSUME NEW t \in Tasks, Reject(t) \/ Abandon(t) PROVE Contract!GiveUp(t)
  <2>1. /\ new_rules' = [new_rules EXCEPT ![t] = NoRules]
        /\ UNCHANGED <<rules, rewrites, commits>>
    BY <1>7 DEF Reject, Abandon, Leave, engine
  <2>2. since' = [since EXCEPT ![t] = 0]
    BY <2>1, NoCopiesTyped, SinceKept DEF TypeOK, NoRules
  <2> QED  BY <2>1, <2>2 DEF Contract!GiveUp, since
<1>8. CASE Restart
  <2>1. /\ rules'.val = commits[Now].rules /\ rewrites'.val = commits[Now].rewrites
        /\ UNCHANGED commits
    BY <1>8 DEF Restart, RecordsNow, View
  <2>2. since' = [t \in Tasks |-> 0]
    BY <1>8 DEF Restart, since, NoRules
  <2> QED  BY <2>1, <2>2 DEF Contract!Next, Contract!Rebuild, Contract!Now, Now, since
<1>9. CASE UNCHANGED vars
  BY <1>9 DEF vars, engine, history, Contract!vars
<1> QED
  BY <1>1, <1>2, <1>3, <1>4, <1>5, <1>6, <1>7, <1>8, <1>9 DEF Next, Contract!Next

(* Every behaviour of the engine is one its contract allows. *)
THEOREM EngineImplementsContract == Spec => ImplementsContract
<1>1. Spec => Contract!Init
  BY InitContract DEF Spec
<1>2. IInv /\ [Next]_vars => [Contract!Next]_(Contract!vars)
  BY StepContract
<1> QED  BY <1>1, <1>2, Invariance, PTL DEF Spec, ImplementsContract, Contract!Spec
-----------------------------------------------------------------------------
(* The handlers of rules and rewrites.                                        *)

(* A request that waits to write has a complete row to write. *)
PatchReady == /\ patch \in [Tasks -> RewriteRow \union {NoPatch}]
              /\ \A t \in Tasks : pc[t] = "handling" => patch[t] \in RewriteRow

(* Tables in terms of rows. *)
LEMMA RuleTable ==
    ASSUME NEW R
    PROVE  R \in RuleTables <=> /\ R \subseteq RuleRow
                                /\ \A r, s \in R : r.id = s.id => r = s
  BY DEF RuleTables, IsKeyed

LEMMA RewriteTable ==
    ASSUME NEW W
    PROVE  W \in RewriteTables <=> /\ W \subseteq RewriteRow
                                   /\ \A r, s \in W : r.id = s.id => r = s
                                   /\ \A r, s \in W : r.domain = s.domain => r = s
  BY DEF RewriteTables, IsKeyed

(* A handler that writes valid tables is a writer the engine expects. *)
LEMMA CommitWrites ==
    ASSUME NEW t \in Tasks, NEW R \in RuleTables, NEW W \in RewriteTables,
           pc[t] \in {"idle", "handling"}, Commit(t, R, W, "reload")
    PROVE  Write(t)
  BY DEF Write, Commit

(* bulk_action keeps a table of rules one, whatever it does to a row, as long *)
(* as it keeps the row's id.                                                  *)
LEMMA BulkTable ==
    ASSUME NEW R \in RuleTables, NEW hit \in SUBSET R, NEW E,
           E \subseteq RuleRow,
           \A e \in E : \E r \in hit : e.id = r.id,
           \A e, f \in E : e.id = f.id => e = f
    PROVE  (R \ hit) \union E \in RuleTables
<1> DEFINE S == (R \ hit) \union E
<1>1. R \subseteq RuleRow /\ \A r, s \in R : r.id = s.id => r = s
  BY RuleTable
<1>2. S \subseteq RuleRow
  BY <1>1
<1>3. ASSUME NEW e \in E, NEW r \in R \ hit PROVE e.id # r.id
  <2>1. PICK h \in hit : e.id = h.id
    OBVIOUS
  <2> QED  BY <1>1, <2>1
<1>4. \A r, s \in S : r.id = s.id => r = s
  BY <1>1, <1>3
<1> QED  BY <1>2, <1>4, RuleTable

LEMMA InitImplements == AdminInit => Init /\ PatchReady
  BY DEF AdminInit, Init, PatchReady

(* A handler that commits and reloads at once: the tables are all there is to *)
(* check.                                                                     *)
LEMMA OneStepHandler ==
    ASSUME PatchReady, TypeOK, NEW t \in Tasks, NEW R \in RuleTables, NEW W \in RewriteTables,
           pc[t] = "idle", CommitAndReload(t, R, W)
    PROVE  Next /\ PatchReady'
<1>1. Write(t)
  BY CommitWrites DEF CommitAndReload
<1>2. pc' = [pc EXCEPT ![t] = "reload"] /\ patch' = patch
  BY DEF CommitAndReload, Commit, Goto
<1> QED  BY <1>1, <1>2 DEF Next, PatchReady, TypeOK

LEMMA BulkStep ==
    ASSUME PatchReady, TypeOK, NEW t \in Tasks, NEW chosen \in SUBSET RuleIds,
           NEW action \in BulkActions, BulkAction(t, chosen, action)
    PROVE  Next /\ PatchReady'
<1> DEFINE hit == {r \in custom_rules : r.id \in chosen /\ r.created_by = Admin}
           E == Edited(hit, action)
<1>1. /\ custom_rules \in RuleTables /\ dns_rewrites \in RewriteTables
      /\ custom_rules \subseteq RuleRow
      /\ \A r, s \in custom_rules : r.id = s.id => r = s
  BY RuleTable DEF TypeOK
<1>2. ASSUME NEW b \in BOOLEAN, E = {[r EXCEPT !.is_enabled = b] : r \in hit}
      PROVE  (custom_rules \ hit) \union E \in RuleTables
  <2>1. \A e \in E : \E r \in hit : e = [r EXCEPT !.is_enabled = b]
    BY <1>2
  <2>2. \A r \in hit : /\ [r EXCEPT !.is_enabled = b] \in RuleRow
                       /\ [r EXCEPT !.is_enabled = b].id = r.id
    BY <1>1 DEF RuleRow
  <2>3. E \subseteq RuleRow /\ \A e \in E : \E r \in hit : e.id = r.id
    BY <2>1, <2>2
  <2>4. ASSUME NEW e \in E, NEW f \in E, e.id = f.id PROVE e = f
    <3>1. PICK r \in hit : e = [r EXCEPT !.is_enabled = b]
      BY <2>1
    <3>2. PICK s \in hit : f = [s EXCEPT !.is_enabled = b]
      BY <2>1
    <3>3. r.id = s.id
      BY <2>2, <2>4, <3>1, <3>2
    <3> QED  BY <1>1, <3>1, <3>2, <3>3
  <2> HIDE DEF E
  <2> QED  BY <1>1, <2>3, <2>4, BulkTable
<1>3. CASE action = "delete"
  <2>1. E = {}
    BY <1>3 DEF Edited
  <2>2. (custom_rules \ hit) \union E \in RuleTables
    BY <1>1, <2>1, BulkTable
  <2> QED  BY <1>1, <2>2, OneStepHandler DEF BulkAction
<1>4. CASE action = "enable" \/ action = "disable"
  <2>1. E = {[r EXCEPT !.is_enabled = (action = "enable")] : r \in hit}
    BY <1>4 DEF Edited
  <2>2. (custom_rules \ hit) \union E \in RuleTables
    BY <1>2, <2>1
  <2> QED  BY <1>1, <2>2, OneStepHandler DEF BulkAction
<1> QED  BY <1>3, <1>4 DEF BulkActions

LEMMA RuleStep ==
    ASSUME PatchReady, TypeOK, Admin \in Owners, NEW t \in Tasks, NEW i \in RuleIds,
           CreateRule(t, i) \/ DeleteRule(t, i)
    PROVE  Next /\ PatchReady'
<1>1. /\ custom_rules \in RuleTables /\ dns_rewrites \in RewriteTables
      /\ custom_rules \subseteq RuleRow
      /\ \A r, s \in custom_rules : r.id = s.id => r = s
  BY RuleTable DEF TypeOK
<1>2. CASE CreateRule(t, i)
  <2> DEFINE row == [id |-> i, created_by |-> Admin, is_enabled |-> TRUE]
  <2>1. /\ pc[t] = "idle" /\ CommitAndReload(t, custom_rules \union {row}, dns_rewrites)
        /\ \A r \in custom_rules : r.id # i
    BY <1>2 DEF CreateRule, HasId
  <2>2. row \in RuleRow /\ row.id = i
    BY DEF RuleRow
  <2>3. custom_rules \union {row} \in RuleTables
    <3> HIDE DEF row
    <3> QED  BY <1>1, <2>1, <2>2, RuleTable
  <2> QED  BY <1>1, <2>1, <2>3, OneStepHandler
<1>3. CASE DeleteRule(t, i)
  <2>1. {r \in custom_rules : r.id # i} \in RuleTables
    BY <1>1, RuleTable
  <2> QED  BY <1>1, <1>3, <2>1, OneStepHandler DEF DeleteRule
<1> QED  BY <1>2, <1>3

LEMMA RewriteStep ==
    ASSUME PatchReady, TypeOK, NEW t \in Tasks, NEW i \in RewriteIds,
           \/ \E d \in Domains, a \in Answers : CreateRewrite(t, i, d, a)
           \/ DeleteRewrite(t, i)
    PROVE  Next /\ PatchReady'
<1>1. /\ custom_rules \in RuleTables /\ dns_rewrites \in RewriteTables
      /\ dns_rewrites \subseteq RewriteRow
      /\ \A r, s \in dns_rewrites : r.id = s.id => r = s
      /\ \A r, s \in dns_rewrites : r.domain = s.domain => r = s
  BY RewriteTable DEF TypeOK
<1>2. ASSUME NEW d \in Domains, NEW a \in Answers, CreateRewrite(t, i, d, a)
      PROVE  Next /\ PatchReady'
  <2> DEFINE row == [id |-> i, domain |-> d, answer |-> a]
  <2>1. /\ pc[t] = "idle" /\ CommitAndReload(t, custom_rules, dns_rewrites \union {row})
        /\ \A r \in dns_rewrites : r.id # i /\ r.domain # d
    BY <1>2 DEF CreateRewrite, HasId
  <2>2. row \in RewriteRow /\ row.id = i /\ row.domain = d
    BY DEF RewriteRow
  <2>3. dns_rewrites \union {row} \in RewriteTables
    <3> HIDE DEF row
    <3> QED  BY <1>1, <2>1, <2>2, RewriteTable
  <2> QED  BY <1>1, <2>1, <2>3, OneStepHandler
<1>3. CASE DeleteRewrite(t, i)
  <2>1. {r \in dns_rewrites : r.id # i} \in RewriteTables
    BY <1>1, RewriteTable
  <2> QED  BY <1>1, <1>3, <2>1, OneStepHandler DEF DeleteRewrite
<1> QED  BY <1>2, <1>3

(* The PATCH reads a row of the table, so what it is to write is a row; the   *)
(* unique index is what keeps the domains distinct when it does write.        *)
LEMMA PatchStep ==
    ASSUME PatchReady, TypeOK, NEW t \in Tasks,
           \/ \E i \in RewriteIds, d \in Domains \union {Keep}, a \in Answers \union {Keep} :
                  FetchRewrite(t, i, d, a)
           \/ UpdateRewrite(t)
           \/ RefuseUpdate(t)
    PROVE  Next /\ PatchReady'
<1>1. /\ custom_rules \in RuleTables /\ dns_rewrites \in RewriteTables
      /\ dns_rewrites \subseteq RewriteRow
      /\ \A r, s \in dns_rewrites : r.id = s.id => r = s
      /\ \A r, s \in dns_rewrites : r.domain = s.domain => r = s
  BY RewriteTable DEF TypeOK
<1>2. ASSUME NEW i \in RewriteIds, NEW d \in Domains \union {Keep},
             NEW a \in Answers \union {Keep}, FetchRewrite(t, i, d, a)
      PROVE  Next /\ PatchReady'
  <2> DEFINE old == RowWithId(dns_rewrites, i)
             row == [id |-> i, domain |-> IF d = Keep THEN old.domain ELSE d,
                               answer |-> IF a = Keep THEN old.answer ELSE a]
  <2>1. Begin(t) /\ patch' = [patch EXCEPT ![t] = row] /\ HasId(dns_rewrites, i)
    BY <1>2 DEF FetchRewrite
  <2>2. old \in dns_rewrites
    BY <2>1 DEF RowWithId, HasId
  <2>3. row \in RewriteRow
    BY <1>1, <2>2 DEF RewriteRow
  <2>4. pc' = [pc EXCEPT ![t] = "handling"]
    BY <2>1 DEF Begin, Proceed, Goto
  <2>5. PatchReady'
    <3> HIDE DEF row
    <3> QED  BY <2>1, <2>3, <2>4 DEF PatchReady, TypeOK
  <2> QED  BY <2>1, <2>5 DEF Next
<1>3. CASE UpdateRewrite(t)
  <2> DEFINE row == patch[t]
             W == {IF r.id = row.id THEN row ELSE r : r \in dns_rewrites}
  <2>1. /\ pc[t] = "handling" /\ Commit(t, custom_rules, W, "reload")
        /\ patch' = [patch EXCEPT ![t] = NoPatch]
        /\ ~(HasId(dns_rewrites, row.id) /\ Clashes(dns_rewrites, row))
    BY <1>3 DEF UpdateRewrite
  <2>2. row \in RewriteRow
    BY <2>1 DEF PatchReady
  <2>3. \A e \in W : \/ e = row /\ HasId(dns_rewrites, row.id)
                     \/ e \in dns_rewrites /\ e.id # row.id
    BY DEF HasId
  <2>4. W \subseteq RewriteRow
    BY <1>1, <2>2, <2>3
  <2>5. /\ \A r, s \in W : r.id = s.id => r = s
        /\ \A r, s \in W : r.domain = s.domain => r = s
    <3> HIDE DEF W, row
    <3> QED  BY <1>1, <2>1, <2>3 DEF Clashes
  <2>6. Write(t)
    <3> HIDE DEF W
    <3>1. W \in RewriteTables
      BY <2>4, <2>5, RewriteTable
    <3> QED  BY <1>1, <2>1, <3>1, CommitWrites
  <2>7. pc' = [pc EXCEPT ![t] = "reload"]
    BY <2>1 DEF Commit, Goto
  <2>8. PatchReady'
    BY <2>1, <2>7 DEF PatchReady, TypeOK
  <2> QED  BY <2>6, <2>8 DEF Next
<1>4. CASE RefuseUpdate(t)
  <2>1. Reject(t) /\ patch' = [patch EXCEPT ![t] = NoPatch]
    BY <1>4 DEF RefuseUpdate
  <2>2. pc' = [pc EXCEPT ![t] = "idle"]
    BY <2>1 DEF Reject, Leave, Goto
  <2>3. PatchReady'
    BY <2>1, <2>2 DEF PatchReady, TypeOK
  <2> QED  BY <2>1, <2>3 DEF Next
<1> QED  BY <1>2, <1>3, <1>4

LEMMA EngineStep ==
    ASSUME PatchReady, TypeOK,
           \/ \E t \in Tasks : ReloadStep(t) \/ EndEarly(t)
           \/ RestartServer
    PROVE  Next /\ PatchReady'
<1>1. ASSUME NEW t \in Tasks, ReloadStep(t) PROVE Next /\ PatchReady'
  <2>1. Reload(t) /\ patch' = patch
    BY <1>1 DEF ReloadStep
  <2>2. \A u \in Tasks : pc'[u] = "handling" => pc[u] = "handling"
    BY <2>1 DEF Reload, ReadRules, ReadRewrites, InstallRules, InstallRewrites, Goto, TypeOK
  <2>3. Next
    BY <2>1 DEF Next, Reload
  <2> QED  BY <2>1, <2>2, <2>3 DEF PatchReady
<1>2. ASSUME NEW t \in Tasks, EndEarly(t) PROVE Next /\ PatchReady'
  <2>1. Abandon(t) /\ patch' = [patch EXCEPT ![t] = NoPatch]
    BY <1>2 DEF EndEarly
  <2>2. pc' = [pc EXCEPT ![t] = "idle"]
    BY <2>1 DEF Abandon, Leave, Goto
  <2>3. PatchReady'
    BY <2>1, <2>2 DEF PatchReady, TypeOK
  <2> QED  BY <2>1, <2>3 DEF Next
<1>3. CASE RestartServer
  BY <1>3 DEF RestartServer, Restart, Next, PatchReady
<1> QED  BY <1>1, <1>2, <1>3

(* Every step of a handler is a step the engine expects. *)
LEMMA AdminStep == TypeOK /\ PatchReady /\ [AdminNext]_allVars => [Next]_vars /\ PatchReady'
<1> SUFFICES ASSUME TypeOK, PatchReady, [AdminNext]_allVars PROVE [Next]_vars /\ PatchReady'
  OBVIOUS
<1>1. Admin \in Owners
  BY AdminAssumption
<1>2. ASSUME NEW t \in Tasks, NEW i \in RuleIds, CreateRule(t, i) \/ DeleteRule(t, i)
      PROVE  Next /\ PatchReady'
  BY <1>1, <1>2, RuleStep
<1>3. ASSUME NEW t \in Tasks, NEW chosen \in SUBSET RuleIds, NEW action \in BulkActions,
             BulkAction(t, chosen, action)
      PROVE  Next /\ PatchReady'
  BY <1>3, BulkStep
<1>4. ASSUME NEW t \in Tasks, NEW i \in RewriteIds,
             \/ \E d \in Domains, a \in Answers : CreateRewrite(t, i, d, a)
             \/ DeleteRewrite(t, i)
      PROVE  Next /\ PatchReady'
  BY <1>4, RewriteStep
<1>5. ASSUME NEW t \in Tasks,
             \/ \E i \in RewriteIds, d \in Domains \union {Keep}, a \in Answers \union {Keep} :
                    FetchRewrite(t, i, d, a)
             \/ UpdateRewrite(t)
             \/ RefuseUpdate(t)
      PROVE  Next /\ PatchReady'
  BY <1>5, PatchStep
<1>6. ASSUME \/ \E t \in Tasks : ReloadStep(t) \/ EndEarly(t)
             \/ RestartServer
      PROVE  Next /\ PatchReady'
  BY <1>6, EngineStep
<1>7. CASE UNCHANGED allVars
  BY <1>7 DEF allVars, vars, PatchReady
<1>8. CASE AdminNext
  BY <1>2, <1>3, <1>4, <1>5, <1>6, <1>8 DEF AdminNext
<1> QED  BY <1>7, <1>8

LEMMA AdminInvariance == AdminSpec => [](IInv /\ PatchReady)
<1>1. AdminInit => IInv /\ PatchReady
  BY InitImplements, InitIInv
<1>2. IInv /\ PatchReady /\ [AdminNext]_allVars => (IInv /\ PatchReady)'
  <2>1. IInv => TypeOK
    BY DEF IInv
  <2> QED  BY <2>1, AdminStep, NextIInv
<1> QED  BY <1>1, <1>2, PTL DEF AdminSpec

(* Whatever the requests, the handlers use the engine as it expects; so they  *)
(* inherit its contract and its invariants.                                   *)
THEOREM AdminImplementsEngine == AdminSpec => ImplementsEngine
<1>1. AdminInit => Init
  BY InitImplements
<1>2. IInv /\ PatchReady /\ [AdminNext]_allVars => [Next]_vars
  <2>1. IInv => TypeOK
    BY DEF IInv
  <2> QED  BY <2>1, AdminStep
<1> QED  BY <1>1, <1>2, AdminInvariance, PTL DEF AdminSpec, ImplementsEngine, Spec

(* With no request under way the engine is what the handlers have written, up *)
(* to lost and overtaken reloads.                                             *)
THEOREM AdminFreshAtRest == AdminSpec => []RestsFresh
  BY AdminImplementsEngine, FreshAtRest, PTL DEF ImplementsEngine

(* The types, with the row that a PATCH carries. *)
THEOREM AdminTyping == AdminSpec => []AdminTypeOK
<1>1. IInv /\ PatchReady => AdminTypeOK
  BY DEF IInv, PatchReady, AdminTypeOK
<1> QED  BY <1>1, AdminInvariance, PTL

(* An UPDATE never brings back a rewrite that was deleted while it waited. *)
THEOREM UpdatesNeverInsert == AdminSpec => NoResurrection
<1> DEFINE Ids(W) == {r.id : r \in W}
           Kept == \A t \in Tasks : pc[t] = "handling" =>
                      (pc'[t] # "handling" => Ids(dns_rewrites') \subseteq Ids(dns_rewrites))
<1>1. ASSUME TypeOK, NEW u \in Tasks, NEW i \in RewriteIds, NEW d \in Domains, NEW a \in Answers,
             CreateRewrite(u, i, d, a)
      PROVE  Kept
  <2>1. pc[u] = "idle" /\ pc' = [pc EXCEPT ![u] = "reload"]
    BY <1>1 DEF CreateRewrite, CommitAndReload, Commit, Goto
  <2> QED  BY <1>1, <2>1 DEF TypeOK
<1>2. ASSUME NEW u \in Tasks, UpdateRewrite(u) PROVE Ids(dns_rewrites') \subseteq Ids(dns_rewrites)
  <2>1. dns_rewrites' = {IF r.id = patch[u].id THEN patch[u] ELSE r : r \in dns_rewrites}
    BY <1>2 DEF UpdateRewrite, Commit
  <2> QED  BY <2>1
<1>3. ASSUME NEW u \in Tasks, NEW i \in RewriteIds, DeleteRewrite(u, i)
      PROVE  Ids(dns_rewrites') \subseteq Ids(dns_rewrites)
  BY <1>3 DEF DeleteRewrite, CommitAndReload, Commit
<1>4. ASSUME NEW u \in Tasks,
             \/ \E i \in RuleIds : CreateRule(u, i) \/ DeleteRule(u, i)
             \/ \E chosen \in SUBSET RuleIds, action \in BulkActions :
                  BulkAction(u, chosen, action)
      PROVE  dns_rewrites' = dns_rewrites
  BY <1>4 DEF CreateRule, DeleteRule, BulkAction, CommitAndReload, Commit
<1>5. ASSUME NEW u \in Tasks,
             \/ \E i \in RewriteIds, d \in Domains \union {Keep}, a \in Answers \union {Keep} :
                  FetchRewrite(u, i, d, a)
             \/ RefuseUpdate(u) \/ ReloadStep(u) \/ EndEarly(u)
      PROVE  dns_rewrites' = dns_rewrites
  BY <1>5 DEF FetchRewrite, Begin, Proceed, RefuseUpdate, Reject, EndEarly, Abandon, Leave, tables,
              ReloadStep, Reload, ReadRules, ReadRewrites, InstallRules, InstallRewrites
<1>6. RestartServer => dns_rewrites' = dns_rewrites
  BY DEF RestartServer, Restart, tables
<1>7. UNCHANGED allVars => dns_rewrites' = dns_rewrites
  BY DEF allVars, vars, tables
<1>8. TypeOK /\ [AdminNext]_allVars => Kept
  <2> SUFFICES ASSUME TypeOK, [AdminNext]_allVars PROVE Kept
    OBVIOUS
  <2> QED  BY <1>1, <1>2, <1>3, <1>4, <1>5, <1>6, <1>7 DEF AdminNext
<1>9. IInv => TypeOK
  BY DEF IInv
<1>10. TypeOK /\ [AdminNext]_allVars => [Kept]_allVars
  BY <1>8
<1> QED  BY <1>9, <1>10, AdminInvariance, PTL DEF AdminSpec, NoResurrection
-----------------------------------------------------------------------------
(* Filter lists.                                                              *)

(* What a task that is working on a list carries, and where it then is.       *)
Undertaken == [doing : SyncSteps \union {"patch", "unlist"}, list : Lists,
               rules : SUBSET RuleIds, todo : SUBSET RuleIds, failed : SUBSET RuleIds,
               has_url : BOOLEAN]
JobsTyped == /\ job \in [Tasks -> {NoJob} \union Undertaken]
             /\ overlapped \in BOOLEAN
             /\ \A t \in Tasks : job[t].doing # "nothing" => job[t].rules \subseteq Offers[job[t].list]
Counts == {Cardinality(S) : S \in SUBSET RuleIds} \union {0}
ListsTyped == filter_lists \subseteq
                [id : Lists, has_url : BOOLEAN, rule_count : Counts, synced : BOOLEAN]

(* A rule that a list offers is that list's, and a list has no other.         *)
KeptApart == \A r \in custom_rules, l \in Lists : r.id \in Offers[l] <=> r.created_by = l

(* Unless two tasks have been working on one list at once: the one that syncs *)
(* a list finds it there, and the one that deletes it has left no rules.      *)
OneEach == \A s, t \in Tasks, l \in Lists : Working(job[s], l) /\ Working(job[t], l) => s = t
SyncedListed == \A t \in Tasks : job[t].doing \in SyncSteps => Listed(job[t].list)
UnlistedEmpty == \A t \in Tasks : job[t].doing = "unlist" =>
                   \A r \in custom_rules : r.created_by # job[t].list
Undisturbed == OneEach /\ SyncedListed /\ UnlistedEmpty /\ NoOrphans

LInv == JobsTyped /\ ListsTyped /\ KeptApart /\ (~overlapped => Undisturbed)
-----------------------------------------------------------------------------
Has(lists, l) == \E r \in lists : r.id = l

LEMMA JobKinds ==
  ASSUME JobsTyped, NEW t \in Tasks, job[t].doing # "nothing"
  PROVE  /\ job[t] \in Undertaken /\ job[t].list \in Lists
         /\ job[t].rules \subseteq Offers[job[t].list]
BY DEF JobsTyped, NoJob, Undertaken

LEMMA NewJob ==
  ASSUME NEW step \in SyncSteps \union {"patch", "unlist"}, NEW l \in Lists
  PROVE  /\ Job(step, l) \in Undertaken /\ Job(step, l).doing = step
         /\ Job(step, l).list = l /\ Job(step, l).rules = {}
BY DEF Job, Undertaken

(* A task takes up a job: either nobody else works on that list, or the       *)
(* overlap is on record.                                                      *)
LEMMA TakesUp ==
  ASSUME JobsTyped, NEW t \in Tasks, NEW j \in {NoJob} \union Undertaken, SetJob(t, j),
         j.doing # "nothing" => j.rules \subseteq Offers[j.list]
  PROVE  /\ JobsTyped' /\ job'[t] = j /\ \A s \in Tasks \ {t} : job'[s] = job[s]
         /\ ~overlapped' => /\ ~overlapped
                            /\ OneEach => OneEach'
                            /\ \A s \in Tasks \ {t}, l \in Lists :
                                 ~(Working(job[s], l) /\ Working(j, l))
<1>1. job'[t] = j /\ \A s \in Tasks \ {t} : job'[s] = job[s]
  BY DEF JobsTyped, SetJob
<1>2. JobsTyped'
  <2>1. job' \in [Tasks -> {NoJob} \union Undertaken] /\ overlapped' \in BOOLEAN
    BY DEF JobsTyped, SetJob
  <2> QED BY <1>1, <2>1 DEF JobsTyped
<1>3. ASSUME ~overlapped'
      PROVE  /\ ~overlapped
             /\ \A s \in Tasks \ {t}, l \in Lists : ~(Working(job[s], l) /\ Working(j, l))
  BY <1>3 DEF SetJob
<1>4. ASSUME ~overlapped', OneEach PROVE OneEach'
  <2>1. \A s \in Tasks, l \in Lists : Working(job[s], l)' <=> Working(job'[s], l) BY DEF Working
  <2> QED BY <1>1, <1>3, <1>4 DEF OneEach, Working
<1> QED BY <1>1, <1>2, <1>3, <1>4

(* A job that is not a deletion, begun, continued or ended without touching   *)
(* the rules.                                                                 *)
LEMMA QuietJob ==
  ASSUME LInv, NEW t \in Tasks, NEW j \in {NoJob} \union Undertaken, SetJob(t, j),
         j.doing # "nothing" => j.rules \subseteq Offers[j.list], j.doing # "unlist",
         UNCHANGED custom_rules, ListsTyped',
         \A l \in Lists : Has(filter_lists, l) => Has(filter_lists', l),
         ~overlapped /\ j.doing \in SyncSteps => Has(filter_lists', j.list)
  PROVE  LInv'
<1>0. JobsTyped BY DEF LInv
<1>1. /\ JobsTyped' /\ job'[t] = j /\ \A s \in Tasks \ {t} : job'[s] = job[s]
      /\ ~overlapped' => ~overlapped /\ (OneEach => OneEach')
  BY <1>0, TakesUp
<1>2. KeptApart' BY DEF LInv, KeptApart
<1>3. ASSUME ~overlapped' PROVE Undisturbed'
  <2>1. ~overlapped /\ Undisturbed BY <1>1, <1>3 DEF LInv
  <2>2. OneEach' BY <1>1, <1>3, <2>1 DEF Undisturbed
  <2>3. ASSUME NEW s \in Tasks, job'[s].doing \in SyncSteps PROVE Has(filter_lists', job'[s].list)
    <3>1. CASE s = t BY <1>1, <2>1, <2>3, <3>1
    <3>2. CASE s # t
      <4>1. job'[s] = job[s] /\ job[s].doing \in SyncSteps BY <1>1, <2>3, <3>2
      <4>2. job[s].list \in Lists /\ Has(filter_lists, job[s].list)
        BY <1>0, <2>1, <4>1, JobKinds DEF Undisturbed, SyncedListed, SyncSteps, Listed, Has
      <4> QED BY <4>1, <4>2
    <3> QED BY <3>1, <3>2
  <2>4. SyncedListed' BY <2>3 DEF SyncedListed, Listed, Has
  <2>5. UnlistedEmpty' BY <1>1, <2>1 DEF Undisturbed, UnlistedEmpty
  <2>6. NoOrphans' BY <2>1 DEF Undisturbed, NoOrphans, Listed, Has
  <2> QED BY <2>2, <2>4, <2>5, <2>6 DEF Undisturbed
<1> QED BY <1>1, <1>2, <1>3 DEF LInv

LEMMA NoJobIsQuiet == NoJob.doing = "nothing" /\ NoJob.doing \notin SyncSteps
BY DEF NoJob, SyncSteps

(* Rows changed in place stay rows of the same lists.                         *)
LEMMA RowsKept ==
  ASSUME ListsTyped, NEW l \in Lists, NEW h \in BOOLEAN, NEW R \in SUBSET RuleIds
  PROVE  LET P == {IF r.id = l THEN [r EXCEPT !.has_url = h] ELSE r : r \in filter_lists}
             S == {IF r.id = l THEN Stamped(r, R) ELSE r : r \in filter_lists}
         IN  /\ filter_lists' = P \/ filter_lists' = S => ListsTyped'
             /\ filter_lists' = P \/ filter_lists' = S =>
                  \A m \in Lists : Has(filter_lists', m) <=> Has(filter_lists, m)
<1> DEFINE P == {IF r.id = l THEN [r EXCEPT !.has_url = h] ELSE r : r \in filter_lists}
           S == {IF r.id = l THEN Stamped(r, R) ELSE r : r \in filter_lists}
           Rows == [id : Lists, has_url : BOOLEAN, rule_count : Counts, synced : BOOLEAN]
<1>1. ASSUME NEW r \in Rows
      PROVE  /\ [r EXCEPT !.has_url = h] \in Rows /\ [r EXCEPT !.has_url = h].id = r.id
             /\ Stamped(r, R) \in Rows /\ Stamped(r, R).id = r.id
  <2>1. Cardinality(R) \in Counts BY DEF Counts
  <2> QED BY <2>1 DEF Stamped
<1>2. filter_lists \subseteq Rows BY DEF ListsTyped
<1>3. P \subseteq Rows /\ S \subseteq Rows BY <1>1, <1>2
<1>4. ASSUME NEW m \in Lists
      PROVE  /\ Has(P, m) <=> Has(filter_lists, m)
             /\ Has(S, m) <=> Has(filter_lists, m)
  <2>1. ASSUME Has(filter_lists, m) PROVE Has(P, m) /\ Has(S, m)
    <3>1. PICK r \in filter_lists : r.id = m BY <2>1 DEF Has
    <3>2. /\ (IF r.id = l THEN [r EXCEPT !.has_url = h] ELSE r) \in P
          /\ (IF r.id = l THEN Stamped(r, R) ELSE r) \in S
      OBVIOUS
    <3> QED BY <1>1, <1>2, <3>1, <3>2 DEF Has
  <2>2. ASSUME Has(P, m) PROVE Has(filter_lists, m) BY <1>1, <1>2, <2>2 DEF Has
  <2>3. ASSUME Has(S, m) PROVE Has(filter_lists, m) BY <1>1, <1>2, <2>3 DEF Has
  <2> QED BY <2>1, <2>2, <2>3
<1> HIDE DEF P, S
<1>5. filter_lists' = P \/ filter_lists' = S =>
        ListsTyped' /\ \A m \in Lists : Has(filter_lists', m) <=> Has(filter_lists, m)
  BY <1>3, <1>4 DEF ListsTyped
<1> QED BY <1>5 DEF P, S

LEMMA QuietSteps ==
  ASSUME LInv, NEW t \in Tasks,
         \/ \E l \in Lists, has_url \in BOOLEAN : CreateList(t, l, has_url) \/ FetchList(t, l, has_url)
         \/ \E l \in Lists : RefreshList(t, l)
         \/ PatchList(t) \/ Fetch(t) \/ \E i \in RuleIds : InsertRule(t, i)
         \/ Stamp(t) \/ SyncFails(t) \/ ListEndsEarly(t)
  PROVE  LInv'
<1>0. JobsTyped /\ ListsTyped BY DEF LInv
<1>1. ASSUME UNCHANGED <<custom_rules, filter_lists>>, SetJob(t, NoJob) PROVE LInv'
  <2>1. ListsTyped' /\ \A l \in Lists : Has(filter_lists, l) => Has(filter_lists', l) BY <1>0, <1>1 DEF ListsTyped, Has
  <2> QED BY <1>1, <2>1, NoJobIsQuiet, QuietJob
<1>2. ASSUME NEW l \in Lists, NEW has_url \in BOOLEAN, CreateList(t, l, has_url) PROVE LInv'
  <2> DEFINE row == NewRow(l, has_url)
  <2>1. row \in [id : Lists, has_url : BOOLEAN, rule_count : Counts, synced : BOOLEAN] /\ row.id = l
    BY DEF NewRow, Counts
  <2> HIDE DEF row
  <2>2. filter_lists' = filter_lists \union {row} BY <1>2 DEF CreateList, row
  <2>3. ListsTyped' /\ Has(filter_lists', l) /\ \A m \in Lists : Has(filter_lists, m) => Has(filter_lists', m)
    BY <1>0, <2>1, <2>2 DEF ListsTyped, Has
  <2>4. CASE has_url
    <3>1. SetJob(t, Job("fetch", l)) /\ UNCHANGED custom_rules
      BY <1>2, <2>4 DEF CreateList, Begin, Proceed, tables
    <3>2. /\ Job("fetch", l) \in Undertaken /\ Job("fetch", l).doing = "fetch"
          /\ Job("fetch", l).list = l /\ Job("fetch", l).rules = {}
      BY NewJob DEF SyncSteps
    <3> QED BY <2>3, <3>1, <3>2, QuietJob
  <2>5. CASE ~has_url
    <3>1. UNCHANGED <<custom_rules, job, overlapped>>
      BY <1>2, <2>5 DEF CreateList, vars, tables, jobs
    <3>2. JobsTyped' /\ KeptApart' BY <3>1 DEF LInv, JobsTyped, KeptApart
    <3>3. ASSUME ~overlapped PROVE Undisturbed'
      <4>1. Undisturbed BY <3>3 DEF LInv
      <4>2. \A s \in Tasks : job[s].doing \in SyncSteps => job[s].list \in Lists
        BY <1>0, JobKinds DEF SyncSteps
      <4>3. SyncedListed' BY <2>3, <3>1, <4>1, <4>2 DEF Undisturbed, SyncedListed, Listed, Has
      <4>4. NoOrphans' BY <2>3, <3>1, <4>1 DEF Undisturbed, NoOrphans, Listed, Has
      <4> QED BY <3>1, <4>1, <4>3, <4>4 DEF Undisturbed, OneEach, UnlistedEmpty, Working
    <3> QED BY <2>3, <3>1, <3>2, <3>3 DEF LInv
  <2> QED BY <2>4, <2>5
<1>3. ASSUME NEW l \in Lists, RefreshList(t, l) PROVE LInv'
  <2>1. /\ SetJob(t, Job("fetch", l)) /\ UNCHANGED <<custom_rules, filter_lists>> /\ Has(filter_lists, l)
    BY <1>3 DEF RefreshList, Begin, Proceed, tables, Listed, Has
  <2>2. /\ Job("fetch", l) \in Undertaken /\ Job("fetch", l).doing = "fetch"
        /\ Job("fetch", l).list = l /\ Job("fetch", l).rules = {}
    BY NewJob DEF SyncSteps
  <2>3. ListsTyped' /\ \A m \in Lists : Has(filter_lists, m) => Has(filter_lists', m) BY <1>0, <2>1 DEF ListsTyped, Has
  <2> QED BY <2>1, <2>2, <2>3, QuietJob
<1>4. ASSUME NEW l \in Lists, NEW add_url \in BOOLEAN, FetchList(t, l, add_url) PROVE LInv'
  <2> DEFINE j == [Job("patch", l) EXCEPT !.has_url = RowOf(l).has_url \/ add_url]
  <2>1. SetJob(t, j) /\ UNCHANGED <<custom_rules, filter_lists>> /\ Has(filter_lists, l)
    BY <1>4 DEF FetchList, Begin, Proceed, tables, Listed, Has
  <2>2. Job("patch", l) \in Undertaken /\ Job("patch", l).doing = "patch" /\ Job("patch", l).rules = {}
    BY NewJob
  <2>3. (RowOf(l).has_url \/ add_url) \in BOOLEAN OBVIOUS
  <2>4. j \in Undertaken /\ j.doing = "patch" /\ j.rules = {} BY <2>2, <2>3 DEF Undertaken
  <2>5. ListsTyped' /\ \A m \in Lists : Has(filter_lists, m) => Has(filter_lists', m) BY <1>0, <2>1 DEF ListsTyped, Has
  <2> HIDE DEF j
  <2> QED BY <2>1, <2>4, <2>5, QuietJob DEF SyncSteps
<1>5. ASSUME job[t].doing \in SyncSteps, UNCHANGED <<custom_rules, filter_lists>>,
             NEW j \in Undertaken, SetJob(t, j), j.doing = "insert",
             j.list = job[t].list, j.rules \subseteq Offers[j.list]
      PROVE  LInv'
  <2>1. job[t].doing # "nothing" BY <1>5 DEF SyncSteps
  <2>2. job[t].list \in Lists BY <1>0, <2>1, JobKinds
  <2>3. ~overlapped => Has(filter_lists, job[t].list)
    BY <1>5 DEF LInv, Undisturbed, SyncedListed, Listed, Has
  <2>4. ListsTyped' /\ \A m \in Lists : Has(filter_lists, m) => Has(filter_lists', m)
    BY <1>0, <1>5 DEF ListsTyped, Has
  <2>5. ~overlapped => Has(filter_lists', j.list) BY <1>5, <2>2, <2>3, <2>4
  <2> QED BY <1>5, <2>4, <2>5, QuietJob
<1>6. CASE Fetch(t)
  <2>1. job[t].doing = "fetch" /\ UNCHANGED <<custom_rules, filter_lists>>
    BY <1>6 DEF Fetch, Doing, vars, tables
  <2>2. job[t] \in Undertaken /\ job[t].list \in Lists BY <1>0, <2>1, JobKinds
  <2>3. PICK served \in SUBSET Offers[job[t].list] :
          SetJob(t, [job[t] EXCEPT !.doing = "insert", !.rules = served, !.todo = served])
    BY <1>6 DEF Fetch
  <2> DEFINE j == [job[t] EXCEPT !.doing = "insert", !.rules = served, !.todo = served]
  <2>4. served \in SUBSET RuleIds BY <2>2, <2>3, ListAssumption
  <2>5. j \in Undertaken /\ j.doing = "insert" /\ j.list = job[t].list /\ j.rules = served
    BY <2>2, <2>4 DEF Undertaken, SyncSteps
  <2> HIDE DEF j
  <2>6. SetJob(t, j) BY <2>3 DEF j
  <2>7. j.rules \subseteq Offers[j.list] BY <2>5
  <2> QED BY <1>5, <2>1, <2>5, <2>6, <2>7 DEF SyncSteps
<1>7. ASSUME NEW i \in RuleIds, InsertRule(t, i) PROVE LInv'
  <2>1. job[t].doing = "insert" /\ UNCHANGED <<custom_rules, filter_lists>>
    BY <1>7 DEF InsertRule, Doing, vars, tables
  <2>2. job[t] \in Undertaken /\ job[t].rules \subseteq Offers[job[t].list] BY <1>0, <2>1, JobKinds
  <2>3. PICK refused \in BOOLEAN :
          SetJob(t, [job[t] EXCEPT !.todo = @ \ {i},
                                 !.failed = IF refused THEN @ \union {i} ELSE @])
    BY <1>7 DEF InsertRule
  <2> DEFINE j == [job[t] EXCEPT !.todo = @ \ {i}, !.failed = IF refused THEN @ \union {i} ELSE @]
  <2>4. j \in Undertaken /\ j.doing = "insert" /\ j.list = job[t].list /\ j.rules = job[t].rules
    BY <2>1, <2>2 DEF Undertaken, SyncSteps
  <2> HIDE DEF j
  <2>5. SetJob(t, j) BY <2>3 DEF j
  <2>6. j.rules \subseteq Offers[j.list] BY <2>2, <2>4
  <2> QED BY <1>5, <2>1, <2>4, <2>5, <2>6 DEF SyncSteps
<1>8. CASE PatchList(t)
  <2>1. job[t].doing = "patch" /\ UNCHANGED custom_rules /\ SetJob(t, NoJob)
    BY <1>8 DEF PatchList, Doing, StartReload, Proceed, tables
  <2>2. job[t] \in Undertaken BY <1>0, <2>1, JobKinds
  <2>3. ListsTyped' /\ \A m \in Lists : Has(filter_lists', m) <=> Has(filter_lists, m)
    BY <1>0, <1>8, <2>2, RowsKept DEF PatchList, Undertaken
  <2> QED BY <2>1, <2>3, NoJobIsQuiet, QuietJob
<1>9. CASE Stamp(t)
  <2>1. job[t].doing = "stamp" /\ UNCHANGED custom_rules /\ SetJob(t, NoJob)
    BY <1>9 DEF Stamp, Doing, StartReload, Proceed, tables
  <2>2. job[t] \in Undertaken BY <1>0, <2>1, JobKinds
  <2>3. job[t].list \in Lists /\ Inserted(job[t]) \in SUBSET RuleIds
    BY <2>2 DEF Undertaken, Inserted
  <2>4. ListsTyped' /\ \A m \in Lists : Has(filter_lists', m) <=> Has(filter_lists, m)
    BY <1>0, <1>9, <2>3, RowsKept DEF Stamp
  <2> QED BY <2>1, <2>4, NoJobIsQuiet, QuietJob
<1>10. CASE SyncFails(t)
  BY <1>1, <1>10 DEF SyncFails, Reject, Leave, tables
<1>11. CASE ListEndsEarly(t)
  BY <1>1, <1>11 DEF ListEndsEarly, Abandon, Leave, tables
<1> QED BY <1>2, <1>3, <1>4, <1>6, <1>7, <1>8, <1>9, <1>10, <1>11

(* Sync and delete touch the rules of their list only.                        *)
LEMMA DeleteRulesStep ==
  ASSUME LInv, NEW t \in Tasks, NEW l \in Lists, DeleteRules(t, l)
  PROVE  LInv' /\ custom_rules' = WithoutRulesOf(l)
<1>0. JobsTyped /\ ListsTyped /\ KeptApart BY DEF LInv
<1> DEFINE j == Job("unlist", l)
<1>1. j \in Undertaken /\ j.doing = "unlist" /\ j.list = l /\ j.rules = {} BY NewJob
<1>2. SetJob(t, j) /\ UNCHANGED filter_lists BY DEF DeleteRules
<1>3. custom_rules' = WithoutRulesOf(l)
  <2>1. CASE RulesOf(custom_rules, l) = {}
    BY <2>1 DEF DeleteRules, Begin, Proceed, tables, WithoutRulesOf
  <2>2. CASE RulesOf(custom_rules, l) # {} BY <2>2 DEF DeleteRules, Commit
  <2> QED BY <2>1, <2>2
<1>4. custom_rules' \subseteq custom_rules /\ \A r \in custom_rules' : r.created_by # l
  BY <1>3 DEF WithoutRulesOf, RulesOf
<1> HIDE DEF j
<1>5. /\ JobsTyped' /\ job'[t] = j /\ \A s \in Tasks \ {t} : job'[s] = job[s]
      /\ ~overlapped' => ~overlapped /\ (OneEach => OneEach')
  BY <1>0, <1>1, <1>2, TakesUp
<1>6. ListsTyped' /\ KeptApart' BY <1>0, <1>2, <1>4 DEF ListsTyped, KeptApart
<1>7. ASSUME ~overlapped' PROVE Undisturbed'
  <2>1. Undisturbed /\ OneEach' BY <1>5, <1>7 DEF LInv, Undisturbed
  <2>2. SyncedListed'
    BY <1>1, <1>2, <1>5, <2>1 DEF Undisturbed, SyncedListed, SyncSteps, Listed
  <2>3. UnlistedEmpty' BY <1>1, <1>4, <1>5, <2>1 DEF Undisturbed, UnlistedEmpty
  <2>4. NoOrphans' BY <1>2, <1>4, <2>1, <1>5, <1>7 DEF Undisturbed, NoOrphans, Listed
  <2> QED BY <2>1, <2>2, <2>3, <2>4 DEF Undisturbed
<1> QED BY <1>3, <1>5, <1>6, <1>7 DEF LInv

LEMMA DeleteListStep ==
  ASSUME LInv, NEW t \in Tasks, DeleteList(t)
  PROVE  LInv' /\ UNCHANGED custom_rules
<1>0. JobsTyped /\ ListsTyped /\ KeptApart BY DEF LInv
<1> DEFINE l == job[t].list
<1>1. job[t].doing = "unlist" /\ SetJob(t, NoJob) /\ UNCHANGED custom_rules
  BY DEF DeleteList, Doing, StartReload, Reject, Leave, Proceed, tables
<1>2. l \in Lists BY <1>0, <1>1, JobKinds
<1>3. filter_lists' = {r \in filter_lists : r.id # l} BY DEF DeleteList
<1>4. /\ JobsTyped' /\ job'[t] = NoJob /\ \A s \in Tasks \ {t} : job'[s] = job[s]
      /\ ~overlapped' => ~overlapped /\ (OneEach => OneEach')
  BY <1>0, <1>1, NoJobIsQuiet, TakesUp
<1>5. ListsTyped' /\ KeptApart' BY <1>0, <1>1, <1>3 DEF ListsTyped, KeptApart
<1>6. \A m \in Lists \ {l} : Has(filter_lists, m) => Has(filter_lists', m) BY <1>3 DEF Has
<1>7. ASSUME ~overlapped' PROVE Undisturbed'
  <2>1. Undisturbed /\ OneEach' /\ ~overlapped BY <1>4, <1>7 DEF LInv, Undisturbed
  <2>2. ASSUME NEW s \in Tasks, job'[s].doing \in SyncSteps PROVE Has(filter_lists', job'[s].list)
    <3>1. s # t /\ job'[s] = job[s] BY <1>4, <2>2, NoJobIsQuiet
    <3>2. job[s].doing \in SyncSteps /\ job[s].list \in Lists
      BY <1>0, <2>2, <3>1, JobKinds DEF SyncSteps
    <3>3. Has(filter_lists, job[s].list) BY <2>1, <3>2 DEF Undisturbed, SyncedListed, Listed, Has
    <3>4. job[s].list # l
      BY <1>1, <1>2, <2>1, <3>1, <3>2 DEF Undisturbed, OneEach, Working, SyncSteps
    <3> QED BY <1>6, <3>1, <3>2, <3>3, <3>4
  <2>3. SyncedListed' BY <2>2 DEF SyncedListed, Listed, Has
  <2>4. UnlistedEmpty' BY <1>1, <1>4, <2>1, NoJobIsQuiet DEF Undisturbed, UnlistedEmpty
  <2>5. NoOrphans'
    <3>1. \A r \in custom_rules : r.created_by # l
      BY <1>1, <2>1 DEF Undisturbed, UnlistedEmpty
    <3> QED BY <1>1, <1>6, <2>1, <3>1 DEF Undisturbed, NoOrphans, Listed, Has
  <2> QED BY <2>1, <2>3, <2>4, <2>5 DEF Undisturbed
<1> QED BY <1>1, <1>4, <1>5, <1>7 DEF LInv

LEMMA CommitSyncStep ==
  ASSUME LInv, NEW t \in Tasks, CommitSync(t)
  PROVE  /\ LInv' /\ job[t].list \in Lists /\ Inserted(job[t]) \subseteq Offers[job[t].list]
         /\ custom_rules' = Replaced(job[t].list, Inserted(job[t]))
         /\ job[t].doing = "insert" /\ job'[t].doing = "stamp" /\ job'[t].list = job[t].list
<1>0. JobsTyped /\ ListsTyped /\ KeptApart BY DEF LInv
<1> DEFINE l == job[t].list
           served == Inserted(job[t])
           j == [job[t] EXCEPT !.doing = "stamp"]
           new == RowsFor(l, served)
<1>1. /\ job[t].doing = "insert" /\ SetJob(t, j) /\ UNCHANGED filter_lists
      /\ custom_rules' = Replaced(l, served)
  BY DEF CommitSync, Doing, Commit
<1>2. /\ job[t] \in Undertaken /\ l \in Lists
      /\ job[t].rules \subseteq Offers[l] /\ served \subseteq Offers[l]
  BY <1>0, <1>1, JobKinds DEF Inserted
<1>3. j \in Undertaken /\ j.doing = "stamp" /\ j.list = l /\ j.rules = job[t].rules
  BY <1>2 DEF Undertaken, SyncSteps
<1>4. \A r \in new : r.created_by = l /\ r.id \in Offers[l] BY <1>2 DEF RowsFor
<1>5. custom_rules' = (custom_rules \ RulesOf(custom_rules, l)) \union new
  BY <1>1 DEF Replaced, WithoutRulesOf
<1> HIDE DEF j, new
<1>6. /\ JobsTyped' /\ job'[t] = j /\ \A s \in Tasks \ {t} : job'[s] = job[s]
      /\ ~overlapped' =>
           /\ ~overlapped /\ (OneEach => OneEach')
           /\ \A s \in Tasks \ {t}, m \in Lists : ~(Working(job[s], m) /\ Working(j, m))
  BY <1>0, <1>1, <1>2, <1>3, TakesUp
<1>7. KeptApart'
  <2>1. ASSUME NEW r \in new, NEW m \in Lists PROVE r.id \in Offers[m] <=> r.created_by = m
    BY <1>2, <1>4, ListAssumption
  <2> QED BY <1>0, <1>5, <2>1 DEF KeptApart
<1>8. ListsTyped' BY <1>0, <1>1 DEF ListsTyped
<1>9. ASSUME ~overlapped' PROVE Undisturbed'
  <2>1. Undisturbed /\ OneEach' BY <1>6, <1>9 DEF LInv, Undisturbed
  <2>2. Listed(l) BY <1>1, <2>1 DEF Undisturbed, SyncedListed, SyncSteps
  <2>3. SyncedListed'
    BY <1>1, <1>3, <1>6, <2>1, <2>2 DEF Undisturbed, SyncedListed, Listed
  <2>4. ASSUME NEW s \in Tasks, job'[s].doing = "unlist", NEW r \in custom_rules'
        PROVE  r.created_by # job'[s].list
    <3>1. s # t /\ job'[s] = job[s] BY <1>3, <1>6, <2>4
    <3>2. job[s].list \in Lists /\ job[s].list # l
      <4>1. job[s].doing # "nothing" /\ job[s].list \in Lists BY <1>0, <2>4, <3>1, JobKinds
      <4> QED BY <1>2, <1>3, <1>6, <1>9, <3>1, <4>1 DEF Working
    <3>3. \A q \in custom_rules : q.created_by # job[s].list
      BY <2>1, <2>4, <3>1 DEF Undisturbed, UnlistedEmpty
    <3> QED BY <1>4, <1>5, <3>1, <3>2, <3>3
  <2>5. UnlistedEmpty' BY <2>4 DEF UnlistedEmpty
  <2>6. NoOrphans'
    BY <1>1, <1>4, <1>5, <1>6, <1>9, <2>1, <2>2 DEF Undisturbed, NoOrphans, Listed
  <2> QED BY <2>1, <2>3, <2>5, <2>6 DEF Undisturbed
<1> QED BY <1>1, <1>2, <1>3, <1>6, <1>7, <1>8, <1>9 DEF LInv

LEMMA ListEngineSteps ==
  ASSUME LInv,
         \/ \E t \in Tasks : ListReload(t)
         \/ AutoRefresh \/ ListRestart \/ UNCHANGED listVars
  PROVE  LInv' /\ UNCHANGED custom_rules
<1>1. ASSUME UNCHANGED <<custom_rules, filter_lists, job, overlapped>> PROVE LInv'
  BY <1>1 DEF LInv, JobsTyped, ListsTyped, KeptApart, Undisturbed, OneEach, SyncedListed,
              UnlistedEmpty, NoOrphans, Listed, Working
<1>2. CASE ListRestart
  <2>1. UNCHANGED <<custom_rules, filter_lists, overlapped>> /\ \A t \in Tasks : job'[t] = NoJob
    BY <1>2 DEF ListRestart, Restart, tables
  <2>2. JobsTyped'
    BY <1>2, <2>1, NoJobIsQuiet DEF ListRestart, LInv, JobsTyped
  <2>3. ~overlapped => Undisturbed'
    BY <2>1, NoJobIsQuiet DEF LInv, Undisturbed, OneEach, SyncedListed, UnlistedEmpty, NoOrphans,
                              Listed, Working
  <2> QED BY <2>1, <2>2, <2>3 DEF LInv, ListsTyped, KeptApart
<1>3. ASSUME NEW t \in Tasks, ListReload(t)
      PROVE  UNCHANGED <<custom_rules, filter_lists, job, overlapped>>
  BY <1>3 DEF ListReload, Reload, ReadRules, ReadRewrites, InstallRules, InstallRewrites, tables, jobs
<1>4. CASE AutoRefresh \/ UNCHANGED listVars
  BY <1>1, <1>4 DEF AutoRefresh, listVars, vars, tables, jobs
<1> QED BY <1>1, <1>2, <1>3, <1>4

(* What each step does to the rules.                                          *)
QuietNext(t) ==
    \/ \E l \in Lists, has_url \in BOOLEAN : CreateList(t, l, has_url) \/ FetchList(t, l, has_url)
    \/ \E l \in Lists : RefreshList(t, l)
    \/ PatchList(t) \/ Fetch(t) \/ \E i \in RuleIds : InsertRule(t, i)
    \/ Stamp(t) \/ SyncFails(t) \/ ListEndsEarly(t)

LEMMA QuietRules == ASSUME NEW t \in Tasks, QuietNext(t) PROVE UNCHANGED custom_rules
BY DEF QuietNext, CreateList, FetchList, RefreshList, PatchList, Fetch, InsertRule, Stamp, SyncFails,
       ListEndsEarly, Begin, StartReload, Reject, Abandon, Leave, Proceed, vars, tables

LEMMA ListNextCases ==
  ASSUME [ListNext]_listVars
  PROVE  \/ \E t \in Tasks : QuietNext(t) \/ DeleteList(t) \/ CommitSync(t) \/ \E l \in Lists : DeleteRules(t, l)
         \/ \/ \E t \in Tasks : ListReload(t)
            \/ AutoRefresh \/ ListRestart \/ UNCHANGED listVars
BY DEF ListNext, QuietNext

LEMMA ListStep == LInv /\ [ListNext]_listVars => LInv'
<1> SUFFICES ASSUME LInv, [ListNext]_listVars PROVE LInv' OBVIOUS
<1>1. ASSUME NEW t \in Tasks, QuietNext(t) PROVE LInv' BY <1>1, QuietSteps DEF QuietNext
<1> QED BY <1>1, ListNextCases, DeleteRulesStep, DeleteListStep, CommitSyncStep, ListEngineSteps

LEMMA ListInitInv == ListInit => LInv
<1> SUFFICES ASSUME ListInit PROVE LInv OBVIOUS
<1>1. \A t \in Tasks : job[t] = NoJob BY DEF ListInit
<1>2. JobsTyped BY <1>1, NoJobIsQuiet DEF ListInit, JobsTyped
<1>3. KeptApart BY DEF ListInit, KeptApart
<1>4. Undisturbed
  BY <1>1, NoJobIsQuiet DEF ListInit, Undisturbed, OneEach, SyncedListed, UnlistedEmpty, NoOrphans,
                            Working
<1> QED BY <1>2, <1>3, <1>4 DEF ListInit, LInv, ListsTyped

THEOREM ListInvariance == ListSpec => []LInv
BY ListInitInv, ListStep, PTL DEF ListSpec

(* Whatever fails or crashes, rules outlive their list only if two tasks have *)
(* been working on it at once.                                                *)
THEOREM NoOrphanedRules == ListSpec => []NoOrphans
<1>1. LInv => NoOrphans BY DEF LInv, Undisturbed, NoOrphans
<1> QED BY <1>1, ListInvariance, PTL

(* A step changes the rules of a list only on behalf of that list.            *)
LEMMA Untouched ==
  ASSUME NEW l, NEW served, NEW o, o # l
  PROVE  /\ RulesOf(WithoutRulesOf(l), o) = RulesOf(custom_rules, o)
         /\ RulesOf(Replaced(l, served), o) = RulesOf(custom_rules, o)
BY DEF RulesOf, WithoutRulesOf, Replaced, RowsFor

THEOREM OnlyOwnRulesTouched == ListSpec => OthersUntouched
<1> DEFINE Own == \A o \in Owners : RulesOf(custom_rules', o) # RulesOf(custom_rules, o) =>
                    \E t \in Tasks : Working(job'[t], o)
<1>1. ASSUME LInv, NEW t \in Tasks, NEW l \in Lists, DeleteRules(t, l) PROVE Own
  <2>1. custom_rules' = WithoutRulesOf(l) BY <1>1, DeleteRulesStep
  <2>2. job'[t] = Job("unlist", l) BY <1>1 DEF DeleteRules, SetJob, LInv, JobsTyped
  <2>3. Working(job'[t], l) BY <2>2, NewJob DEF Working
  <2> QED BY <2>1, <2>3, Untouched
<1>2. ASSUME LInv, NEW t \in Tasks, CommitSync(t) PROVE Own
  <2>1. custom_rules' = Replaced(job[t].list, Inserted(job[t])) /\ Working(job'[t], job[t].list)
    BY <1>2, CommitSyncStep DEF Working
  <2> QED BY <2>1, Untouched
<1>3. ASSUME UNCHANGED custom_rules PROVE Own BY <1>3
<1>4. LInv /\ [ListNext]_listVars => Own
  BY <1>1, <1>2, <1>3, ListNextCases, QuietRules, DeleteListStep, ListEngineSteps
<1>5. LInv /\ [ListNext]_listVars => [Own]_listVars BY <1>4
<1> QED BY <1>5, ListInvariance, PTL DEF ListSpec, OthersUntouched

(* A list loses rules only all at once, by its deletion, or by the COMMIT of  *)
(* one sync to what its URL served, less the rules whose INSERT failed: no    *)
(* crash and no failure in mid-sync leaves it empty or half replaced.         *)
THEOREM ListsReplacedWhole == ListSpec => ReplacedWhole
<1> DEFINE Whole == \A l \in Lists :
             ~(RulesOf(custom_rules, l) \subseteq custom_rules') =>
               \E t \in Tasks :
                 /\ Working(job'[t], l)
                 /\ \/ job'[t].doing = "unlist" /\ RulesOf(custom_rules', l) = {}
                    \/ /\ job[t].doing = "insert" /\ job'[t].doing = "stamp"
                       /\ RulesOf(custom_rules', l) = RowsFor(l, job[t].rules \ job[t].failed)
<1>1. ASSUME LInv, NEW t \in Tasks, NEW l \in Lists, DeleteRules(t, l) PROVE Whole
  <2>1. custom_rules' = WithoutRulesOf(l) BY <1>1, DeleteRulesStep
  <2>2. job'[t] = Job("unlist", l) BY <1>1 DEF DeleteRules, SetJob, LInv, JobsTyped
  <2>3. Working(job'[t], l) /\ job'[t].doing = "unlist" BY <2>2, NewJob DEF Working
  <2>4. RulesOf(custom_rules', l) = {} BY <2>1 DEF WithoutRulesOf, RulesOf
  <2>5. \A m \in Lists \ {l} : RulesOf(custom_rules, m) \subseteq custom_rules'
    BY <2>1 DEF WithoutRulesOf, RulesOf
  <2> QED BY <2>3, <2>4, <2>5
<1>2. ASSUME LInv, NEW t \in Tasks, CommitSync(t) PROVE Whole
  <2> DEFINE l == job[t].list
             served == job[t].rules \ job[t].failed
  <2>1. /\ custom_rules' = Replaced(l, served) /\ Working(job'[t], l)
        /\ job[t].doing = "insert" /\ job'[t].doing = "stamp"
    BY <1>2, CommitSyncStep DEF Working, Inserted
  <2> HIDE DEF l, served
  <2>2. RulesOf(custom_rules', l) = RowsFor(l, served)
    <3>1. \A r \in RowsFor(l, served) : r.created_by = l BY DEF RowsFor
    <3>2. \A r \in WithoutRulesOf(l) : r.created_by # l BY DEF WithoutRulesOf, RulesOf
    <3> QED BY <2>1, <3>1, <3>2 DEF Replaced, RulesOf
  <2>3. \A m \in Lists : m # l => RulesOf(custom_rules, m) \subseteq custom_rules'
    BY <2>1 DEF Replaced, WithoutRulesOf, RulesOf
  <2> QED BY <2>1, <2>2, <2>3 DEF served
<1>3. ASSUME UNCHANGED custom_rules PROVE Whole BY <1>3 DEF RulesOf
<1>4. LInv /\ [ListNext]_listVars => Whole
  BY <1>1, <1>2, <1>3, ListNextCases, QuietRules, DeleteListStep, ListEngineSteps
<1>5. LInv /\ [ListNext]_listVars => [Whole]_listVars BY <1>4
<1> QED BY <1>5, ListInvariance, PTL DEF ListSpec, ReplacedWhole
-----------------------------------------------------------------------------
(* Rows that a sync writes, with those of the others, are a table.            *)
LEMMA ReplacedTable ==
  ASSUME TypeOK, KeptApart, NEW l \in Lists, NEW served \in SUBSET Offers[l]
  PROVE  Replaced(l, served) \in RuleTables /\ WithoutRulesOf(l) \in RuleTables
<1> DEFINE new == RowsFor(l, served)
<1>1. custom_rules \subseteq RuleRow /\ \A r, s \in custom_rules : r.id = s.id => r = s
  BY DEF TypeOK, RuleTables, IsKeyed
<1>2. served \subseteq RuleIds /\ l \in Owners BY ListAssumption
<1> DEFINE row(i) == [id |-> i, created_by |-> l, is_enabled |-> TRUE]
<1>3. \A i \in served : row(i) \in RuleRow /\ row(i).id = i BY <1>2 DEF RuleRow
<1>4. new = {row(i) : i \in served} BY DEF RowsFor
<1> HIDE DEF row
<1>5. \A r \in new : r \in RuleRow /\ r.id \in Offers[l] BY <1>3, <1>4
<1>6. \A r, s \in new : r.id = s.id => r = s BY <1>3, <1>4
<1> HIDE DEF new
<1>7. \A r \in WithoutRulesOf(l) : r \in custom_rules /\ r.id \notin Offers[l]
  BY DEF WithoutRulesOf, RulesOf, KeptApart
<1>8. Replaced(l, served) = WithoutRulesOf(l) \union new BY DEF Replaced, new
<1>9. Replaced(l, served) \subseteq RuleRow /\ WithoutRulesOf(l) \subseteq RuleRow
  BY <1>1, <1>5, <1>7, <1>8
<1>10. /\ \A r, s \in Replaced(l, served) : r.id = s.id => r = s
      /\ \A r, s \in WithoutRulesOf(l) : r.id = s.id => r = s
  BY <1>1, <1>5, <1>6, <1>7, <1>8
<1> QED BY <1>9, <1>10 DEF RuleTables, IsKeyed

(* Every step of a list handler or a sync is one the engine expects.          *)
LEMMA ListStepsEngine == TypeOK /\ LInv /\ [ListNext]_listVars => [Next]_vars
<1> SUFFICES ASSUME TypeOK, LInv, [ListNext]_listVars PROVE [Next]_vars OBVIOUS
<1>0. dns_rewrites \in RewriteTables BY DEF TypeOK
<1>1. ASSUME NEW t \in Tasks, NEW R \in RuleTables, pc[t] \in {"idle", "handling"},
             Commit(t, R, dns_rewrites, "handling")
      PROVE  Next
  <2>1. Write(t) BY <1>0, <1>1 DEF Write, Commit
  <2> QED BY <2>1 DEF Next
<1>2. ASSUME NEW t \in Tasks, NEW l \in Lists, DeleteRules(t, l) PROVE Next
  <2>1. WithoutRulesOf(l) \in RuleTables BY ReplacedTable DEF LInv
  <2> QED BY <1>1, <1>2, <2>1 DEF DeleteRules, Next
<1>3. ASSUME NEW t \in Tasks, CommitSync(t) PROVE Next
  <2>1. job[t].list \in Lists /\ Inserted(job[t]) \subseteq Offers[job[t].list]
    BY <1>3, CommitSyncStep
  <2>2. Replaced(job[t].list, Inserted(job[t])) \in RuleTables BY <2>1, ReplacedTable DEF LInv
  <2> QED BY <1>1, <1>3, <2>2 DEF CommitSync, Doing
<1>4. ASSUME NEW t \in Tasks, DeleteList(t) PROVE Next BY <1>4 DEF DeleteList, Next
<1>5. ASSUME NEW t \in Tasks, QuietNext(t) PROVE [Next]_vars
  BY <1>5 DEF QuietNext, CreateList, FetchList, RefreshList, PatchList, Fetch, InsertRule,
              Stamp, SyncFails, ListEndsEarly, Next
<1>6. ASSUME \/ \E t \in Tasks : ListReload(t)
             \/ AutoRefresh \/ ListRestart \/ UNCHANGED listVars
      PROVE  [Next]_vars
  BY <1>6 DEF ListReload, Reload, AutoRefresh, ListRestart, listVars, Next
<1> QED BY <1>2, <1>3, <1>4, <1>5, <1>6, ListNextCases

LEMMA ListEngineInvariance == ListSpec => [](IInv /\ LInv)
<1>1. ListInit => IInv /\ LInv BY InitIInv, ListInitInv DEF ListInit
<1>2. IInv /\ LInv /\ [ListNext]_listVars => (IInv /\ LInv)'
  <2>1. IInv => TypeOK BY DEF IInv
  <2> QED BY <2>1, ListStepsEngine, NextIInv, ListStep
<1> QED BY <1>1, <1>2, PTL DEF ListSpec

(* The list handlers and the syncs use the engine as it expects; so what is   *)
(* proved of the engine holds of them.                                        *)
THEOREM ListsUseTheEngine == ListSpec => ListsImplementEngine
<1>1. ListInit => Init BY DEF ListInit
<1>2. IInv /\ LInv /\ [ListNext]_listVars => [Next]_vars
  <2>1. IInv => TypeOK BY DEF IInv
  <2> QED BY <2>1, ListStepsEngine
<1> QED BY <1>1, <1>2, ListEngineInvariance, PTL DEF ListSpec, ListsImplementEngine, Spec

(* With no task under way the engine is what the syncs have written, up to    *)
(* lost and overtaken reloads.                                                *)
THEOREM ListsFreshAtRest == ListSpec => []RestsFresh
BY ListsUseTheEngine, FreshAtRest, PTL DEF ListsImplementEngine
=============================================================================
