--------------------------- MODULE EngineContract ---------------------------
(* What the filter engine promises to those who change the tables: it shows   *)
(* only states the database was in, and a reload shows states the database    *)
(* was in after that reload began.  It promises neither that the two tables   *)
(* it shows come from one state, nor that the last reload to end shows the    *)
(* newest state.                                                              *)
EXTENDS Naturals, Sequences

CONSTANTS Tasks, Views

VARIABLES commits,         \* the states of the database, oldest first
          shown_rules,     \* what queries are answered from
          shown_rewrites,
          since            \* per task: the newest state when its reload began, or 0

vars == <<commits, shown_rules, shown_rewrites, since>>

Now == Len(commits)

Init == \E view \in Views :
          /\ commits = <<view>>
          /\ shown_rules = view.rules
          /\ shown_rewrites = view.rewrites
          /\ since = [t \in Tasks |-> 0]

Change == /\ \E view \in Views : commits' = Append(commits, view)
          /\ UNCHANGED <<shown_rules, shown_rewrites, since>>

Ask(t) == /\ since[t] = 0
          /\ since' = [since EXCEPT ![t] = Now]
          /\ UNCHANGED <<commits, shown_rules, shown_rewrites>>

ShowRules(t) == /\ since[t] # 0
                /\ \E i \in since[t]..Now : shown_rules' = commits[i].rules
                /\ UNCHANGED <<commits, shown_rewrites, since>>

ShowRewrites(t) == /\ since[t] # 0
                   /\ \E i \in since[t]..Now : shown_rewrites' = commits[i].rewrites
                   /\ since' = [since EXCEPT ![t] = 0]
                   /\ UNCHANGED <<commits, shown_rules>>

GiveUp(t) == /\ since' = [since EXCEPT ![t] = 0]
             /\ UNCHANGED <<commits, shown_rules, shown_rewrites>>

Rebuild == /\ shown_rules' = commits[Now].rules
           /\ shown_rewrites' = commits[Now].rewrites
           /\ since' = [t \in Tasks |-> 0]
           /\ UNCHANGED commits

Next == \/ Change
        \/ \E t \in Tasks : Ask(t) \/ ShowRules(t) \/ ShowRewrites(t) \/ GiveUp(t)
        \/ Rebuild

Spec == Init /\ [][Next]_vars
=============================================================================
