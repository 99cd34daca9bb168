----------------------------- MODULE MCListSync -----------------------------
(* Model checking of ListSync: two tasks on one list that offers a rule,       *)
(* beside a rule of the administrator.                                       *)
EXTENDS ListSync, TLC

CONSTANTS t1, t2, r1, r2, admin, l1

TwoTasks == {t1, t2}
MCOwners == {admin, l1}
OneList == {l1}
TwoRules == {r1, r2}
OffersOne == [l \in OneList |-> {r1}]
None == {}
Interchangeable == Permutations({t1, t2})
=============================================================================
