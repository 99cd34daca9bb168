---------------------------- MODULE MCRuleAdmin ----------------------------
(* Model checking of RuleAdmin with few rows and two or one requests. *)
EXTENDS RuleAdmin

CONSTANTS t1, t2, r1, r2, list, w1, w2, d1, d2, a1, a2

TwoTasks == {t1, t2}
OneRule == {r1}
MCOwners == {Admin, list}
TwoRewrites == {w1, w2}
TwoDomains == {d1, d2}
OneAnswer == {a1}
=============================================================================
