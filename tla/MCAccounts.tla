---------------------------- MODULE MCAccounts ----------------------------
(* Model checking of Accounts with two requests in progress. *)
EXTENDS Accounts

CONSTANTS t1, t2, u1, u2

TwoTasks == {t1, t2}
TwoUsers == {u1, u2}
=============================================================================
