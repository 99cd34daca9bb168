----------------------------- MODULE MCSession -----------------------------
(* Two tabs of a browser. *)
EXTENDS Session

CONSTANTS t1, t2

TwoTabs == {t1, t2}
=============================================================================
