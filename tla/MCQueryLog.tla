---------------------------- MODULE MCQueryLog ----------------------------
(* Model checking of QueryLog with more answers than a batch holds. *)
EXTENDS QueryLog

CONSTANTS a1, a2, a3

ThreeAnswers == {a1, a2, a3}
=============================================================================
