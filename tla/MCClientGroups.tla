--------------------------- MODULE MCClientGroups ---------------------------
(* Model checking of ClientGroups with two requests in progress. *)
EXTENDS ClientGroups, TLC

CONSTANTS t1, t2, c1, c2, r1

TwoTasks == {t1, t2}
TwoClients == {c1, c2}
OneRule == {r1}
Interchangeable == Permutations({t1, t2}) \union Permutations({c1, c2})
=============================================================================
