---------------------------- MODULE MCDnsHandler ----------------------------
(* Model checking of DnsHandler on one question and one client. *)
EXTENDS DnsHandler, TLC

CONSTANTS t1, t2, c1, c2, x1, u0, u1

TwoQueries == {t1, t2}
OneClient == {c1}
OneQuestion == {x1}
NoUpstream == {}
LongTtl == {3}
Tasks == Permutations({t1, t2})
=============================================================================
