---------------------------- MODULE MCPagedPages ----------------------------
(* Two rows on pages of one; one of them or both there at first.             *)
EXTENDS PagedPages

MCIds == 1..2
MCSeeds == {[i \in Ids |-> IF i <= n THEN "a" ELSE Absent] : n \in Ids}
=============================================================================
