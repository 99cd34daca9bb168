----------------------------- MODULE MCConsole -----------------------------
(* Two rows per page, one there at first.                                     *)
EXTENDS Console

MCBodies == {"a"}
MCRoles == {"operator", "read_only"}
MCRemote == {"a"}
MCIds == {1, 2}
MCSeeds == [p \in Pages |-> [i \in Ids |-> IF i = 1
               THEN RowOf(IF p = "users" THEN "operator" ELSE "a", TRUE) ELSE Absent]]
=============================================================================
