----------------------------- MODULE MCSettings -----------------------------
(* Two of the five settings, an upstream and a new one.                             *)
EXTENDS SettingsPage

MCOrder == <<"cache_ttl", "query_log_retention_days">>
MCDefaults == [k \in {MCOrder[i] : i \in DOMAIN MCOrder} |-> "a"]
MCElsewhere == {[MCDefaults EXCEPT ![MCOrder[2]] = "b"]}
MCSeeds == [i \in Ids |-> IF i = 2 THEN Absent ELSE Row(i, i = 1)]
MCIds == {1, 2}
MCPriorities == {1, 2}
=============================================================================
