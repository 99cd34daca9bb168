----------------------------- MODULE DnsHandler -----------------------------
(* The answer path of dns/handler.rs with the two caches it uses: client      *)
(* configurations by source address (60 s) and responses by question          *)
(* (dns/cache.rs).  Each query is a task; between its steps other queries     *)
(* run, administrators change clients and rules, and time passes.  The        *)
(* counters and the log entry of each answer are in module QueryLog.          *)
EXTENDS Naturals

CONSTANTS Queries,     \* tasks that handle a query
          Clients,     \* source addresses
          Questions,   \* a domain with a record type
          Upstreams,   \* upstream lists a client may have of its own
          Global,      \* the server's own upstream
          Ttls,        \* minimum TTLs an upstream may answer with
          CLIENT_CACHE_TTL, TTL_MIN, TTL_MAX, TTL_DEFAULT,
          MaxTime,     \* bound: how long the clock runs
          MaxChanges   \* bound: how often an administrator changes something

ASSUME TtlAssumption ==
    /\ TTL_MIN \in Nat \ {0} /\ TTL_DEFAULT \in Nat /\ TTL_MAX \in Nat
    /\ TTL_MIN <= TTL_DEFAULT /\ TTL_DEFAULT <= TTL_MAX
    /\ CLIENT_CACHE_TTL \in Nat \ {0} /\ Ttls \subseteq Nat
    /\ MaxTime \in Nat /\ MaxChanges \in Nat
    /\ Global \notin Upstreams

VARIABLES now,
          row,          \* database: the clients row that matches an address, or NoRow
          group_rules,  \* database: what its groups block, if any rule is bound to them
          blocked,      \* the engine's verdicts (FilterEngine)
          rewritten,    \* questions with a rewrite of the right address family
          client_config_cache,  \* per address: a configuration and when it expires
          cache,        \* per question: a response and when it expires
          query,        \* per task: where it is and what it carries
          changes,      \* how many changes administrators have made
          version,      \* history: per address, a count of its changes
          settled_at,   \* history: when it last changed, or a straddling lookup ended
          straddling    \* history: queries whose lookup has met a change of their client

tables == <<row, group_rules, blocked, rewritten, changes, version>>
admin == <<tables, settled_at, straddling>>
vars == <<now, admin, client_config_cache, cache, query>>

Row == [filter_enabled : BOOLEAN, upstream : Upstreams \union {Global}]
NoRow == [filter_enabled |-> TRUE, upstream |-> Global]   \* no match: the default applies
Config(r, groups) == [row |-> r, group_ruleset |-> groups]
None == {}              \* an optional set of questions: {} or {its value}
OptionalRules == {None} \union {{rules} : rules \in SUBSET Questions}
Default == Config(NoRow, None)

Live(entry) == now < entry.until
Unread == 0             \* the version of a configuration that a failed read left wanting
NoConfig == [config |-> Default, ver |-> Unread, until |-> 0]
NoResponse == [from |-> Global, born |-> 0, ttl |-> 0, until |-> 0]

NoQuery == [step |-> "none"]
At(t, step) == query[t].step = step
Set(t, f) == query' = [query EXCEPT ![t] = f]
Looking(t, c) == query[t].step \in {"groups", "remember"} /\ query[t].client = c

Init == /\ now = 0
        /\ row \in [Clients -> Row]
        /\ group_rules = [c \in Clients |-> None]
        /\ blocked = {}
        /\ rewritten = {}
        /\ client_config_cache = [c \in Clients |-> NoConfig]
        /\ cache = [q \in Questions |-> NoResponse]
        /\ query = [t \in Queries |-> NoQuery]
        /\ changes = 0
        /\ version = [c \in Clients |-> 1]
        /\ settled_at = [c \in Clients |-> 0]
        /\ straddling = {}
-----------------------------------------------------------------------------
(* handle: a query arrives (one that is not a query gets SERVFAIL at once).   *)
(* held: that the engine has blocked the question all along.                  *)
Receive(t, c, q) ==
    /\ query[t].step \in {"none", "done"}
    /\ Set(t, [step |-> "config", client |-> c, question |-> q, held |-> q \in blocked])
    /\ UNCHANGED <<now, admin, client_config_cache, cache>>

(* get_client_config: the cached configuration if it is live, *)
With(t, config, ver, step) ==
    Set(t, [step |-> step, client |-> query[t].client, question |-> query[t].question,
            held |-> query[t].held, config |-> config, ver |-> ver])

\* Fault: a hit renews the entry (time to idle in place of time to live).
FaultyConfigHit(t) ==
    /\ At(t, "config")
    /\ LET c == query[t].client
           entry == client_config_cache[c]
       IN  /\ Live(entry) /\ With(t, entry.config, entry.ver, "rewrite")
           /\ client_config_cache' =
                [client_config_cache EXCEPT ![c].until = now + CLIENT_CACHE_TTL]
    /\ UNCHANGED <<now, admin, cache>>

ConfigHit(t) ==
    /\ At(t, "config")
    /\ LET entry == client_config_cache[query[t].client]
       IN  Live(entry) /\ With(t, entry.config, entry.ver, "rewrite")
    /\ UNCHANGED <<now, admin, client_config_cache, cache>>

(* else resolve_client_config: the clients table, the default if that fails; *)
LookUpClient(t) ==
    /\ At(t, "config")
    /\ LET c == query[t].client
       IN  /\ ~Live(client_config_cache[c])
           /\ \/ With(t, Config(row[c], None), version[c], "groups")
              \/ With(t, Default, Unread, "remember")
    /\ UNCHANGED <<now, admin, client_config_cache, cache>>

(* the rules of its groups, none if that fails (an address that matches no    *)
(* client has none either);                                                   *)
FaultyLoadGroups(t) ==   \* fault: the groups are left for later
    /\ At(t, "groups")
    /\ Set(t, [query[t] EXCEPT !.step = "remember"])
    /\ UNCHANGED <<now, admin, client_config_cache, cache>>

LoadGroups(t) ==
    /\ At(t, "groups")
    /\ LET read == group_rules[query[t].client]
       IN  \/ Set(t, [query[t] EXCEPT !.step = "remember", !.config.group_ruleset = read])
           \/ Set(t, [query[t] EXCEPT !.step = "remember", !.ver = Unread])
    /\ UNCHANGED <<now, admin, client_config_cache, cache>>

(* and the result, an error's default included, is cached from now on. *)
Remember(t) ==
    /\ At(t, "remember")
    /\ client_config_cache' = [client_config_cache EXCEPT ![query[t].client] =
         [config |-> query[t].config, ver |-> query[t].ver, until |-> now + CLIENT_CACHE_TTL]]
    /\ settled_at' = IF t \in straddling
                     THEN [settled_at EXCEPT ![query[t].client] = now] ELSE settled_at
    /\ straddling' = straddling \ {t}
    /\ Set(t, [query[t] EXCEPT !.step = "rewrite"])
    /\ UNCHANGED <<now, tables, cache>>

(* The answer, with the upstream it came from and how old and long-lived it   *)
(* is.  must_block: the engine filters this client, and blocked all along.    *)
Answer(t, how, from, age, ttl) ==
    LET config == query[t].config
    IN  Set(t, [step |-> "done", must_block |-> /\ query[t].held
                               /\ config.row.filter_enabled /\ config.group_ruleset = None,
                how |-> how, from |-> from, own |-> config.row.upstream,
                age |-> age, ttl |-> ttl])
Synthetic(t, how) == Answer(t, how, Global, 0, 0)
Continue(t, step) == Set(t, [query[t] EXCEPT !.step = step])

(* A rewrite answers first, whatever the client's configuration; *)
CheckRewrite(t) ==
    /\ At(t, "rewrite")
    /\ IF query[t].question \in rewritten THEN Synthetic(t, "rewrite") ELSE Continue(t, "filter")
    /\ UNCHANGED <<now, admin, client_config_cache, cache>>

(* then the client's group rules in place of the engine's, if it has any; *)
Verdicts(config) == IF config.group_ruleset = None THEN blocked ELSE UNION config.group_ruleset

\* Fault: what is in the cache is not filtered again.
FaultyCheckFilter(t) ==
    /\ At(t, "filter")
    /\ IF /\ query[t].config.row.filter_enabled
          /\ query[t].question \in Verdicts(query[t].config)
          /\ ~Live(cache[query[t].question])
       THEN Synthetic(t, "blocked") ELSE Continue(t, "cache")
    /\ UNCHANGED <<now, admin, client_config_cache, cache>>

CheckFilter(t) ==
    /\ At(t, "filter")
    /\ IF /\ query[t].config.row.filter_enabled
          /\ query[t].question \in Verdicts(query[t].config)
       THEN Synthetic(t, "blocked") ELSE Continue(t, "cache")
    /\ UNCHANGED <<now, admin, client_config_cache, cache>>

(* then the response cache, whose key is the question alone; *)
CheckCache(t) ==
    /\ At(t, "cache")
    /\ LET hit == cache[query[t].question]
       IN  IF Live(hit) THEN Answer(t, "cached", hit.from, now - hit.born, hit.ttl)
                        ELSE Continue(t, "resolve")
    /\ UNCHANGED <<now, admin, client_config_cache, cache>>

(* then the upstream; a failure or an empty answer has no TTL of its own and  *)
(* is cached like any other.  moka asks expire_after_create for a new entry   *)
(* only: replacing a live one keeps the time at which that one expires.       *)
Clamp(ttl) == IF ttl < TTL_MIN THEN TTL_MIN ELSE IF ttl > TTL_MAX THEN TTL_MAX ELSE ttl

FaultyExpiry(entry, ttl) ==   \* fault: a replacement prolongs what it replaces
    (IF Live(entry) THEN entry.until ELSE now) + Clamp(ttl)

Expiry(entry, ttl) == IF Live(entry) THEN entry.until ELSE now + Clamp(ttl)
Resolve(t) ==
    /\ At(t, "resolve")
    /\ \E ttl \in Ttls \union {TTL_DEFAULT} :
         LET q == query[t].question
             from == query[t].config.row.upstream
         IN  /\ cache' = [cache EXCEPT ![q] =
                  [from |-> from, born |-> now, ttl |-> Clamp(ttl), until |-> Expiry(@, ttl)]]
             /\ Answer(t, "allowed", from, 0, Clamp(ttl))
    /\ UNCHANGED <<now, admin, client_config_cache>>

(* A query over HTTPS is dropped wherever it waits when its client goes away. *)
Leave(t) ==
    /\ query[t].step \notin {"none", "done"}
    /\ Set(t, NoQuery)
    /\ straddling' = straddling \ {t}
    /\ UNCHANGED <<now, tables, settled_at, client_config_cache, cache>>
-----------------------------------------------------------------------------
(* An administrator changes a client, or what its groups block, for all the   *)
(* addresses cs at once that a statement is about (the identifiers of a       *)
(* client may be a network, a group has many members): neither the clients    *)
(* handlers nor those of client_groups.rs reach the handler's cache.          *)
Changed(cs) ==
    /\ version' = [c \in Clients |-> IF c \in cs THEN version[c] + 1 ELSE version[c]]
    /\ settled_at' = [c \in Clients |-> IF c \in cs THEN now ELSE settled_at[c]]
    /\ straddling' = straddling \union {t \in Queries : \E c \in cs : Looking(t, c)}
Only(cs, table, Values) == {f \in [Clients -> Values] : \A c \in Clients \ cs : f[c] = table[c]}

ChangeClients(cs) ==
    /\ changes < MaxChanges /\ changes' = changes + 1
    /\ row' \in Only(cs, row, Row)
    /\ group_rules' \in Only(cs, group_rules, OptionalRules)
    /\ Changed(cs)
    /\ UNCHANGED <<now, blocked, rewritten, client_config_cache, cache, query>>
ChangeGroups(cs) ==
    /\ changes < MaxChanges /\ changes' = changes + 1
    /\ group_rules' \in Only(cs, group_rules, OptionalRules)
    /\ Changed(cs)
    /\ UNCHANGED <<now, row, blocked, rewritten, client_config_cache, cache, query>>

(* A reload of the filter engine installs other rules, or other rewrites. *)
Install ==
    /\ changes < MaxChanges /\ changes' = changes + 1
    /\ \/ blocked' \in SUBSET Questions /\ UNCHANGED rewritten
       \/ rewritten' \in SUBSET Questions /\ UNCHANGED blocked
    /\ query' = [t \in Queries |->
         IF query[t].step \in {"none", "done"} THEN query[t]
         ELSE [query[t] EXCEPT !.held = @ /\ query[t].question \in blocked']]
    /\ UNCHANGED <<now, row, group_rules, version, settled_at, straddling,
                   client_config_cache, cache>>

Tick == /\ now < MaxTime
        /\ now' = now + 1
        /\ UNCHANGED <<admin, client_config_cache, cache, query>>

Next == \/ \E t \in Queries :
             \/ \E c \in Clients, q \in Questions : Receive(t, c, q)
             \/ ConfigHit(t) \/ LookUpClient(t) \/ LoadGroups(t) \/ Remember(t)
             \/ CheckRewrite(t) \/ CheckFilter(t) \/ CheckCache(t) \/ Resolve(t) \/ Leave(t)
        \/ \E cs \in (SUBSET Clients) \ {{}} : ChangeClients(cs) \/ ChangeGroups(cs)
        \/ Install
        \/ Tick

Spec == Init /\ [][Next]_vars
-----------------------------------------------------------------------------
(* A question the engine has blocked since the query arrived is not answered  *)
(* from an upstream, nor from a response cached before it was blocked, if the *)
(* client is filtered by the engine (handler.rs:126-158).                     *)
BlockedDespiteCache ==
    \A t \in Queries :
      At(t, "done") /\ query[t].must_block => query[t].how \in {"blocked", "rewrite"}

(* What is cached for a client, was read without an error and has not been    *)
(* changed since is what the database says, even though clients and groups    *)
(* are read one after the other (handler.rs:205-206).                         *)
CurrentConfigRight ==
    \A c \in Clients :
      LET entry == client_config_cache[c]
      IN  Live(entry) /\ entry.ver = version[c] => entry.config = Config(row[c], group_rules[c])

(* A change of a client's settings takes effect within the 60 s of            *)
(* handler.rs:17, counted from the change or, if a lookup that began before   *)
(* it caches the old settings after it (handler.rs:205, 253), from the end of *)
(* that lookup: neither traffic nor other lookups prolong what is stale.      *)
StaleConfigExpires ==
    \A c \in Clients :
      client_config_cache[c].ver \in 1..version[c] - 1
        => client_config_cache[c].until <= settled_at[c] + CLIENT_CACHE_TTL

(* However often concurrent queries replace a live entry, no response is      *)
(* served past the ceiling of cache.rs:8.                                     *)
ServedWithinMax ==
    \A t \in Queries : At(t, "done") => query[t].age <= TTL_MAX

=============================================================================
