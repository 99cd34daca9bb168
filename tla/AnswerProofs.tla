---------------------------- MODULE AnswerProofs ----------------------------
(* Theorems of DnsHandler and of QueryLog: the way of a query to its answer   *)
(* and of the answer to the log, for any number of queries, clients,          *)
(* questions and upstreams, any TTLs and batch size, a clock that runs as     *)
(* long as it likes, and any failures and restarts.                           *)
EXTENDS DnsHandler, QueryLog, FiniteSetTheorems, SequenceTheorems, TLAPS

(* The answer path.                                                           *)
Optional == SUBSET SUBSET Questions
Configs == [row : Row, group_ruleset : Optional]
Arrived == [step : {"config"}, client : Clients, question : Questions, held : BOOLEAN]
Lookups == {"groups", "remember"}
Looked == [step : Lookups \union {"rewrite", "filter", "cache", "resolve"},
           client : Clients, question : Questions, held : BOOLEAN, config : Configs, ver : Nat]
Answered == [step : {"done"}, must_block : BOOLEAN, how : {"rewrite", "blocked", "cached", "allowed"},
             from : Upstreams \union {Global}, own : Upstreams \union {Global}, age : Nat, ttl : Nat]
Carried == {NoQuery} \union Arrived \union Looked \union Answered

Typed ==
    /\ now \in Nat /\ row \in [Clients -> Row] /\ group_rules \in [Clients -> Optional]
    /\ blocked \subseteq Questions
    /\ client_config_cache \in [Clients -> [config : Configs, ver : Nat, until : Nat]]
    /\ cache \in [Questions -> [from : Upstreams \union {Global}, born : Nat, ttl : Nat, until : Nat]]
    /\ query \in [Queries -> Carried]
    /\ version \in [Clients -> Nat \ {0}] /\ settled_at \in [Clients -> Nat]

Filters(config) == config.row.filter_enabled /\ config.group_ruleset = None

(* What a query may rely on.  held stands for a question that is blocked; a   *)
(* query past the filter is not one that the engine must block; an answer is  *)
(* not too old.                                                               *)
ReliesOn(f) ==
    /\ f.step \notin {"none", "done"} /\ f.held => f.question \in blocked
    /\ f.step \in {"cache", "resolve"} /\ f.held => ~Filters(f.config)
    /\ f.step = "done" => f.age <= TTL_MAX /\ (f.must_block => f.how \in {"blocked", "rewrite"})

(* No response lives past the ceiling, counted from when it was fetched.      *)
Ages == \A q \in Questions :
          cache[q].born <= now /\ cache[q].until <= cache[q].born + TTL_MAX

(* A lookup under way read the current settings, or the settings changed      *)
(* meanwhile: its version is then an old one and its query straddles.         *)
Reads(f, straddles) ==
    f.step \in Lookups =>
      LET c == f.client
      IN  /\ f.ver <= version[c]
          /\ f.ver = version[c] => f.config.row = row[c]
          /\ f.ver = version[c] /\ f.step = "remember" => f.config = Config(row[c], group_rules[c])
          /\ ~straddles => f.ver \in {Unread, version[c]}

Caches == \A c \in Clients :
            LET entry == client_config_cache[c]
            IN  /\ entry.ver <= version[c] /\ entry.until <= now + CLIENT_CACHE_TTL
                /\ settled_at[c] <= now
                /\ entry.ver = version[c] => entry.config = Config(row[c], group_rules[c])

AnswerInv == Typed /\ Ages /\ \A t \in Queries : ReliesOn(query[t])
ConfigInv == /\ Caches /\ StaleConfigExpires
             /\ \A t \in Queries : Reads(query[t], t \in straddling)
-----------------------------------------------------------------------------
LEMMA Defaults == Default \in Configs /\ NoRow \in Row /\ None \in Optional
BY DEF Default, Config, NoRow, Row, None, Configs, Optional

(* The step of a query says what it carries.                                  *)
LEMMA Kinds ==
  ASSUME NEW f \in Carried
  PROVE  /\ f.step = "config" => f \in Arrived
         /\ f.step \in Lookups \union {"rewrite", "filter", "cache", "resolve"} => f \in Looked
         /\ f.step = "done" => f \in Answered
<1>1. NoQuery.step = "none" BY DEF NoQuery
<1>2. \A g \in Arrived : g.step = "config" BY DEF Arrived
<1>3. \A g \in Looked : g.step \in Lookups \union {"rewrite", "filter", "cache", "resolve"}
  BY DEF Looked
<1>4. \A g \in Answered : g.step = "done" BY DEF Answered
<1> QED BY <1>1, <1>2, <1>3, <1>4 DEF Carried, Lookups

LEMMA SetStep ==
  ASSUME Typed, NEW t \in Queries, NEW f \in Carried, Set(t, f)
  PROVE  /\ query' \in [Queries -> Carried] /\ query'[t] = f
         /\ \A s \in Queries \ {t} : query'[s] = query[s]
BY DEF Typed, Set

(* A query goes on and changes nothing but itself and the response cache.     *)
LEMMA OneQuery ==
  ASSUME AnswerInv, NEW t \in Queries, NEW f \in Carried, Set(t, f), ReliesOn(f),
         UNCHANGED <<now, tables, cache>>, settled_at' \in [Clients -> Nat],
         client_config_cache' \in [Clients -> [config : Configs, ver : Nat, until : Nat]]
  PROVE  AnswerInv'
<1>1. UNCHANGED <<now, row, group_rules, blocked, cache, version>> BY DEF tables
<1>2. Typed' BY <1>1, SetStep DEF AnswerInv, Typed
<1>3. Ages' BY <1>1 DEF AnswerInv, Ages
<1>4. \A s \in Queries : ReliesOn(query'[s]) BY SetStep DEF AnswerInv
<1>5. \A s \in Queries : ReliesOn(query[s])' BY <1>1, <1>4 DEF ReliesOn
<1> QED BY <1>2, <1>3, <1>5 DEF AnswerInv

LEMMA AnswerInvInit == Init => AnswerInv
<1> SUFFICES ASSUME Init PROVE AnswerInv OBVIOUS
<1> USE TtlAssumption, Defaults
<1>1. NoConfig \in [config : Configs, ver : Nat, until : Nat] BY DEF NoConfig, Unread
<1>2. NoResponse \in [from : Upstreams \union {Global}, born : Nat, ttl : Nat, until : Nat]
  BY DEF NoResponse
<1>3. NoQuery \in Carried BY DEF Carried
<1>4. Typed BY <1>1, <1>2, <1>3 DEF Init, Typed
<1>5. Ages BY DEF Init, Ages, NoResponse
<1>6. \A t \in Queries : query[t].step = "none" BY DEF Init, NoQuery
<1>7. \A t \in Queries : ReliesOn(query[t]) BY <1>6 DEF ReliesOn
<1> QED BY <1>4, <1>5, <1>7 DEF AnswerInv

(* The lookup: what it begins with, and goes on with.                         *)
LEMMA Begins ==
  ASSUME Typed, NEW t \in Queries, query[t].step = "config", NEW config \in Configs,
         NEW ver \in Nat, NEW next \in Lookups \union {"rewrite"}, With(t, config, ver, next)
  PROVE  \E f \in Looked : /\ Set(t, f) /\ f.step = next /\ f.config = config /\ f.ver = ver
                           /\ f.client = query[t].client /\ f.question = query[t].question
                           /\ f.held = query[t].held
<1>1. query[t] \in Arrived BY Kinds DEF Typed
<1> DEFINE f == [step |-> next, client |-> query[t].client, question |-> query[t].question,
                 held |-> query[t].held, config |-> config, ver |-> ver]
<1>2. f \in Looked BY <1>1 DEF Arrived, Looked, Lookups
<1>3. Set(t, f) BY DEF With
<1> QED BY <1>2, <1>3

LEMMA Goes ==
  ASSUME Typed, NEW t \in Queries, NEW next \in Lookups \union {"rewrite", "filter", "cache", "resolve"},
         query[t].step \in Lookups \union {"rewrite", "filter", "cache", "resolve"}
  PROVE  LET f == [query[t] EXCEPT !.step = next]
         IN  /\ f \in Looked /\ f.step = next /\ f.config = query[t].config
             /\ f.ver = query[t].ver /\ f.client = query[t].client
             /\ f.question = query[t].question /\ f.held = query[t].held
<1>1. query[t] \in Looked BY Kinds DEF Typed
<1> QED BY <1>1 DEF Looked

LEMMA Ends ==
  ASSUME Typed, NEW t \in Queries,
         query[t].step \in {"rewrite", "filter", "cache", "resolve"},
         NEW how \in {"rewrite", "blocked", "cached", "allowed"},
         NEW from \in Upstreams \union {Global}, NEW age \in Nat, NEW ttl \in Nat,
         Answer(t, how, from, age, ttl)
  PROVE  \E f \in Answered : /\ Set(t, f) /\ f.how = how /\ f.age = age /\ f.step = "done"
                             /\ f.must_block => query[t].held /\ Filters(query[t].config)
<1>1. query[t] \in Looked BY Kinds DEF Typed, Lookups
<1> DEFINE must == query[t].held /\ Filters(query[t].config)
           f == [step |-> "done", must_block |-> must, how |-> how, from |-> from,
                 own |-> query[t].config.row.upstream, age |-> age, ttl |-> ttl]
<1>2. query[t].config.row.upstream \in Upstreams \union {Global}
  BY <1>1 DEF Looked, Configs, Row
<1>3. must \in BOOLEAN BY DEF Filters
<1>4. f \in Answered BY <1>2, <1>3 DEF Answered
<1>5. Set(t, f)
  <2>1. must = (/\ query[t].held
                /\ query[t].config.row.filter_enabled /\ query[t].config.group_ruleset = None)
    BY DEF Filters
  <2> QED BY <2>1 DEF Answer
<1>6. f.step = "done" /\ f.how = how /\ f.age = age /\ f.must_block = must OBVIOUS
<1> HIDE DEF f, must
<1>7. f.must_block => query[t].held /\ Filters(query[t].config) BY <1>6 DEF must
<1> QED BY <1>4, <1>5, <1>6, <1>7

LEMMA Loads ==
  ASSUME NEW f \in Looked, NEW rules \in Optional
  PROVE  LET l == [f EXCEPT !.step = "remember", !.config.group_ruleset = rules]
             e == [f EXCEPT !.step = "remember", !.ver = Unread]
         IN  /\ l \in Looked /\ l.step = "remember" /\ l.held = f.held /\ l.ver = f.ver
             /\ l.question = f.question /\ l.client = f.client
             /\ l.config.row = f.config.row /\ l.config.group_ruleset = rules
             /\ e \in Looked /\ e.step = "remember" /\ e.held = f.held /\ e.ver = Unread
             /\ e.question = f.question /\ e.client = f.client
<1> DEFINE n == [f.config EXCEPT !.group_ruleset = rules]
           m == [f EXCEPT !.step = "remember"]
<1>1. f.config \in Configs BY DEF Looked
<1>2. n \in Configs /\ n.row = f.config.row /\ n.group_ruleset = rules BY <1>1 DEF Configs
<1>3. m \in Looked /\ m.step = "remember" /\ m.config = f.config /\ m.held = f.held
      /\ m.ver = f.ver /\ m.question = f.question /\ m.client = f.client
  BY DEF Looked, Lookups
<1>4. [f EXCEPT !.step = "remember", !.config.group_ruleset = rules] = [m EXCEPT !.config = n]
  BY <1>1 DEF Looked
<1> HIDE DEF n, m
<1>5. /\ [m EXCEPT !.config = n] \in Looked /\ [m EXCEPT !.config = n].step = "remember"
      /\ [m EXCEPT !.config = n].held = f.held /\ [m EXCEPT !.config = n].ver = f.ver
      /\ [m EXCEPT !.config = n].question = f.question
      /\ [m EXCEPT !.config = n].client = f.client /\ [m EXCEPT !.config = n].config = n
  BY <1>2, <1>3 DEF Looked
<1>6. LET e == [f EXCEPT !.step = "remember", !.ver = Unread]
      IN  /\ e \in Looked /\ e.step = "remember" /\ e.held = f.held /\ e.ver = Unread
          /\ e.question = f.question /\ e.client = f.client
  BY DEF Looked, Lookups, Unread
<1> QED BY <1>2, <1>4, <1>5, <1>6

LEMMA LookupAnswers ==
  ASSUME AnswerInv, NEW t \in Queries,
         ConfigHit(t) \/ LookUpClient(t) \/ LoadGroups(t) \/ Remember(t)
  PROVE  AnswerInv'
<1>0. Typed /\ ReliesOn(query[t]) BY DEF AnswerInv
<1>1. ASSUME NEW config \in Configs, NEW ver \in Nat, NEW next \in Lookups \union {"rewrite"},
             query[t].step = "config", With(t, config, ver, next),
             UNCHANGED <<now, admin, client_config_cache, cache>>
      PROVE  AnswerInv'
  <2>1. PICK f \in Looked : /\ Set(t, f) /\ f.step = next
                            /\ f.question = query[t].question /\ f.held = query[t].held
    BY <1>0, <1>1, Begins
  <2>2. f \in Carried /\ ReliesOn(f) BY <1>0, <1>1, <2>1 DEF Carried, ReliesOn, Lookups
  <2> QED BY <1>0, <1>1, <2>1, <2>2, OneQuery DEF Typed, admin
<1>2. CASE ConfigHit(t)
  <2> DEFINE entry == client_config_cache[query[t].client]
  <2>1. query[t].step = "config" /\ With(t, entry.config, entry.ver, "rewrite")
    BY <1>2 DEF ConfigHit, At
  <2>2. query[t].client \in Clients BY <1>0, <2>1, Kinds DEF Typed, Arrived
  <2>3. entry.config \in Configs /\ entry.ver \in Nat BY <1>0, <2>2 DEF Typed
  <2> QED BY <1>1, <1>2, <2>1, <2>3 DEF ConfigHit
<1>3. CASE LookUpClient(t)
  <2>1. query[t].step = "config" BY <1>3 DEF LookUpClient, At
  <2>2. query[t].client \in Clients BY <1>0, <2>1, Kinds DEF Typed, Arrived
  <2>3. Config(row[query[t].client], None) \in Configs /\ version[query[t].client] \in Nat
    BY <1>0, <2>2, Defaults DEF Typed, Config, Configs
  <2> QED BY <1>1, <1>3, <2>1, <2>3, Defaults DEF LookUpClient, Unread, Lookups
<1>4. CASE LoadGroups(t)
  <2>1. query[t].step = "groups" BY <1>4 DEF LoadGroups, At
  <2>2. query[t] \in Looked BY <1>0, <2>1, Kinds DEF Typed, Lookups
  <2>3. group_rules[query[t].client] \in Optional BY <1>0, <2>2 DEF Typed, Looked
  <2> DEFINE read == group_rules[query[t].client]
             l == [query[t] EXCEPT !.step = "remember", !.config.group_ruleset = read]
             e == [query[t] EXCEPT !.step = "remember", !.ver = Unread]
  <2>6. Set(t, l) \/ Set(t, e) BY <1>4 DEF LoadGroups
  <2>7. /\ l \in Looked /\ l.step = "remember" /\ l.held = query[t].held
        /\ l.question = query[t].question
        /\ e \in Looked /\ e.step = "remember" /\ e.held = query[t].held
        /\ e.question = query[t].question
    BY <2>2, <2>3, Loads
  <2> HIDE DEF l, e
  <2>4. PICK f \in Looked : Set(t, f) /\ f.step = "remember" /\ f.held = query[t].held
                           /\ f.question = query[t].question
    BY <2>6, <2>7
  <2>5. f \in Carried /\ ReliesOn(f) BY <1>0, <2>1, <2>4 DEF Carried, ReliesOn
  <2> QED BY <1>0, <1>4, <2>4, <2>5, OneQuery DEF LoadGroups, Typed, admin
<1>5. CASE Remember(t)
  <2>1. query[t].step = "remember" BY <1>5 DEF Remember, At
  <2> DEFINE f == [query[t] EXCEPT !.step = "rewrite"]
  <2>2. f \in Looked /\ f.step = "rewrite" /\ f.question = query[t].question
        /\ f.held = query[t].held
    BY <1>0, <2>1, Goes DEF Lookups
  <2>3. Set(t, f) BY <1>5 DEF Remember
  <2> HIDE DEF f
  <2>4. f \in Carried /\ ReliesOn(f) BY <1>0, <2>1, <2>2 DEF Carried, ReliesOn
  <2>5. query[t] \in Looked BY <1>0, <2>1, Kinds DEF Typed, Lookups
  <2>6. [config |-> query[t].config, ver |-> query[t].ver, until |-> now + CLIENT_CACHE_TTL]
          \in [config : Configs, ver : Nat, until : Nat]
    BY <1>0, <2>5, TtlAssumption DEF Typed, Looked
  <2>7. client_config_cache' \in [Clients -> [config : Configs, ver : Nat, until : Nat]]
    BY <1>0, <1>5, <2>6 DEF Typed, Remember
  <2>8. settled_at' \in [Clients -> Nat] BY <1>0, <1>5, <2>5 DEF Typed, Remember, Looked
  <2> QED BY <1>5, <2>3, <2>4, <2>7, <2>8, OneQuery DEF Remember
<1> QED BY <1>2, <1>3, <1>4, <1>5

LEMMA AnswerAnswers ==
  ASSUME AnswerInv, NEW t \in Queries,
         CheckRewrite(t) \/ CheckFilter(t) \/ CheckCache(t) \/ Resolve(t) \/ Leave(t)
  PROVE  AnswerInv'
<1>0. Typed /\ ReliesOn(query[t]) /\ Ages BY DEF AnswerInv
<1> DEFINE Past == {"rewrite", "filter", "cache", "resolve"}
<1>1. ASSUME UNCHANGED <<now, admin, client_config_cache, cache>>,
             NEW f \in Carried, Set(t, f), ReliesOn(f)
      PROVE  AnswerInv'
  BY <1>0, <1>1, OneQuery DEF Typed, admin
<1>2. ASSUME NEW how \in {"rewrite", "blocked"}, query[t].step \in Past, Synthetic(t, how),
             UNCHANGED <<now, admin, client_config_cache, cache>>
      PROVE  AnswerInv'
  <2>1. PICK f \in Answered : Set(t, f) /\ f.how = how /\ f.age = 0 /\ f.step = "done"
    BY <1>0, <1>2, Ends DEF Synthetic
  <2>2. f \in Carried /\ ReliesOn(f) BY <1>2, <2>1, TtlAssumption DEF Carried, ReliesOn
  <2> QED BY <1>1, <1>2, <2>1, <2>2
<1>3. ASSUME NEW next \in Past, query[t].step \in Past, Continue(t, next),
             UNCHANGED <<now, admin, client_config_cache, cache>>,
             next \in {"cache", "resolve"} /\ query[t].held => ~Filters(query[t].config)
      PROVE  AnswerInv'
  <2> DEFINE f == [query[t] EXCEPT !.step = next]
  <2>1. /\ f \in Looked /\ f.step = next /\ f.config = query[t].config
        /\ f.question = query[t].question /\ f.held = query[t].held
    BY <1>0, <1>3, Goes DEF Lookups
  <2>2. Set(t, f) BY <1>3 DEF Continue
  <2> HIDE DEF f
  <2>3. f \in Carried /\ ReliesOn(f) BY <1>0, <1>3, <2>1 DEF Carried, ReliesOn
  <2> QED BY <1>1, <1>3, <2>2, <2>3
<1>4. CASE CheckRewrite(t)
  <2>1. query[t].step \in Past BY <1>4 DEF CheckRewrite, At
  <2> QED BY <1>2, <1>3, <1>4, <2>1 DEF CheckRewrite
<1>5. CASE CheckFilter(t)
  <2>1. query[t].step = "filter" BY <1>5 DEF CheckFilter, At
  <2>2. query[t].held => query[t].question \in blocked BY <1>0, <2>1 DEF ReliesOn
  <2>3. CASE /\ query[t].config.row.filter_enabled
             /\ query[t].question \in Verdicts(query[t].config)
    <3>1. Synthetic(t, "blocked") BY <1>5, <2>3 DEF CheckFilter
    <3> QED BY <1>2, <1>5, <2>1, <3>1 DEF CheckFilter
  <2>4. CASE ~(/\ query[t].config.row.filter_enabled
               /\ query[t].question \in Verdicts(query[t].config))
    <3>1. Continue(t, "cache") BY <1>5, <2>4 DEF CheckFilter
    <3>2. query[t].held => ~Filters(query[t].config) BY <2>2, <2>4 DEF Filters, Verdicts
    <3> QED BY <1>3, <1>5, <2>1, <3>1, <3>2 DEF CheckFilter
  <2> QED BY <2>3, <2>4
<1>6. ASSUME query[t].step \in {"cache", "resolve"}
      PROVE  query[t].held => ~Filters(query[t].config)
  BY <1>0, <1>6 DEF ReliesOn
<1>7. CASE CheckCache(t)
  <2> DEFINE hit == cache[query[t].question]
  <2>1. query[t].step = "cache" BY <1>7 DEF CheckCache, At
  <2>2. query[t].question \in Questions BY <1>0, <2>1, Kinds DEF Typed, Looked
  <2>3. hit \in [from : Upstreams \union {Global}, born : Nat, ttl : Nat, until : Nat]
        /\ hit.born <= now /\ hit.until <= hit.born + TTL_MAX
    BY <1>0, <2>2 DEF Typed, Ages
  <2>4. CASE Live(hit)
    <3>1. Answer(t, "cached", hit.from, now - hit.born, hit.ttl)
      BY <1>7, <2>4 DEF CheckCache
    <3>2. now - hit.born \in Nat /\ now - hit.born <= TTL_MAX
      BY <1>0, <2>3, <2>4, TtlAssumption DEF Typed, Live
    <3>0. hit.from \in Upstreams \union {Global} /\ hit.ttl \in Nat BY <2>3
    <3> DEFINE age == now - hit.born
    <3> HIDE DEF age, hit
    <3>3. PICK f \in Answered : /\ Set(t, f) /\ f.how = "cached" /\ f.age = age
                                /\ f.step = "done"
                                /\ f.must_block => query[t].held /\ Filters(query[t].config)
      <4>1. Answer(t, "cached", hit.from, age, hit.ttl) /\ age \in Nat BY <3>1, <3>2 DEF age
      <4> QED BY <1>0, <2>1, <3>0, <4>1, Ends
    <3> USE DEF age
    <3>4. f \in Carried /\ ReliesOn(f) BY <1>6, <2>1, <3>2, <3>3 DEF Carried, ReliesOn
    <3> QED BY <1>1, <1>7, <3>3, <3>4 DEF CheckCache
  <2>5. CASE ~Live(hit)
    <3>1. Continue(t, "resolve") BY <1>7, <2>5 DEF CheckCache
    <3> QED BY <1>3, <1>6, <1>7, <2>1, <3>1 DEF CheckCache
  <2> QED BY <2>4, <2>5
<1>8. CASE Resolve(t)
  <2> DEFINE q == query[t].question
             from == query[t].config.row.upstream
  <2>1. query[t].step = "resolve" /\ UNCHANGED <<now, admin, client_config_cache>>
    BY <1>8 DEF Resolve, At
  <2>2. query[t] \in Looked BY <1>0, <2>1, Kinds DEF Typed, Looked
  <2>3. q \in Questions /\ from \in Upstreams \union {Global}
    BY <2>2 DEF Looked, Configs, Row
  <2>4. PICK ttl \in Ttls \union {TTL_DEFAULT} :
          /\ cache' = [cache EXCEPT ![q] =
                  [from |-> from, born |-> now, ttl |-> Clamp(ttl), until |-> Expiry(@, ttl)]]
          /\ Answer(t, "allowed", from, 0, Clamp(ttl))
    BY <1>8 DEF Resolve
  <2>5. Clamp(ttl) \in Nat /\ Clamp(ttl) <= TTL_MAX BY TtlAssumption DEF Clamp
  <2>6. Expiry(cache[q], ttl) \in Nat /\ Expiry(cache[q], ttl) <= now + TTL_MAX
    BY <1>0, <2>3, <2>5, TtlAssumption DEF Typed, Ages, Expiry, Live
  <2>7. PICK f \in Answered : /\ Set(t, f) /\ f.how = "allowed" /\ f.age = 0 /\ f.step = "done"
                              /\ f.must_block => query[t].held /\ Filters(query[t].config)
    BY <1>0, <2>1, <2>3, <2>4, <2>5, Ends
  <2>8. f \in Carried /\ ReliesOn(f) BY <1>6, <2>1, <2>7, TtlAssumption DEF Carried, ReliesOn
  <2>9. cache' \in [Questions -> [from : Upstreams \union {Global}, born : Nat, ttl : Nat, until : Nat]]
        /\ Ages'
    <3>1. now \in Nat /\ now' = now BY <1>0, <2>1 DEF Typed
    <3> QED BY <1>0, <2>3, <2>4, <2>5, <2>6, <3>1 DEF Typed, Ages
  <2>10. Typed' BY <1>0, <2>1, <2>7, <2>8, <2>9, SetStep DEF Typed, admin, tables
  <2>11. \A s \in Queries : ReliesOn(query'[s]) BY <2>7, <2>8, SetStep DEF AnswerInv
  <2>12. \A s \in Queries : ReliesOn(query[s])' BY <2>1, <2>11 DEF ReliesOn, admin, tables
  <2> QED BY <2>9, <2>10, <2>12 DEF AnswerInv
<1>9. CASE Leave(t)
  <2>1. NoQuery \in Carried /\ ReliesOn(NoQuery) BY DEF Carried, NoQuery, ReliesOn
  <2> QED BY <1>0, <1>9, <2>1, OneQuery DEF Leave, Typed
<1> QED BY <1>4, <1>5, <1>7, <1>8, <1>9

LEMMA ReceiveAnswers ==
  ASSUME AnswerInv, NEW t \in Queries, NEW c \in Clients, NEW q \in Questions, Receive(t, c, q)
  PROVE  AnswerInv'
<1> DEFINE f == [step |-> "config", client |-> c, question |-> q, held |-> q \in blocked]
<1>1. Set(t, f) /\ UNCHANGED <<now, admin, client_config_cache, cache>> BY DEF Receive
<1>2. (q \in blocked) \in BOOLEAN OBVIOUS
<1>3. f \in Arrived BY <1>2 DEF Arrived
<1>4. f.step = "config" /\ f.question = q /\ f.held = (q \in blocked) OBVIOUS
<1> HIDE DEF f
<1>5. f \in Carried /\ ReliesOn(f) BY <1>3, <1>4 DEF Carried, ReliesOn
<1> QED BY <1>1, <1>5, OneQuery DEF AnswerInv, Typed, admin

(* What a reload does to a query: it only forgets that it was blocked.        *)
LEMMA Held ==
  ASSUME NEW f \in Carried, f.step \notin {"none", "done"}, NEW b \in BOOLEAN
  PROVE  LET g == [f EXCEPT !.held = b]
         IN  /\ g \in Carried /\ g.step = f.step /\ g.question = f.question /\ g.held = b
             /\ g.step \in Lookups => g.client = f.client /\ g.ver = f.ver
             /\ g.step \in Lookups \union {"cache", "resolve"} => g.config = f.config
<1>1. CASE f.step = "config"
  <2>1. f \in Arrived BY <1>1, Kinds
  <2> DEFINE g == [f EXCEPT !.held = b]
  <2>2. g \in Arrived /\ g.step = "config" /\ g.question = f.question /\ g.held = b
    BY <2>1, <1>1 DEF Arrived
  <2> QED BY <1>1, <2>2 DEF Carried, Lookups
<1>2. CASE f.step # "config"
  <2>1. f.step \in Lookups \union {"rewrite", "filter", "cache", "resolve"}
    BY <1>2 DEF Carried, NoQuery, Arrived, Looked, Answered
  <2>2. f \in Looked BY <2>1, Kinds
  <2> DEFINE g == [f EXCEPT !.held = b]
  <2>3. /\ g \in Looked /\ g.step = f.step /\ g.question = f.question /\ g.held = b
        /\ g.client = f.client /\ g.ver = f.ver /\ g.config = f.config
    BY <2>2 DEF Looked
  <2> QED BY <2>3 DEF Carried
<1> QED BY <1>1, <1>2

LEMMA InstallQueries ==
  ASSUME Typed, Install
  PROVE  /\ query' \in [Queries -> Carried]
         /\ \A t \in Queries :
              /\ query'[t].step = query[t].step
              /\ query[t].step \in {"none", "done"} => query'[t] = query[t]
              /\ query[t].step \notin {"none", "done"} =>
                   /\ query'[t].question = query[t].question
                   /\ query'[t].held <=> query[t].held /\ query[t].question \in blocked'
                   /\ query[t].step \in Lookups =>
                        query'[t].client = query[t].client /\ query'[t].ver = query[t].ver
                   /\ query[t].step \in Lookups \union {"cache", "resolve"} =>
                        query'[t].config = query[t].config
<1> DEFINE New(t) == IF query[t].step \in {"none", "done"} THEN query[t]
                     ELSE [query[t] EXCEPT !.held = @ /\ query[t].question \in blocked']
<1>1. query' = [t \in Queries |-> New(t)] BY DEF Install
<1>2. ASSUME NEW t \in Queries, query[t].step \notin {"none", "done"}
      PROVE  /\ New(t) \in Carried /\ New(t).step = query[t].step
             /\ New(t).question = query[t].question
             /\ New(t).held <=> query[t].held /\ query[t].question \in blocked'
             /\ query[t].step \in Lookups =>
                  New(t).client = query[t].client /\ New(t).ver = query[t].ver
             /\ query[t].step \in Lookups \union {"cache", "resolve"} =>
                  New(t).config = query[t].config
  <2> DEFINE b == query[t].held /\ query[t].question \in blocked'
             f == query[t]
  <2>1. New(t) = [f EXCEPT !.held = b] BY <1>2
  <2>2. b \in BOOLEAN /\ f \in Carried /\ f.step \notin {"none", "done"} BY <1>2 DEF Typed
  <2>3. b <=> query[t].held /\ query[t].question \in blocked' OBVIOUS
  <2> HIDE DEF New, b
  <2>4. /\ New(t) \in Carried /\ New(t).step = f.step
        /\ New(t).question = f.question /\ New(t).held = b
        /\ f.step \in Lookups => New(t).client = f.client /\ New(t).ver = f.ver
        /\ f.step \in Lookups \union {"cache", "resolve"} => New(t).config = f.config
    BY <2>1, <2>2, Held
  <2> QED BY <2>3, <2>4
<1>3. ASSUME NEW t \in Queries, query[t].step \in {"none", "done"} PROVE New(t) = query[t]
  BY <1>3
<1> HIDE DEF New
<1>4. \A t \in Queries : New(t) \in Carried BY <1>2, <1>3 DEF Typed
<1> QED BY <1>1, <1>2, <1>3, <1>4

LEMMA AdminAnswers ==
  ASSUME AnswerInv,
         \/ \E cs \in (SUBSET Clients) \ {{}} : ChangeClients(cs) \/ ChangeGroups(cs)
         \/ Install \/ Tick
  PROVE  AnswerInv'
<1>0. Typed /\ Ages BY DEF AnswerInv
<1>1. ASSUME UNCHANGED <<now, blocked, client_config_cache, cache, query>>,
             row' \in [Clients -> Row], group_rules' \in [Clients -> Optional],
             NEW cs \in SUBSET Clients, Changed(cs)
      PROVE  AnswerInv'
  <2>1. version' \in [Clients -> Nat \ {0}] /\ settled_at' \in [Clients -> Nat]
    BY <1>0, <1>1 DEF Typed, Changed
  <2>2. Typed' BY <1>0, <1>1, <2>1 DEF Typed
  <2>3. Ages' BY <1>0, <1>1 DEF Ages
  <2> QED BY <1>1, <2>2, <2>3 DEF AnswerInv, ReliesOn
<1>2. \A g \in OptionalRules : g \in Optional BY DEF OptionalRules, Optional, None
<1>3. ASSUME NEW cs \in SUBSET Clients, ChangeClients(cs) PROVE AnswerInv'
  <2>1. row' \in [Clients -> Row] BY <1>3 DEF ChangeClients, Only
  <2>2. group_rules' \in [Clients -> Optional] BY <1>2, <1>3 DEF ChangeClients, Only
  <2> QED BY <1>1, <1>3, <2>1, <2>2 DEF ChangeClients
<1>4. ASSUME NEW cs \in SUBSET Clients, ChangeGroups(cs) PROVE AnswerInv'
  <2>1. row' \in [Clients -> Row] BY <1>0, <1>4 DEF ChangeGroups, Typed
  <2>2. group_rules' \in [Clients -> Optional] BY <1>2, <1>4 DEF ChangeGroups, Only
  <2> QED BY <1>1, <1>4, <2>1, <2>2 DEF ChangeGroups
<1>5. CASE Install
  <2>1. /\ UNCHANGED <<now, row, group_rules, version, settled_at, client_config_cache, cache>>
        /\ blocked' \subseteq Questions
    BY <1>0, <1>5 DEF Install, Typed
  <2>2. Typed' BY <1>0, <1>5, <2>1, InstallQueries DEF Typed
  <2>3. Ages' BY <1>0, <2>1 DEF Ages
  <2>4. ASSUME NEW t \in Queries PROVE ReliesOn(query[t])'
    <3>1. ReliesOn(query[t]) BY DEF AnswerInv
    <3> QED BY <1>0, <1>5, <3>1, InstallQueries DEF ReliesOn
  <2> QED BY <2>2, <2>3, <2>4 DEF AnswerInv
<1>6. CASE Tick
  <2>1. now' = now + 1 /\ UNCHANGED <<row, group_rules, blocked, version, settled_at,
                                     client_config_cache, cache, query>>
    BY <1>6 DEF Tick, admin, tables
  <2>2. Typed' BY <1>0, <2>1 DEF Typed
  <2>3. Ages' BY <1>0, <2>1 DEF Typed, Ages
  <2> QED BY <2>1, <2>2, <2>3 DEF AnswerInv, ReliesOn
<1> QED BY <1>3, <1>4, <1>5, <1>6

LEMMA AnswerInvStep == AnswerInv /\ [Next]_vars => AnswerInv'
<1> SUFFICES ASSUME AnswerInv, [Next]_vars PROVE AnswerInv' OBVIOUS
<1>1. CASE UNCHANGED vars
  BY <1>1 DEF vars, admin, tables, AnswerInv, Typed, Ages, ReliesOn
<1> QED BY <1>1, ReceiveAnswers, LookupAnswers, AnswerAnswers, AdminAnswers DEF Next

THEOREM AnswerInvariance == Spec => []AnswerInv
BY AnswerInvInit, AnswerInvStep, PTL DEF Spec

(* A question the engine has blocked since the query arrived is not answered  *)
(* from an upstream or from the cache, for a client the engine filters.       *)
THEOREM BlockedNotAnswered == Spec => []BlockedDespiteCache
<1>1. AnswerInv => BlockedDespiteCache BY DEF AnswerInv, ReliesOn, BlockedDespiteCache, At
<1> QED BY <1>1, AnswerInvariance, PTL

(* No response is served past the ceiling, however often concurrent queries   *)
(* replace it while it lives.                                                 *)
THEOREM NothingTooOld == Spec => []ServedWithinMax
<1>1. AnswerInv => ServedWithinMax BY DEF AnswerInv, ReliesOn, ServedWithinMax, At
<1> QED BY <1>1, AnswerInvariance, PTL
-----------------------------------------------------------------------------
(* The configurations.  A query that goes on disturbs only its own lookup.    *)
LEMMA OneLookup ==
  ASSUME Typed, ConfigInv, NEW t \in Queries, NEW f \in Carried, Set(t, f),
         Reads(f, t \in straddling'), straddling' \in {straddling, straddling \ {t}},
         UNCHANGED <<now, tables>>
  PROVE  \A s \in Queries : Reads(query[s], s \in straddling)'
<1> SUFFICES ASSUME NEW s \in Queries PROVE Reads(query[s], s \in straddling)'
  OBVIOUS
<1>1. CASE s = t
  <2>1. query'[s] = f BY <1>1, SetStep
  <2> QED BY <1>1, <2>1 DEF Reads, tables
<1>2. CASE s # t
  <2>1. query'[s] = query[s] /\ (s \in straddling' <=> s \in straddling) BY <1>2, SetStep
  <2>2. Reads(query[s], s \in straddling) BY DEF ConfigInv
  <2> QED BY <2>1, <2>2 DEF Reads, tables
<1> QED BY <1>1, <1>2

LEMMA SameCache ==
  ASSUME ConfigInv, UNCHANGED <<now, tables, settled_at, client_config_cache>>
  PROVE  Caches' /\ StaleConfigExpires'
BY DEF ConfigInv, Caches, StaleConfigExpires, tables

LEMMA ConfigInvInit == Init => ConfigInv
<1> SUFFICES ASSUME Init PROVE ConfigInv OBVIOUS
<1>1. Caches BY TtlAssumption DEF Init, Caches, NoConfig, Unread
<1>2. StaleConfigExpires BY DEF Init, StaleConfigExpires, NoConfig, Unread
<1>3. \A t \in Queries : query[t].step = "none" BY DEF Init, NoQuery
<1>4. \A t \in Queries : Reads(query[t], t \in straddling) BY <1>3 DEF Reads, Lookups
<1> QED BY <1>1, <1>2, <1>4 DEF ConfigInv

LEMMA LookupConfigs ==
  ASSUME AnswerInv, ConfigInv, NEW t \in Queries,
         ConfigHit(t) \/ LookUpClient(t) \/ LoadGroups(t) \/ Remember(t)
  PROVE  ConfigInv'
<1>0. Typed /\ Caches /\ StaleConfigExpires /\ Reads(query[t], t \in straddling)
  BY DEF AnswerInv, ConfigInv
<1>1. ASSUME UNCHANGED <<now, admin, client_config_cache>>,
             NEW f \in Looked, Set(t, f), Reads(f, t \in straddling)
      PROVE  ConfigInv'
  <2>1. f \in Carried BY DEF Carried
  <2>2. \A s \in Queries : Reads(query[s], s \in straddling)'
    BY <1>0, <1>1, <2>1, OneLookup DEF admin
  <2> QED BY <1>1, <2>2, SameCache DEF ConfigInv, admin
<1>2. CASE ConfigHit(t)
  <2> DEFINE entry == client_config_cache[query[t].client]
  <2>1. query[t].step = "config" /\ With(t, entry.config, entry.ver, "rewrite")
    BY <1>2 DEF ConfigHit, At
  <2>2. query[t].client \in Clients BY <1>0, <2>1, Kinds DEF Typed, Arrived
  <2>3. entry.config \in Configs /\ entry.ver \in Nat BY <1>0, <2>2 DEF Typed
  <2> HIDE DEF entry
  <2>4. PICK f \in Looked : Set(t, f) /\ f.step = "rewrite" BY <1>0, <2>1, <2>3, Begins
  <2>5. Reads(f, t \in straddling) BY <2>4 DEF Reads, Lookups
  <2> QED BY <1>1, <1>2, <2>4, <2>5 DEF ConfigHit
<1>3. CASE LookUpClient(t)
  <2> DEFINE c == query[t].client
             found == Config(row[c], None)
  <2>1. query[t].step = "config" /\ UNCHANGED <<now, admin, client_config_cache>>
    BY <1>3 DEF LookUpClient, At
  <2>2. c \in Clients BY <1>0, <2>1, Kinds DEF Typed, Arrived
  <2>3. found \in Configs /\ found.row = row[c] BY <1>0, <2>2, Defaults DEF Typed, Config, Configs
  <2>4. version[c] \in Nat \ {0} BY <1>0, <2>2 DEF Typed
  <2>5. CASE With(t, found, version[c], "groups")
    <3> HIDE DEF found
    <3>1. PICK f \in Looked : /\ Set(t, f) /\ f.step = "groups" /\ f.config = found
                              /\ f.ver = version[c] /\ f.client = c
      BY <1>0, <2>1, <2>3, <2>4, <2>5, Begins DEF Lookups
    <3>2. Reads(f, t \in straddling) BY <2>3, <2>4, <3>1 DEF Reads
    <3> QED BY <1>1, <2>1, <3>1, <3>2
  <2>6. CASE With(t, Default, Unread, "remember")
    <3>1. Unread \in Nat BY DEF Unread
    <3>2. PICK f \in Looked : /\ Set(t, f) /\ f.step = "remember"
                              /\ f.ver = Unread /\ f.client = c
      BY <1>0, <2>1, <2>6, <3>1, Defaults, Begins DEF Lookups
    <3>3. Reads(f, t \in straddling) BY <2>4, <3>2 DEF Reads, Unread
    <3> QED BY <1>1, <2>1, <3>2, <3>3
  <2> QED BY <1>3, <2>5, <2>6 DEF LookUpClient
<1>4. CASE LoadGroups(t)
  <2>1. query[t].step = "groups" /\ UNCHANGED <<now, admin, client_config_cache>>
    BY <1>4 DEF LoadGroups, At
  <2>2. query[t] \in Looked BY <1>0, <2>1, Kinds DEF Typed, Lookups
  <2> DEFINE c == query[t].client
             read == group_rules[c]
             l == [query[t] EXCEPT !.step = "remember", !.config.group_ruleset = read]
             e == [query[t] EXCEPT !.step = "remember", !.ver = Unread]
  <2>3. c \in Clients BY <2>2 DEF Looked
  <2>4. read \in Optional /\ version[c] \in Nat \ {0} BY <1>0, <2>3 DEF Typed
  <2>5. Set(t, l) \/ Set(t, e) BY <1>4 DEF LoadGroups
  <2>6. /\ l \in Looked /\ l.step = "remember" /\ l.ver = query[t].ver /\ l.client = c
        /\ l.config.row = query[t].config.row /\ l.config.group_ruleset = read
        /\ e \in Looked /\ e.step = "remember" /\ e.ver = Unread /\ e.client = c
    BY <2>2, <2>4, Loads
  <2> HIDE DEF l, e
  <2>7. ASSUME query[t].ver = version[c] PROVE l.config = Config(row[c], read)
    <3>1. l.config.row = row[c] BY <1>0, <2>1, <2>6, <2>7 DEF Reads, Lookups
    <3>2. l.config \in Configs BY <2>6 DEF Looked
    <3> QED BY <2>6, <3>1, <3>2 DEF Configs, Config
  <2>8. Reads(l, t \in straddling) BY <1>0, <2>1, <2>6, <2>7 DEF Reads, Lookups
  <2>9. Reads(e, t \in straddling) BY <2>4, <2>6 DEF Reads, Unread
  <2> QED BY <1>1, <2>1, <2>5, <2>6, <2>8, <2>9
<1>5. CASE Remember(t)
  <2>1. query[t].step = "remember" /\ UNCHANGED <<now, tables>> BY <1>5 DEF Remember, At
  <2>2. query[t] \in Looked BY <1>0, <2>1, Kinds DEF Typed, Lookups
  <2> DEFINE c == query[t].client
             f == [query[t] EXCEPT !.step = "rewrite"]
             new == [config |-> query[t].config, ver |-> query[t].ver,
                     until |-> now + CLIENT_CACHE_TTL]
  <2>3. c \in Clients BY <2>2 DEF Looked
  <2>4. f \in Carried /\ f.step = "rewrite" BY <1>0, <2>1, Goes DEF Lookups, Carried
  <2>5. Set(t, f) BY <1>5 DEF Remember
  <2> HIDE DEF f
  <2>6. Reads(f, t \in straddling') BY <2>4 DEF Reads, Lookups
  <2>7. \A s \in Queries : Reads(query[s], s \in straddling)'
    BY <1>0, <1>5, <2>1, <2>4, <2>5, <2>6, OneLookup DEF Remember
  <2>8. /\ query[t].ver <= version[c]
        /\ query[t].ver = version[c] => query[t].config = Config(row[c], group_rules[c])
        /\ t \notin straddling => query[t].ver \in {Unread, version[c]}
    BY <1>0, <2>1 DEF Reads, Lookups
  <2>9. client_config_cache' = [client_config_cache EXCEPT ![c] = new] BY <1>5 DEF Remember
  <2>10. client_config_cache'[c] = new /\ \A d \in Clients \ {c} :
           client_config_cache'[d] = client_config_cache[d]
    BY <1>0, <2>3, <2>9 DEF Typed
  <2>11. now \in Nat /\ CLIENT_CACHE_TTL \in Nat /\ version[c] \in Nat \ {0}
         /\ query[t].ver \in Nat
    BY <1>0, <2>2, <2>3, TtlAssumption DEF Typed, Looked
  <2>12. /\ new.ver = query[t].ver /\ new.config = query[t].config
         /\ new.until = now + CLIENT_CACHE_TTL
    OBVIOUS
  <2> HIDE DEF new
  <2>15. /\ t \in straddling => settled_at'[c] = now
         /\ t \notin straddling => settled_at'[c] = settled_at[c]
         /\ \A d \in Clients \ {c} : settled_at'[d] = settled_at[d]
    BY <1>0, <1>5, <2>3 DEF Remember, Typed
  <2>13. Caches' BY <1>0, <2>1, <2>8, <2>10, <2>11, <2>12, <2>15 DEF Caches, tables
  <2>14. StaleConfigExpires'
    BY <1>0, <2>1, <2>8, <2>10, <2>11, <2>12, <2>15 DEF StaleConfigExpires, tables, Unread
  <2> QED BY <2>7, <2>13, <2>14 DEF ConfigInv
<1> QED BY <1>2, <1>3, <1>4, <1>5

(* A query that is past its lookup, or arrives, has none under way.           *)
LEMMA OtherConfigs ==
  ASSUME AnswerInv, ConfigInv, NEW t \in Queries,
         \/ \E c \in Clients, q \in Questions : Receive(t, c, q)
         \/ CheckRewrite(t) \/ CheckFilter(t) \/ CheckCache(t) \/ Resolve(t) \/ Leave(t)
  PROVE  ConfigInv'
<1>0. Typed BY DEF AnswerInv
<1>1. ASSUME UNCHANGED <<now, tables, settled_at, client_config_cache>>,
             straddling' \in {straddling, straddling \ {t}},
             NEW f, Set(t, f), f.step \notin Lookups
      PROVE  ConfigInv'
  <2>1. query'[t] = f /\ \A s \in Queries \ {t} : query'[s] = query[s]
    BY <1>0, <1>1 DEF Typed, Set
  <2>2. \A s \in Queries : Reads(query'[s], s \in straddling')
    BY <1>1, <2>1 DEF ConfigInv, Reads
  <2>3. \A s \in Queries : Reads(query[s], s \in straddling)' BY <1>1, <2>2 DEF Reads, tables
  <2> QED BY <1>1, <2>3, SameCache DEF ConfigInv
<1>2. ASSUME NEW how, NEW from, NEW age, NEW ttl, Answer(t, how, from, age, ttl),
             UNCHANGED <<now, admin, client_config_cache>>
      PROVE  ConfigInv'
  BY <1>1, <1>2 DEF Answer, Lookups, admin
<1>3. ASSUME NEW next \in {"filter", "cache", "resolve"}, Continue(t, next),
             query[t].step \in {"rewrite", "filter", "cache", "resolve"},
             UNCHANGED <<now, admin, client_config_cache>>
      PROVE  ConfigInv'
  <2> DEFINE f == [query[t] EXCEPT !.step = next]
  <2>1. f.step = next BY <1>0, <1>3, Goes
  <2>2. Set(t, f) BY <1>3 DEF Continue
  <2> HIDE DEF f
  <2> QED BY <1>1, <1>3, <2>1, <2>2 DEF Lookups, admin
<1>4. ASSUME NEW c \in Clients, NEW q \in Questions, Receive(t, c, q) PROVE ConfigInv'
  BY <1>1, <1>4 DEF Receive, Lookups, admin
<1>5. CASE CheckRewrite(t) BY <1>2, <1>3, <1>5 DEF CheckRewrite, Synthetic, At
<1>6. CASE CheckFilter(t) BY <1>2, <1>3, <1>6 DEF CheckFilter, Synthetic, At
<1>7. CASE CheckCache(t) BY <1>2, <1>3, <1>7 DEF CheckCache, At
<1>8. CASE Resolve(t) BY <1>2, <1>8 DEF Resolve
<1>9. CASE Leave(t) BY <1>1, <1>9 DEF Leave, NoQuery, Lookups
<1> QED BY <1>4, <1>5, <1>6, <1>7, <1>8, <1>9

LEMMA AdminConfigs ==
  ASSUME AnswerInv, ConfigInv,
         \/ \E cs \in (SUBSET Clients) \ {{}} : ChangeClients(cs) \/ ChangeGroups(cs)
         \/ Install \/ Tick
  PROVE  ConfigInv'
<1>0. Typed /\ Caches /\ StaleConfigExpires BY DEF AnswerInv, ConfigInv
<1>1. ASSUME NEW cs \in SUBSET Clients, Changed(cs), UNCHANGED <<now, client_config_cache, query>>,
             \A d \in Clients \ cs : row'[d] = row[d] /\ group_rules'[d] = group_rules[d]
      PROVE  ConfigInv'
  <2>1. /\ \A c \in cs : version'[c] = version[c] + 1 /\ settled_at'[c] = now
        /\ \A d \in Clients \ cs : version'[d] = version[d] /\ settled_at'[d] = settled_at[d]
    BY <1>0, <1>1 DEF Changed, Typed
  <2>2. \A t \in Queries : t \notin straddling' =>
          t \notin straddling /\ \A c \in cs : ~Looking(t, c)
    BY <1>1 DEF Changed
  <2>3. \A d \in Clients : /\ version[d] \in Nat /\ client_config_cache[d].ver \in Nat
                           /\ client_config_cache[d].until \in Nat
    BY <1>0 DEF Typed
  <2>4. now \in Nat /\ CLIENT_CACHE_TTL \in Nat BY <1>0, TtlAssumption DEF Typed
  <2>5. Caches' BY <1>0, <1>1, <2>1, <2>3, <2>4 DEF Caches
  <2>6. StaleConfigExpires' BY <1>0, <1>1, <2>1, <2>3, <2>4 DEF Caches, StaleConfigExpires
  <2>7. ASSUME NEW t \in Queries PROVE Reads(query[t], t \in straddling)'
    <3>1. Reads(query[t], t \in straddling) BY DEF ConfigInv
    <3>2. CASE query[t].step \notin Lookups BY <1>1, <3>2 DEF Reads
    <3>3. CASE query[t].step \in Lookups
      <4>1. query[t].client \in Clients /\ query[t].ver \in Nat
        BY <1>0, <3>3, Kinds DEF Typed, Looked
      <4>2. CASE query[t].client \notin cs BY <1>1, <2>1, <2>2, <3>1, <4>1, <4>2 DEF Reads
      <4>3. CASE query[t].client \in cs
        <5>1. Looking(t, query[t].client) BY <3>3 DEF Looking, Lookups
        <5>2. t \in straddling' BY <2>2, <4>3, <5>1
        <5>3. query[t].ver <= version[query[t].client] BY <3>1, <3>3 DEF Reads
        <5>4. query[t].ver < version'[query[t].client] BY <2>1, <2>3, <4>1, <4>3, <5>3
        <5> QED BY <1>1, <2>1, <2>3, <4>1, <4>3, <5>2, <5>4 DEF Reads
      <4> QED BY <4>2, <4>3
    <3> QED BY <3>2, <3>3
  <2> QED BY <2>5, <2>6, <2>7 DEF ConfigInv
<1>2. ASSUME NEW cs \in SUBSET Clients, ChangeClients(cs) PROVE ConfigInv'
  <2>1. \A d \in Clients \ cs : row'[d] = row[d] /\ group_rules'[d] = group_rules[d]
    BY <1>2 DEF ChangeClients, Only
  <2> QED BY <1>1, <1>2, <2>1 DEF ChangeClients
<1>3. ASSUME NEW cs \in SUBSET Clients, ChangeGroups(cs) PROVE ConfigInv'
  <2>1. \A d \in Clients \ cs : row'[d] = row[d] /\ group_rules'[d] = group_rules[d]
    BY <1>3 DEF ChangeGroups, Only
  <2> QED BY <1>1, <1>3, <2>1 DEF ChangeGroups
<1>4. CASE Install
  <2>1. UNCHANGED <<now, row, group_rules, version, settled_at, straddling, client_config_cache>>
    BY <1>4 DEF Install
  <2>2. Caches' /\ StaleConfigExpires' BY <1>0, <2>1 DEF Caches, StaleConfigExpires
  <2>3. ASSUME NEW t \in Queries PROVE Reads(query[t], t \in straddling)'
    <3>1. Reads(query[t], t \in straddling) BY DEF ConfigInv
    <3>2. query'[t].step = query[t].step /\ (query[t].step \in Lookups =>
            /\ query'[t].client = query[t].client /\ query'[t].ver = query[t].ver
            /\ query'[t].config = query[t].config)
      BY <1>0, <1>4, InstallQueries DEF Lookups
    <3>3. Reads(query'[t], t \in straddling) BY <3>1, <3>2 DEF Reads
    <3> QED BY <2>1, <3>3 DEF Reads
  <2> QED BY <2>2, <2>3 DEF ConfigInv
<1>5. CASE Tick
  <2>1. now' = now + 1 /\ UNCHANGED <<row, group_rules, version, settled_at, straddling,
                                     client_config_cache, query>>
    BY <1>5 DEF Tick, admin, tables
  <2>2. now \in Nat /\ CLIENT_CACHE_TTL \in Nat /\ \A c \in Clients :
          settled_at[c] \in Nat /\ client_config_cache[c].until \in Nat
    BY <1>0, TtlAssumption DEF Typed
  <2>3. Caches' BY <1>0, <2>1, <2>2 DEF Caches
  <2>4. StaleConfigExpires' BY <1>0, <2>1 DEF StaleConfigExpires
  <2> QED BY <2>1, <2>3, <2>4 DEF ConfigInv, Reads
<1> QED BY <1>2, <1>3, <1>4, <1>5

LEMMA ConfigInvStep == AnswerInv /\ ConfigInv /\ [Next]_vars => ConfigInv'
<1> SUFFICES ASSUME AnswerInv, ConfigInv, [Next]_vars PROVE ConfigInv' OBVIOUS
<1>1. CASE UNCHANGED vars
  BY <1>1 DEF vars, admin, tables, ConfigInv, Caches, StaleConfigExpires, Reads
<1> QED BY <1>1, LookupConfigs, OtherConfigs, AdminConfigs DEF Next

THEOREM ConfigInvariance == Spec => []ConfigInv
BY ConfigInvInit, ConfigInvStep, AnswerInvariance, PTL DEF Spec

(* What is cached for a client and has not been changed since is what the     *)
(* database says, although its two parts are read one after the other.        *)
THEOREM CurrentConfigAlwaysRight == Spec => []CurrentConfigRight
<1>1. ConfigInv => CurrentConfigRight BY DEF ConfigInv, Caches, CurrentConfigRight
<1> QED BY <1>1, ConfigInvariance, PTL

(* A change takes effect within the time to live, however busy the client is. *)
THEOREM ConfigExpires == Spec => []StaleConfigExpires
<1>1. ConfigInv => StaleConfigExpires BY DEF ConfigInv
<1> QED BY <1>1, ConfigInvariance, PTL
-----------------------------------------------------------------------------
(* The counters and the log writer.                                           *)
Steps == {"handling", "counted", "classed", "answered", "gone"}
Total == queries["blocked"] + queries["allowed"] + queries["cached"]
Under(k) == {a \in Answers : step[a] = k}

(* The counters run ahead of one another by the answers between two additions.*)
CountInv ==
    /\ step \in [Answers -> Steps] /\ status \in [Answers -> Status]
    /\ queries_total \in Nat /\ queries \in [Status -> Nat] /\ handed_over \in Nat
    /\ queries_total = Total + Cardinality(Under("counted"))
    /\ Total = handed_over + Cardinality(Under("classed"))

(* A batch that is full, and none that is empty, is being flushed; the open   *)
(* transaction holds its first rows.                                          *)
BatchInv ==
    /\ step \in [Answers -> Steps]
    /\ channel \in Seq(Answers) /\ batch \in Seq(Answers) /\ tx \in Seq(Answers)
    /\ query_log \in Seq(Answers) /\ flushing \in BOOLEAN
    /\ Len(batch) <= BATCH_SIZE /\ (~flushing => Len(batch) < BATCH_SIZE /\ tx = <<>>)
    /\ flushing => Len(batch) > 0
    /\ Len(tx) <= Len(batch) /\ \A i \in 1..Len(tx) : tx[i] = batch[i]
-----------------------------------------------------------------------------
LEMMA UnderFinite == ASSUME NEW k PROVE IsFiniteSet(Under(k)) /\ Cardinality(Under(k)) \in Nat
<1>1. Under(k) \subseteq Answers BY DEF Under
<1> QED BY <1>1, AnswersAssumption, FS_Subset, FS_CardinalityType

(* An answer that goes from one step to the next leaves the first set and     *)
(* joins the second; the other sets stay.                                     *)
LEMMA Moves ==
  ASSUME step \in [Answers -> Steps], NEW a \in Answers, NEW j \in Steps, NEW k \in Steps,
         k # j, step[a] = j, step' = [step EXCEPT ![a] = k]
  PROVE  /\ step' \in [Answers -> Steps]
         /\ Cardinality(Under(k)') = Cardinality(Under(k)) + 1
         /\ Cardinality(Under(j)) = Cardinality(Under(j)') + 1
         /\ Cardinality(Under(j)') \in Nat
         /\ \A i \in Steps \ {k, j} : Under(i)' = Under(i)
<1>1. step' \in [Answers -> Steps] OBVIOUS
<1>2. Under(k)' = Under(k) \union {a} /\ a \notin Under(k) BY DEF Under
<1>3. Under(j)' = Under(j) \ {a} /\ a \in Under(j) BY DEF Under
<1>4. \A i \in Steps \ {k, j} : Under(i)' = Under(i) BY DEF Under
<1>5. Cardinality(Under(k)') = Cardinality(Under(k)) + 1
  BY <1>2, UnderFinite, FS_AddElement
<1>6. IsFiniteSet(Under(j)) /\ Cardinality(Under(j)) \in Nat BY UnderFinite
<1>7. Cardinality(Under(j)') = Cardinality(Under(j)) - 1 /\ IsFiniteSet(Under(j)')
  BY <1>3, <1>6, FS_RemoveElement
<1>8. Cardinality(Under(j)') \in Nat BY <1>7, FS_CardinalityType
<1> QED BY <1>1, <1>4, <1>5, <1>6, <1>7, <1>8

LEMMA CountInvInit == LogInit => CountInv
<1> SUFFICES ASSUME LogInit PROVE CountInv OBVIOUS
<1>1. Under("counted") = {} /\ Under("classed") = {} BY DEF LogInit, Under
<1>2. queries \in [Status -> Nat] /\ Total = 0 BY DEF LogInit, NoCount, Status, Total
<1>3. step \in [Answers -> Steps] BY DEF LogInit, Steps
<1>4. Cardinality(Under("counted")) = 0 /\ Cardinality(Under("classed")) = 0
  BY <1>1, FS_EmptySet
<1> QED BY <1>2, <1>3, <1>4 DEF LogInit, CountInv

LEMMA CountInvStep == CountInv /\ [LogNext]_logVars => CountInv'
<1> SUFFICES ASSUME CountInv, [LogNext]_logVars PROVE CountInv' OBVIOUS
<1> USE UnderFinite DEF CountInv, Steps
<1>1. ASSUME NEW a \in Answers, CountQuery(a) PROVE CountInv'
  <2>1. step[a] = "handling" /\ step' = [step EXCEPT ![a] = "counted"]
        /\ queries_total' = queries_total + 1 /\ UNCHANGED <<status, queries, handed_over>>
    BY <1>1 DEF CountQuery
  <2>2. /\ Cardinality(Under("counted")') = Cardinality(Under("counted")) + 1
        /\ Under("classed")' = Under("classed") /\ step' \in [Answers -> Steps]
    BY <2>1, Moves
  <2>3. Total \in Nat /\ Total' = Total BY <2>1 DEF Total, Status
  <2> QED BY <2>1, <2>2, <2>3
<1>2. ASSUME NEW a \in Answers, CountStatus(a) PROVE CountInv'
  <2>1. step[a] = "counted" /\ step' = [step EXCEPT ![a] = "classed"]
        /\ queries' = [queries EXCEPT ![status[a]] = @ + 1]
        /\ UNCHANGED <<status, queries_total, handed_over>>
    BY <1>2 DEF CountStatus
  <2>2. /\ Cardinality(Under("counted")) = Cardinality(Under("counted")') + 1
        /\ Cardinality(Under("classed")') = Cardinality(Under("classed")) + 1
        /\ Cardinality(Under("counted")') \in Nat /\ step' \in [Answers -> Steps]
    BY <2>1, Moves
  <2>3. status[a] \in Status OBVIOUS
  <2>4. queries' \in [Status -> Nat] /\ Total \in Nat /\ Total' = Total + 1
    BY <2>1, <2>3 DEF Total, Status
  <2> QED BY <2>1, <2>2, <2>4
<1>3. ASSUME NEW a \in Answers, LogQuery(a) PROVE CountInv'
  <2>1. step[a] = "classed" /\ step' = [step EXCEPT ![a] = "answered"]
        /\ handed_over' = handed_over + 1 /\ UNCHANGED <<status, queries_total, queries>>
    BY <1>3 DEF LogQuery, metrics
  <2>2. /\ Cardinality(Under("classed")) = Cardinality(Under("classed")') + 1
        /\ Cardinality(Under("classed")') \in Nat
        /\ Under("counted")' = Under("counted") /\ step' \in [Answers -> Steps]
    BY <2>1, Moves
  <2>3. Total \in Nat /\ Total' = Total BY <2>1 DEF Total, Status
  <2> QED BY <2>1, <2>2, <2>3
<1>4. ASSUME Restart PROVE CountInv'
  <2>1. /\ queries_total' = 0 /\ queries' = NoCount /\ handed_over' = 0 /\ UNCHANGED status
        /\ step' \in [Answers -> Steps]
        /\ \A a \in Answers : step'[a] \notin {"counted", "classed"}
    BY <1>4 DEF Restart
  <2>2. Under("counted")' = {} /\ Under("classed")' = {} BY <2>1 DEF Under
  <2>3. queries' \in [Status -> Nat] /\ Total' = 0 BY <2>1 DEF NoCount, Status, Total
  <2>4. Cardinality(Under("counted")') = 0 /\ Cardinality(Under("classed")') = 0
    BY <2>2, FS_EmptySet
  <2> QED BY <2>1, <2>3, <2>4
<1>5. ASSUME UNCHANGED <<answering, handed_over>> PROVE CountInv'
  BY <1>5 DEF answering, metrics, Total, Under
<1>6. CASE ReceiveEntry \/ FlushTick \/ InsertRow \/ Commit \/ WriteFails
  BY <1>5, <1>6 DEF ReceiveEntry, FlushTick, InsertRow, Commit, WriteFails
<1>7. CASE UNCHANGED logVars BY <1>5, <1>7 DEF logVars
<1> QED BY <1>1, <1>2, <1>3, <1>4, <1>6, <1>7 DEF LogNext

THEOREM CountInvariance == LogSpec => []CountInv
BY CountInvInit, CountInvStep, PTL DEF LogSpec

(* The total, the counters of the statuses and the entries handed to the      *)
(* writer differ by the answers that are between two of them, and no more.    *)
THEOREM CountersAlwaysAgree == LogSpec => []CountersAgree
<1>1. CountInv => CountersAgree BY DEF CountInv, CountersAgree, Total, Under, Between
<1> QED BY <1>1, CountInvariance, PTL
-----------------------------------------------------------------------------
LEMMA BatchInvInit == LogInit => BatchInv
<1> SUFFICES ASSUME LogInit PROVE BatchInv OBVIOUS
<1>1. step \in [Answers -> Steps] BY DEF LogInit, Steps
<1>2. /\ channel \in Seq(Answers) /\ batch \in Seq(Answers) /\ tx \in Seq(Answers)
      /\ query_log \in Seq(Answers) /\ Len(batch) = 0 /\ Len(tx) = 0
  BY DEF LogInit
<1>3. tx = <<>> /\ ~flushing /\ flushing \in BOOLEAN BY DEF LogInit
<1> QED BY <1>1, <1>2, <1>3, BatchAssumption DEF BatchInv

(* An empty batch, whatever becomes of the rest.                              *)
LEMMA Cleared ==
  ASSUME step' \in [Answers -> Steps], channel' \in Seq(Answers), query_log' \in Seq(Answers),
         Clear
  PROVE  BatchInv'
<1>1. batch' = <<>> /\ tx' = <<>> BY DEF Clear
<1>2. ~flushing' /\ flushing' \in BOOLEAN BY DEF Clear
<1>3. batch' \in Seq(Answers) /\ tx' \in Seq(Answers) /\ Len(batch') = 0 /\ Len(tx') = 0
  BY <1>1
<1> QED BY <1>1, <1>2, <1>3, BatchAssumption DEF BatchInv

LEMMA BatchInvStep == BatchInv /\ [LogNext]_logVars => BatchInv'
<1> SUFFICES ASSUME BatchInv, [LogNext]_logVars PROVE BatchInv' OBVIOUS
<1>0. <<>> \in Seq(Answers) OBVIOUS
<1>1. ASSUME NEW a \in Answers, CountQuery(a) \/ CountStatus(a) PROVE BatchInv'
  BY <1>1 DEF CountQuery, CountStatus, BatchInv, Steps, writer
<1>2. ASSUME NEW a \in Answers, LogQuery(a) PROVE BatchInv'
  BY <1>2 DEF LogQuery, BatchInv, Steps, writer
<1>3. CASE ReceiveEntry
  <2>1. Head(channel) \in Answers /\ Tail(channel) \in Seq(Answers)
    BY <1>3 DEF ReceiveEntry, BatchInv
  <2>2. /\ batch' \in Seq(Answers) /\ Len(batch') = Len(batch) + 1
        /\ channel' \in Seq(Answers)
    BY <1>3, <2>1 DEF ReceiveEntry, BatchInv
  <2>3. ~flushing /\ tx = <<>> /\ UNCHANGED <<step, tx, query_log>>
    BY <1>3 DEF ReceiveEntry, BatchInv, answering
  <2>6. flushing' <=> Len(batch) + 1 >= BATCH_SIZE BY <1>3 DEF ReceiveEntry
  <2>7. flushing' \in BOOLEAN BY <1>3 DEF ReceiveEntry
  <2>4. Len(batch) \in Nat /\ Len(batch) < BATCH_SIZE /\ Len(tx) = 0
    BY <2>3 DEF BatchInv
  <2>5. Len(batch') <= BATCH_SIZE /\ (~flushing' => Len(batch') < BATCH_SIZE)
        /\ Len(batch') > 0 /\ Len(tx') = 0
    BY <2>2, <2>3, <2>4, <2>6, BatchAssumption
  <2> QED BY <2>2, <2>3, <2>5, <2>7 DEF BatchInv
<1>4. CASE FlushTick BY <1>4 DEF FlushTick, BatchInv, answering
<1>5. CASE InsertRow
  <2>1. flushing /\ UNCHANGED <<step, channel, batch, flushing, query_log>>
        /\ Len(tx) < Len(batch) /\ tx' = Append(tx, batch[Len(tx) + 1])
    BY <1>5 DEF InsertRow, answering
  <2>2. batch[Len(tx) + 1] \in Answers BY <2>1 DEF BatchInv
  <2> QED BY <2>1, <2>2 DEF BatchInv
<1>6. CASE Commit
  <2>1. query_log' \in Seq(Answers) BY <1>6 DEF Commit, BatchInv
  <2> QED BY <1>6, <2>1, Cleared DEF Commit, answering, BatchInv
<1>7. CASE WriteFails BY <1>7, Cleared DEF WriteFails, answering, BatchInv
<1>8. CASE Restart
  <2>1. step' \in [Answers -> Steps] BY <1>8 DEF Restart, BatchInv, Steps
  <2> QED BY <1>0, <1>8, <2>1, Cleared DEF Restart, BatchInv
<1>9. CASE UNCHANGED logVars BY <1>9 DEF logVars, answering, writer, BatchInv
<1> QED BY <1>1, <1>2, <1>3, <1>4, <1>5, <1>6, <1>7, <1>8, <1>9 DEF LogNext

THEOREM BatchInvariance == LogSpec => []BatchInv
BY BatchInvInit, BatchInvStep, PTL DEF LogSpec

(* What the batch and the channel hold is what the contract has waiting.      *)
LEMMA ReceiveKeeps ==
  ASSUME NEW S, NEW b \in Seq(S), NEW c \in Seq(S), c # <<>>
  PROVE  Append(b, Head(c)) \o Tail(c) = b \o c
<1> DEFINE l == Append(b, Head(c)) \o Tail(c)
           r == b \o c
<1>1. Head(c) \in S /\ Tail(c) \in Seq(S) /\ Len(Tail(c)) = Len(c) - 1 /\ Len(c) > 0
  OBVIOUS
<1>2. Append(b, Head(c)) \in Seq(S) /\ Len(Append(b, Head(c))) = Len(b) + 1 BY <1>1
<1>3. l \in Seq(S) /\ r \in Seq(S) /\ Len(l) = Len(b) + Len(c) /\ Len(r) = Len(b) + Len(c)
  BY <1>1, <1>2
<1>4. ASSUME NEW i \in 1..Len(l) PROVE l[i] = r[i]
  <2>1. i \in Nat /\ i >= 1 /\ i <= Len(b) + Len(c) /\ Len(b) \in Nat /\ Len(c) \in Nat
    BY <1>3
  <2>2. CASE i <= Len(b) BY <1>1, <1>2, <2>1, <2>2
  <2>3. CASE i = Len(b) + 1 BY <1>1, <1>2, <2>1, <2>3
  <2>4. CASE i > Len(b) + 1 BY <1>1, <1>2, <2>1, <2>4
  <2> QED BY <2>1, <2>2, <2>3, <2>4
<1> HIDE DEF l, r
<1>5. l = r BY <1>3, <1>4, SeqEqual
<1> QED BY <1>5 DEF l, r

LEMMA AppendKeeps ==
  ASSUME NEW S, NEW b \in Seq(S), NEW c \in Seq(S), NEW e \in S
  PROVE  b \o Append(c, e) = Append(b \o c, e)
<1> DEFINE l == b \o Append(c, e)
           r == Append(b \o c, e)
<1>1. Append(c, e) \in Seq(S) /\ b \o c \in Seq(S) /\ Len(b \o c) = Len(b) + Len(c) OBVIOUS
<1>2. l \in Seq(S) /\ r \in Seq(S) /\ Len(l) = Len(b) + Len(c) + 1
      /\ Len(r) = Len(b) + Len(c) + 1
  BY <1>1
<1>3. ASSUME NEW i \in 1..Len(l) PROVE l[i] = r[i]
  <2>1. i \in Nat /\ i >= 1 /\ i <= Len(b) + Len(c) + 1 /\ Len(b) \in Nat /\ Len(c) \in Nat
    BY <1>2
  <2>2. CASE i <= Len(b) BY <1>1, <2>1, <2>2
  <2>3. CASE i > Len(b) /\ i <= Len(b) + Len(c) BY <1>1, <2>1, <2>3
  <2>4. CASE i = Len(b) + Len(c) + 1 BY <1>1, <2>1, <2>4
  <2> QED BY <2>1, <2>2, <2>3, <2>4
<1> HIDE DEF l, r
<1>4. l = r BY <1>2, <1>3, SeqEqual
<1> QED BY <1>4 DEF l, r

(* The first rows of what waits are the batch, the rest is the channel.       *)
LEMMA Splits ==
  ASSUME NEW S, NEW b \in Seq(S), NEW c \in Seq(S)
  PROVE  /\ SubSeq(b \o c, 1, Len(b)) = b
         /\ SubSeq(b \o c, Len(b) + 1, Len(b \o c)) = c
<1> DEFINE w == b \o c
<1>1. w \in Seq(S) /\ Len(w) = Len(b) + Len(c) /\ Len(b) \in Nat /\ Len(c) \in Nat OBVIOUS
<1>2. /\ \A i \in 1..Len(b) : w[i] = b[i]
      /\ \A i \in 1..Len(c) : w[Len(b) + i] = c[i]
  OBVIOUS
<1> HIDE DEF w
<1>3. SubSeq(w, 1, Len(b)) = b
  <2>1. SubSeq(w, 1, Len(b)) \in Seq(S) /\ Len(SubSeq(w, 1, Len(b))) = Len(b)
        /\ \A i \in 1..Len(b) : SubSeq(w, 1, Len(b))[i] = b[i]
    BY <1>1, <1>2
  <2> QED BY <2>1, SeqEqual
<1>4. SubSeq(w, Len(b) + 1, Len(w)) = c
  <2>1. SubSeq(w, Len(b) + 1, Len(w)) \in Seq(S)
        /\ Len(SubSeq(w, Len(b) + 1, Len(w))) = Len(c)
        /\ \A i \in 1..Len(c) : SubSeq(w, Len(b) + 1, Len(w))[i] = c[i]
    BY <1>1, <1>2
  <2> QED BY <2>1, SeqEqual
<1> QED BY <1>3, <1>4 DEF w

(* The writer keeps the contract whatever the size of a batch: entries reach  *)
(* the table in order, in whole batches and once (query_log_writer.rs:41-85). *)
THEOREM LogImplemented == LogSpec => ImplementsLog
<1>1. LogInit => Contract!Init BY DEF LogInit, Contract!Init, Waiting
<1>2. BatchInv /\ [LogNext]_logVars => [Contract!Next]_<<query_log, Waiting>>
  <2> SUFFICES ASSUME BatchInv, [LogNext]_logVars
               PROVE  Contract!Next \/ UNCHANGED <<query_log, Waiting>>
    OBVIOUS
  <2>1. ASSUME UNCHANGED <<query_log, batch, channel>>
        PROVE  UNCHANGED <<query_log, Waiting>>
    BY <2>1 DEF Waiting
  <2>2. ASSUME NEW a \in Answers, CountQuery(a) \/ CountStatus(a)
        PROVE  UNCHANGED <<query_log, Waiting>>
    BY <2>1, <2>2 DEF CountQuery, CountStatus, writer
  <2>3. CASE FlushTick \/ InsertRow \/ UNCHANGED logVars
    BY <2>1, <2>3 DEF FlushTick, InsertRow, logVars, writer
  <2>4. ASSUME NEW a \in Answers, LogQuery(a) PROVE Contract!Next
    <3>1. UNCHANGED <<query_log, batch>> /\ channel' = Append(channel, a)
      BY <2>4 DEF LogQuery, writer
    <3>2. Waiting' = Append(Waiting, a) BY <3>1, AppendKeeps DEF BatchInv, Waiting
    <3> QED BY <3>1, <3>2 DEF Contract!Next, Contract!HandOver
  <2>5. CASE ReceiveEntry
    <3>1. /\ channel # <<>> /\ UNCHANGED query_log
          /\ batch' = Append(batch, Head(channel)) /\ channel' = Tail(channel)
      BY <2>5 DEF ReceiveEntry
    <3>2. Waiting' = Waiting BY <3>1, ReceiveKeeps DEF BatchInv, Waiting
    <3> QED BY <3>1, <3>2
  <2>6. ASSUME flushing, batch' = <<>>, UNCHANGED channel
        PROVE  /\ Len(batch) \in 1..BATCH_SIZE /\ Len(batch) <= Len(Waiting)
               /\ Waiting' = Contract!Rest(Len(batch)) /\ batch = Contract!First(Len(batch))
    <3>1. Len(batch) \in 1..BATCH_SIZE BY <2>6, BatchAssumption DEF BatchInv
    <3>2. Len(Waiting) = Len(batch) + Len(channel) /\ Len(channel) \in Nat
      BY DEF BatchInv, Waiting
    <3>3. Waiting' = channel BY <2>6, ConcatEmptySeq DEF BatchInv, Waiting
    <3>4. channel = Contract!Rest(Len(batch)) BY Splits DEF BatchInv, Waiting, Contract!Rest
    <3>5. batch = Contract!First(Len(batch)) BY Splits DEF BatchInv, Waiting, Contract!First
    <3> QED BY <3>1, <3>2, <3>3, <3>4, <3>5
  <2>7. CASE Commit
    <3>1. /\ flushing /\ Len(tx) = Len(batch) /\ batch' = <<>> /\ UNCHANGED channel
          /\ query_log' = query_log \o tx
      BY <2>7 DEF Commit, Clear
    <3>2. tx = batch BY <3>1, SeqEqual DEF BatchInv
    <3>3. Contract!Settle(Len(batch)) BY <2>6, <3>1, <3>2 DEF Contract!Settle
    <3> QED BY <2>6, <3>1, <3>3 DEF Contract!Next, Contract!SettleBatch
  <2>8. CASE WriteFails
    <3>1. flushing /\ batch' = <<>> /\ UNCHANGED <<channel, query_log>>
      BY <2>8 DEF WriteFails, Clear
    <3>2. Contract!Settle(Len(batch)) BY <2>6, <3>1 DEF Contract!Settle
    <3> QED BY <2>6, <3>1, <3>2 DEF Contract!Next, Contract!SettleBatch
  <2>9. CASE Restart
    <3>1. batch' = <<>> /\ channel' = <<>> /\ UNCHANGED query_log BY <2>9 DEF Restart, Clear
    <3>2. Waiting' = <<>> BY <3>1 DEF Waiting
    <3> QED BY <3>1, <3>2 DEF Contract!Next, Contract!Crash
  <2> QED BY <2>2, <2>3, <2>4, <2>5, <2>7, <2>8, <2>9 DEF LogNext
<1> QED BY <1>1, <1>2, BatchInvariance, PTL DEF LogSpec, ImplementsLog, Contract!Spec
=============================================================================
