---------------------------- MODULE FilterEngine ----------------------------
(* The filter engine of dns/filter.rs: two in-memory tables, the rules and   *)
(* the rewrites, rebuilt from the database by reload().  Every task that     *)
(* writes one of the database tables calls reload() afterwards; nothing      *)
(* serialises two reloads, each of which reads the two database tables and   *)
(* replaces the two in-memory ones in four steps separated by awaits.        *)
(*                                                                           *)
(* Who writes what is left open here: Write stands for any handler.  The     *)
(* modules RuleAdmin and ListSync give the handlers and implement this one.  *)
EXTENDS Naturals, Sequences, FiniteSets

CONSTANTS Tasks,       \* request handlers and background tasks
          RuleIds,     \* ids of custom_rules rows; a row's id stands for its rule text
          Owners,      \* values of custom_rules.created_by
          RewriteIds,  \* ids of dns_rewrites rows
          Domains, Answers,
          MayAbandon,  \* whether a database error or a disconnect may end a task
          MaxCommits   \* bound: how many states the database goes through

ASSUME BoundAssumption == MaxCommits \in Nat \ {0} /\ MayAbandon \in BOOLEAN

VARIABLES custom_rules,  \* the database's rules: a set of rows
          dns_rewrites,  \* the database's rewrites: a set of rows
          rules,         \* in memory: the rule set that answers queries
          rewrites,      \* in memory: domain -> answer
          pc,            \* where each task is
          new_rules,     \* reload's local tables, per task
          new_rewrites,
          commits,       \* history: the engine's view of every database state
          own,           \* history: the last database state each task created, or 0
          abandoned,     \* history: a task that had written ended without its reload
          regressed      \* history: a reload replaced a table by an older one

tables == <<custom_rules, dns_rewrites>>
engine == <<rules, rewrites>>
history == <<commits, own, abandoned, regressed>>
vars == <<tables, engine, pc, new_rules, new_rewrites, history>>

RuleRow == [id : RuleIds, created_by : Owners, is_enabled : BOOLEAN]
RewriteRow == [id : RewriteIds, domain : Domains, answer : Answers]

(* Row ids are primary keys; a unique index makes domains a key too. *)
IsKeyed(rows, Key(_)) == \A r, s \in rows : Key(r) = Key(s) => r = s
RuleTables == {R \in SUBSET RuleRow : IsKeyed(R, LAMBDA r : r.id)}
RewriteTables == {W \in SUBSET RewriteRow :
                    /\ IsKeyed(W, LAMBDA r : r.id)
                    /\ IsKeyed(W, LAMBDA r : r.domain)}

(* What the two SELECTs of reload() make of the database. *)
EnabledRules(R) == {r.id : r \in {s \in R : s.is_enabled}}
AnswerOf(W, d) == (CHOOSE r \in W : r.domain = d).answer
RewriteMap(W) == [d \in {r.domain : r \in W} |-> AnswerOf(W, d)]
View(R, W) == [rules |-> EnabledRules(R), rewrites |-> RewriteMap(W)]

Now == Len(commits)
Idle == \A t \in Tasks : pc[t] = "idle"

Steps == {"idle", "handling", "reload", "count", "install", "install_rewrites"}
NoRules == [val |-> {}, at |-> 0]
NoRewrites == [val |-> [d \in {} |-> d], at |-> 0]
-----------------------------------------------------------------------------
(* new() runs one reload to its end before anything else starts. *)
Init == /\ custom_rules \in RuleTables
        /\ dns_rewrites \in RewriteTables
        /\ commits = <<View(custom_rules, dns_rewrites)>>
        /\ rules = [val |-> EnabledRules(custom_rules), at |-> 1]
        /\ rewrites = [val |-> RewriteMap(dns_rewrites), at |-> 1]
        /\ pc = [t \in Tasks |-> "idle"]
        /\ new_rules = [t \in Tasks |-> NoRules]
        /\ new_rewrites = [t \in Tasks |-> NoRewrites]
        /\ own = [t \in Tasks |-> 0]
        /\ abandoned = FALSE
        /\ regressed = FALSE

Goto(t, step) == pc' = [pc EXCEPT ![t] = step]

(* One committed statement or transaction of task t, which goes on to step. *)
Commit(t, R, W, step) ==
    /\ Now < MaxCommits
    /\ custom_rules' = R
    /\ dns_rewrites' = W
    /\ commits' = Append(commits, View(R, W))
    /\ own' = [own EXCEPT ![t] = Now + 1]
    /\ Goto(t, step)
    /\ UNCHANGED <<engine, new_rules, new_rewrites, abandoned, regressed>>

(* Any handler's write: before its reload, alone or followed by others. *)
Write(t) == /\ pc[t] \in {"idle", "handling"}
            /\ custom_rules' \in RuleTables
            /\ dns_rewrites' \in RewriteTables
            /\ \E step \in {"handling", "reload"} : Commit(t, custom_rules', dns_rewrites', step)

(* A handler that reads first, and one that reloads without having written. *)
Proceed(t, step) == /\ Goto(t, step)
                    /\ UNCHANGED <<tables, engine, new_rules, new_rewrites, history>>
Begin(t) == pc[t] = "idle" /\ Proceed(t, "handling")
StartReload(t) == pc[t] = "handling" /\ Proceed(t, "reload")

(* Fault: the SELECT has lost its WHERE. *)
FaultyReadRules(t) ==
    /\ pc[t] = "reload"
    /\ new_rules' = [new_rules EXCEPT ![t] = [val |-> {r.id : r \in custom_rules}, at |-> Now]]
    /\ Goto(t, "count")
    /\ UNCHANGED <<tables, engine, new_rewrites, history>>

(* SELECT rule FROM custom_rules WHERE is_enabled = 1 *)
ReadRules(t) ==
    /\ pc[t] = "reload"
    /\ new_rules' = [new_rules EXCEPT ![t] = [val |-> EnabledRules(custom_rules), at |-> Now]]
    /\ Goto(t, "count")
    /\ UNCHANGED <<tables, engine, new_rewrites, history>>

(* Fault: a reload keeps the rewrites the engine already has. *)
FaultyReadRewrites(t) ==
    /\ pc[t] = "count"
    /\ new_rewrites' = [new_rewrites EXCEPT ![t] = rewrites]
    /\ Goto(t, "install")
    /\ UNCHANGED <<tables, engine, new_rules, history>>

(* The count of the lists, whose only effect is that it may fail (Abandon),  *)
(* then SELECT domain, answer FROM dns_rewrites.                             *)
ReadRewrites(t) ==
    /\ pc[t] = "count"
    /\ new_rewrites' = [new_rewrites EXCEPT ![t] = [val |-> RewriteMap(dns_rewrites), at |-> Now]]
    /\ Goto(t, "install")
    /\ UNCHANGED <<tables, engine, new_rules, history>>

InstallRules(t) ==
    /\ pc[t] = "install"
    /\ rules' = new_rules[t]
    /\ regressed' = (regressed \/ new_rules[t].at < rules.at)
    /\ Goto(t, "install_rewrites")
    /\ UNCHANGED <<tables, rewrites, new_rules, new_rewrites, commits, own, abandoned>>

(* The last step of reload(); the handler answers its request. *)
InstallRewrites(t) ==
    /\ pc[t] = "install_rewrites"
    /\ rewrites' = new_rewrites[t]
    /\ regressed' = (regressed \/ new_rewrites[t].at < rewrites.at)
    /\ Goto(t, "idle")
    /\ new_rules' = [new_rules EXCEPT ![t] = NoRules]
    /\ new_rewrites' = [new_rewrites EXCEPT ![t] = NoRewrites]
    /\ own' = [own EXCEPT ![t] = 0]
    /\ UNCHANGED <<tables, rules, commits, abandoned>>

(* Task t ends where it is. *)
Leave(t) == /\ Goto(t, "idle")
            /\ new_rules' = [new_rules EXCEPT ![t] = NoRules]
            /\ new_rewrites' = [new_rewrites EXCEPT ![t] = NoRewrites]
            /\ own' = [own EXCEPT ![t] = 0]
            /\ abandoned' = (abandoned \/ own[t] # 0)
            /\ UNCHANGED <<tables, engine, commits, regressed>>

(* A handler or a background task that ends without a reload (404, 400, a failed sync). *)
Reject(t) == pc[t] = "handling" /\ Leave(t)

(* A ? on a failed query, or the handler's future dropped at an await because *)
(* the HTTP client went away: what is done stays done, the rest never happens. *)
Abandon(t) == MayAbandon /\ pc[t] # "idle" /\ Leave(t)

(* The process dies and starts again: main() builds a new engine. *)
Restart ==
    /\ rules' = [val |-> EnabledRules(custom_rules), at |-> Now]
    /\ rewrites' = [val |-> RewriteMap(dns_rewrites), at |-> Now]
    /\ pc' = [t \in Tasks |-> "idle"]
    /\ new_rules' = [t \in Tasks |-> NoRules]
    /\ new_rewrites' = [t \in Tasks |-> NoRewrites]
    /\ own' = [t \in Tasks |-> 0]
    /\ abandoned' = FALSE
    /\ regressed' = FALSE
    /\ UNCHANGED <<tables, commits>>

Reload(t) == ReadRules(t) \/ ReadRewrites(t) \/ InstallRules(t) \/ InstallRewrites(t)

Next == \/ \E t \in Tasks : \/ Write(t) \/ Begin(t) \/ StartReload(t)
                            \/ ReadRules(t) \/ ReadRewrites(t)
                            \/ InstallRules(t) \/ InstallRewrites(t)
                            \/ Reject(t) \/ Abandon(t)
        \/ Restart

Spec == Init /\ [][Next]_vars
-----------------------------------------------------------------------------
(* Every variable has its type. *)
RewriteMaps == UNION {[D -> Answers] : D \in SUBSET Domains}
ViewSet == [rules : SUBSET RuleIds, rewrites : RewriteMaps]
RuleCopies == [val : SUBSET RuleIds, at : Nat]
RewriteCopies == [val : RewriteMaps, at : Nat]

TypeOK ==
    /\ custom_rules \in RuleTables
    /\ dns_rewrites \in RewriteTables
    /\ rules \in RuleCopies
    /\ rewrites \in RewriteCopies
    /\ pc \in [Tasks -> Steps]
    /\ new_rules \in [Tasks -> RuleCopies]
    /\ new_rewrites \in [Tasks -> RewriteCopies]
    /\ commits \in Seq(ViewSet)
    /\ own \in [Tasks -> Nat]
    /\ abandoned \in BOOLEAN
    /\ regressed \in BOOLEAN

(* The engine never shows rules, nor rewrites, that the database did not hold *)
(* at some time: whatever fails or interleaves, reload() (filter.rs:27-94)    *)
(* installs what one of its SELECTs returned, or nothing.                     *)
ShowsCommitted ==
    /\ rules.at \in 1..Now /\ rules.val = commits[rules.at].rules
    /\ rewrites.at \in 1..Now /\ rewrites.val = commits[rewrites.at].rewrites

(* A task that wrote reloads what it wrote: the tables it is about to install *)
(* come from its own write or from a later state, and the rewrites are no     *)
(* older than the rules.                                                      *)
ReloadsOwnWrite ==
    \A t \in Tasks :
      /\ pc[t] \in {"count", "install"} => own[t] <= new_rules[t].at
      /\ pc[t] \in {"install", "install_rewrites"} =>
            /\ own[t] <= new_rewrites[t].at
            /\ new_rules[t].at <= new_rewrites[t].at

Fresh == /\ rules.val = EnabledRules(custom_rules)
         /\ rewrites.val = RewriteMap(dns_rewrites)

(* With no task under way the engine is what the database says, unless a task *)
(* that had written lost its reload, or a reload put an older table over a    *)
(* newer one: these two are the only ways the engine goes stale.              *)
RestsFresh == Idle /\ ~abandoned /\ ~regressed => Fresh

(* The engine implements its contract; a reload begins when it reads. *)
Contract == INSTANCE EngineContract
              WITH Views <- ViewSet, shown_rules <- rules.val, shown_rewrites <- rewrites.val,
                   since <- [t \in Tasks |-> new_rules[t].at]
ImplementsContract == Contract!Spec
=============================================================================
