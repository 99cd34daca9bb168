------------------------------ MODULE RuleAdmin ------------------------------
(* The handlers that administer rules and rewrites, api/handlers/rules.rs and *)
(* rewrites.rs, on top of the filter engine whose tables they write.  Each    *)
(* request is a task; a request refused before it touches the database        *)
(* changes nothing and has no action.                                         *)
EXTENDS FilterEngine

CONSTANTS Admin,   \* created_by of rules an administrator added
          Keep     \* a field a PATCH leaves out

ASSUME AdminAssumption == Admin \in Owners /\ Keep \notin Domains \union Answers

VARIABLE patch   \* per task: the row rewrites::update is about to write, or NoPatch

allVars == <<vars, patch>>
NoPatch == [id |-> Keep]
RowWithId(W, i) == CHOOSE r \in W : r.id = i
HasId(R, i) == \E r \in R : r.id = i

AdminInit == Init /\ patch = [t \in Tasks |-> NoPatch]

(* Fault: the handler answers without reloading. *)
FaultyCommitAndReload(t, R, W) == Commit(t, R, W, "idle") /\ UNCHANGED patch

CommitAndReload(t, R, W) == Commit(t, R, W, "reload") /\ UNCHANGED patch
-----------------------------------------------------------------------------
(* rules.rs: create; the id is a fresh UUID. *)
CreateRule(t, i) ==
    /\ pc[t] = "idle"
    /\ ~HasId(custom_rules, i)
    /\ CommitAndReload(t,
         custom_rules \union {[id |-> i, created_by |-> Admin, is_enabled |-> TRUE]}, dns_rewrites)

(* rules.rs: delete, which takes a subscription's rules too; 404 if none. *)
DeleteRule(t, i) ==
    /\ pc[t] = "idle"
    /\ HasId(custom_rules, i)
    /\ CommitAndReload(t, {r \in custom_rules : r.id # i}, dns_rewrites)

(* rules.rs: bulk_action, which leaves the rules of subscriptions alone and  *)
(* reloads even if no row matched.                                           *)
BulkActions == {"enable", "disable", "delete"}
Edited(hit, action) ==
    CASE action = "enable"  -> {[r EXCEPT !.is_enabled = TRUE] : r \in hit}
      [] action = "disable" -> {[r EXCEPT !.is_enabled = FALSE] : r \in hit}
      [] action = "delete"  -> {}
BulkAction(t, chosen, action) ==
    /\ pc[t] = "idle"
    /\ chosen # {}
    /\ LET hit == {r \in custom_rules : r.id \in chosen /\ r.created_by = Admin}
       IN  CommitAndReload(t, (custom_rules \ hit) \union Edited(hit, action), dns_rewrites)

(* rewrites.rs: create; the unique index on domain refuses a second answer. *)
CreateRewrite(t, i, d, a) ==
    /\ pc[t] = "idle"
    /\ ~HasId(dns_rewrites, i)
    /\ \A r \in dns_rewrites : r.domain # d
    /\ CommitAndReload(t, custom_rules,
         dns_rewrites \union {[id |-> i, domain |-> d, answer |-> a]})

(* rewrites.rs: update reads the row and fills in what the request leaves out, *)
FetchRewrite(t, i, d, a) ==
    /\ pc[t] = "idle"
    /\ HasId(dns_rewrites, i)
    /\ LET old == RowWithId(dns_rewrites, i)
       IN  patch' = [patch EXCEPT ![t] =
                       [id |-> i,
                        domain |-> IF d = Keep THEN old.domain ELSE d,
                        answer |-> IF a = Keep THEN old.answer ELSE a]]
    /\ Begin(t)

Clashes(W, row) == \E r \in W : r.id # row.id /\ r.domain = row.domain

(* Fault: INSERT OR REPLACE in place of UPDATE. *)
FaultyUpdateRewrite(t) ==
    /\ pc[t] = "handling"
    /\ ~Clashes(dns_rewrites, patch[t])
    /\ Commit(t, custom_rules, {r \in dns_rewrites : r.id # patch[t].id} \union {patch[t]}, "reload")
    /\ patch' = [patch EXCEPT ![t] = NoPatch]

UpdateRewrite(t) ==
    /\ pc[t] = "handling"
    /\ LET row == patch[t] IN
         /\ ~(HasId(dns_rewrites, row.id) /\ Clashes(dns_rewrites, row))
         /\ Commit(t, custom_rules, {IF r.id = row.id THEN row ELSE r : r \in dns_rewrites}, "reload")
    /\ patch' = [patch EXCEPT ![t] = NoPatch]

(* the unique index may refuse the new domain: 400, nothing written. *)
RefuseUpdate(t) ==
    /\ HasId(dns_rewrites, patch[t].id) /\ Clashes(dns_rewrites, patch[t])
    /\ Reject(t)
    /\ patch' = [patch EXCEPT ![t] = NoPatch]

DeleteRewrite(t, i) ==
    /\ pc[t] = "idle"
    /\ HasId(dns_rewrites, i)
    /\ CommitAndReload(t, custom_rules, {r \in dns_rewrites : r.id # i})

EndEarly(t) == Abandon(t) /\ patch' = [patch EXCEPT ![t] = NoPatch]
RestartServer == Restart /\ patch' = [t \in Tasks |-> NoPatch]
ReloadStep(t) == Reload(t) /\ UNCHANGED patch

AdminNext ==
    \/ \E t \in Tasks :
         \/ \E i \in RuleIds : CreateRule(t, i) \/ DeleteRule(t, i)
         \/ \E chosen \in SUBSET RuleIds, action \in BulkActions : BulkAction(t, chosen, action)
         \/ \E i \in RewriteIds, d \in Domains, a \in Answers : CreateRewrite(t, i, d, a)
         \/ \E i \in RewriteIds, d \in Domains \union {Keep}, a \in Answers \union {Keep} :
              FetchRewrite(t, i, d, a)
         \/ UpdateRewrite(t) \/ RefuseUpdate(t)
         \/ \E i \in RewriteIds : DeleteRewrite(t, i)
         \/ ReloadStep(t) \/ EndEarly(t)
    \/ RestartServer

AdminSpec == AdminInit /\ [][AdminNext]_allVars
(* A started request runs to its end. *)
AdminFairSpec == AdminSpec /\ \A t \in Tasks :
    WF_allVars(ReloadStep(t) \/ UpdateRewrite(t) \/ RefuseUpdate(t))
-----------------------------------------------------------------------------
AdminTypeOK == /\ TypeOK
               /\ patch \in [Tasks -> RewriteRow \union {NoPatch}]

(* Every handler step is one the engine is prepared for. *)
ImplementsEngine == Spec

(* A PATCH that began before a DELETE of the same rewrite writes after it: it *)
(* must not bring the row back (rewrites.rs:125-132 updates, never inserts).  *)
NoResurrection ==
    [][\A t \in Tasks : pc[t] = "handling" =>
         (pc'[t] # "handling" => {r.id : r \in dns_rewrites'} \subseteq {r.id : r \in dns_rewrites})
      ]_allVars

(* These handlers never stop between a write and its reload for good: a stale *)
(* engine becomes fresh by itself, unless a reload was lost or put an older   *)
(* table over a newer one.                                                    *)
Recovers == ~Fresh ~> Fresh \/ abandoned \/ regressed
=============================================================================
