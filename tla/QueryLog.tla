------------------------------ MODULE QueryLog ------------------------------
(* What happens to an answer once the handler has it: the counters of         *)
(* metrics.rs, the unbounded channel of dns/handler.rs log_query, and the     *)
(* batch writer of db/query_log_writer.rs, with failing transactions and a    *)
(* process that may be killed anywhere.  The handlers run on several threads: *)
(* each of their steps may interleave with those of the others.  Nothing      *)
(* closes the channel while the writer runs, so its last branch is not here.  *)
EXTENDS Naturals, Sequences, FiniteSets

CONSTANTS Answers,      \* answers, each one entry of the log
          BATCH_SIZE,
          MaxFailures,  \* bound: transactions that fail
          MaxRestarts   \* bound: how often the process is killed and restarted

ASSUME AnswersAssumption == IsFiniteSet(Answers)
ASSUME BatchAssumption == BATCH_SIZE \in Nat \ {0}
ASSUME BoundAssumption == MaxFailures \in Nat /\ MaxRestarts \in Nat

Status == {"blocked", "allowed", "cached"}

VARIABLES step,       \* per answer: how far its handler is
          status,     \* per answer: blocked, allowed or cached
          queries_total, queries,   \* metrics: all queries, and per status
          channel,    \* entries sent and not yet received
          batch,      \* the writer's batch
          tx,         \* the rows of the open transaction, or <<>>
          flushing,   \* whether the writer is in flush
          query_log,  \* the table
          failures, restarts,
          handed_over, lost   \* history: sent since the start; never to be in the table

metrics == <<queries_total, queries>>
answering == <<step, status, metrics>>
writer == <<batch, tx, flushing>>
bounds == <<failures, restarts>>
logVars == <<answering, channel, writer, query_log, bounds, handed_over, lost>>

Elements(s) == {s[i] : i \in DOMAIN s}

NoCount == [k \in Status |-> 0]
LogInit == /\ queries_total = 0 /\ queries = NoCount
           /\ channel = <<>> /\ batch = <<>> /\ tx = <<>> /\ flushing = FALSE
           /\ handed_over = 0
           /\ step = [a \in Answers |-> "handling"]
           /\ status \in [Answers -> Status]
           /\ query_log = <<>>
           /\ failures = 0 /\ restarts = 0 /\ lost = {}
-----------------------------------------------------------------------------
(* inc_blocked, inc_allowed, inc_cached: two separate atomic additions. *)
CountQuery(a) ==
    /\ step[a] = "handling"
    /\ step' = [step EXCEPT ![a] = "counted"]
    /\ queries_total' = queries_total + 1
    /\ UNCHANGED <<status, queries, channel, writer, query_log, bounds, handed_over, lost>>

\* Fault: a cached answer counts as allowed too.
FaultyCountStatus(a) ==
    /\ step[a] = "counted"
    /\ step' = [step EXCEPT ![a] = "classed"]
    /\ queries' = [k \in Status |->
         queries[k] + IF k = status[a] \/ (k = "allowed" /\ status[a] = "cached") THEN 1 ELSE 0]
    /\ UNCHANGED <<status, queries_total, channel, writer, query_log, bounds, handed_over, lost>>

CountStatus(a) ==
    /\ step[a] = "counted"
    /\ step' = [step EXCEPT ![a] = "classed"]
    /\ queries' = [queries EXCEPT ![status[a]] = @ + 1]
    /\ UNCHANGED <<status, queries_total, channel, writer, query_log, bounds, handed_over, lost>>

(* log_query: the send never waits. *)
LogQuery(a) ==
    /\ step[a] = "classed"
    /\ step' = [step EXCEPT ![a] = "answered"]
    /\ channel' = Append(channel, a)
    /\ handed_over' = handed_over + 1
    /\ UNCHANGED <<status, metrics, writer, query_log, bounds, lost>>

(* run: an entry joins the batch, and a full batch is flushed. *)
ReceiveEntry ==
    /\ ~flushing /\ channel # <<>>
    /\ channel' = Tail(channel)
    /\ batch' = Append(batch, Head(channel))
    /\ flushing' = (Len(batch) + 1 >= BATCH_SIZE)
    /\ UNCHANGED <<answering, tx, query_log, bounds, handed_over, lost>>

(* run: the ticker has ticked (every FLUSH_INTERVAL). *)
FaultyFlushTick ==   \* fault: waits for a full batch here too
    /\ ~flushing /\ Len(batch) >= BATCH_SIZE
    /\ flushing' = TRUE
    /\ UNCHANGED <<answering, channel, batch, tx, query_log, bounds, handed_over, lost>>

FlushTick ==
    /\ ~flushing /\ batch # <<>>
    /\ flushing' = TRUE
    /\ UNCHANGED <<answering, channel, batch, tx, query_log, bounds, handed_over, lost>>

\* Fault: the rows are written outside the transaction.
FaultyInsertRow ==
    /\ flushing /\ Len(tx) < Len(batch)
    /\ tx' = Append(tx, batch[Len(tx) + 1])
    /\ query_log' = Append(query_log, batch[Len(tx) + 1])
    /\ UNCHANGED <<answering, channel, batch, flushing, bounds, handed_over, lost>>

(* write_batch: row after row into the open transaction, *)
InsertRow ==
    /\ flushing /\ Len(tx) < Len(batch)
    /\ tx' = Append(tx, batch[Len(tx) + 1])
    /\ UNCHANGED <<answering, channel, batch, flushing, query_log, bounds, handed_over, lost>>

(* flush: whatever became of the batch, it is cleared. *)
Clear == batch' = <<>> /\ tx' = <<>> /\ flushing' = FALSE
Commit ==
    /\ flushing /\ Len(tx) = Len(batch)
    /\ query_log' = query_log \o tx
    /\ Clear
    /\ UNCHANGED <<answering, channel, bounds, handed_over, lost>>
WriteFails ==
    /\ flushing
    /\ failures < MaxFailures /\ failures' = failures + 1
    /\ lost' = lost \union Elements(batch)
    /\ Clear
    /\ UNCHANGED <<answering, channel, query_log, restarts, handed_over>>

(* The process is killed and started again: what is in memory is gone.  An    *)
(* answer that was under way is never finished; a later query is another one. *)
Restart ==
    /\ restarts < MaxRestarts /\ restarts' = restarts + 1
    /\ queries_total' = 0 /\ queries' = NoCount /\ handed_over' = 0
    /\ channel' = <<>> /\ Clear
    /\ \E unstarted \in SUBSET {a \in Answers : step[a] = "handling"} :
         step' = [a \in Answers |-> IF a \in unstarted THEN "handling"
                                    ELSE IF step[a] = "answered" THEN "answered" ELSE "gone"]
    /\ lost' = lost \union Elements(batch \o channel)
    /\ UNCHANGED <<status, query_log, failures>>

LogNext == \/ \E a \in Answers : CountQuery(a) \/ CountStatus(a) \/ LogQuery(a)
           \/ ReceiveEntry \/ FlushTick \/ InsertRow \/ Commit \/ WriteFails
           \/ Restart

LogSpec == LogInit /\ [][LogNext]_logVars

(* Tokio runs the writer's task when it can run, and the ticker keeps ticking. *)
FairSpec == /\ LogSpec
            /\ WF_logVars(ReceiveEntry) /\ WF_logVars(FlushTick)
            /\ WF_logVars(InsertRow) /\ WF_logVars(Commit)
-----------------------------------------------------------------------------
(* The counters and the log tell the same story at any moment: the total is   *)
(* ahead of the statuses by the answers between the two additions, no more,   *)
(* and these ahead of the entries handed to the writer since the start by     *)
(* those before their send (metrics.rs:13-26, handler.rs:139-140, 155-156).   *)
Between(k) == Cardinality({a \in Answers : step[a] = k})
CountersAgree ==
    LET classed == queries["blocked"] + queries["allowed"] + queries["cached"]
    IN  /\ queries_total = classed + Between("counted")
        /\ classed = handed_over + Between("classed")

(* An answer is in exactly one place once it is handed over: waiting, in the  *)
(* table (once), or lost to a failed batch or a crash.                        *)
Waiting == batch \o channel
(* The writer keeps the contract: whole batches, in order, once.              *)
Contract == INSTANCE LogContract
              WITH Entry <- Answers, MaxBatch <- BATCH_SIZE, table <- query_log, waiting <- Waiting
ImplementsLog == Contract!Spec

(* Without waiting for a batch to fill, every entry reaches the table in the  *)
(* end, or was lost to a failure (query_log_writer.rs:62-66).                 *)
Settles ==
    \A a \in Answers :
      step[a] = "answered" ~> (a \in Elements(query_log) \/ a \in lost)
=============================================================================
