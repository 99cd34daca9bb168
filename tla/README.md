# Ent-DNS: a TLA+ model

Ent-DNS is a filtering DNS server (`projects/ent-dns/src`, Rust) with an
administration API and a web console (`projects/ent-dns/frontend/src`,
TypeScript). This directory models the parts whose correctness depends on what
runs at the same time, what fails and in which order things happen; TLC checks
the models on small instances, TLAPS proves the most important results for every
size.

Paths below are relative to `projects/ent-dns/src/` (Rust) or
`projects/ent-dns/frontend/src/` (TypeScript) unless they begin with `projects/`.

## 1. Inventory

The server is one Tokio process. DNS queries (UDP, TCP, and HTTPS through the
API), API requests and three background loops are tasks that interleave at every
`.await`; they share an SQLite database (a pool of connections, one statement or
one explicit transaction at a time), the in-memory filter engine, two caches, a
few counters and channels. An API handler's future is dropped where it waits
when its client disconnects; a spawned task is not. A handler that fails answers
an error and leaves what it has already written. Nothing but the database
survives a restart.

The console is one page per route over one query cache (React Query). A page
that is left loses its component state; its requests, and the callbacks that
touch the query cache, live on. Requests are answered in any order.

| Component | State | Operations | Hard behaviour | Correct when |
|---|---|---|---|---|
| **Filter engine** `dns/filter.rs` | in-memory rules and rewrites, each behind its own RwLock | `new`, `reload`, `is_blocked`, `check_rewrite` | reloads overlap; reload = two SELECTs and two installs with awaits between; an error or a disconnect cuts it short | it shows only what the database held; a task that wrote reloads its own write; at rest it is what the database says, up to lost and overtaken reloads |
| **Rule and rewrite administration** `api/handlers/{rules,rewrites}.rs` | tables `custom_rules`, `dns_rewrites` | create, delete, bulk, PATCH; each ends in `reload` | PATCH reads, then writes; unique domain | keys stay keys; a deleted row does not come back; each change reaches the engine |
| **Filter lists** `api/handlers/filters.rs`, `dns/subscription.rs` | table `filter_lists`; its rules are rows of `custom_rules` marked `filter:<id>` | create, update, delete, refresh; background sync: download, transaction, stamp; hourly refresh | sync overlaps deletion or another sync; crash in mid-sync; refused INSERTs; failed stamp | a list loses rules only all at once, to its deletion or a sync's COMMIT; other rules are untouched; rules outlive their list only in a race |
| **Answer path** `dns/handler.rs`, `dns/cache.rs`, `dns/resolver.rs` | cache of client configurations (60 s), cache of responses (by question, TTL clamped) | `handle`: configuration, rewrite, filter, cache, upstream | stale configurations, concurrent misses, a change in the middle of a two-statement read, failed reads that are cached | blocked names are not answered from the cache; a change takes effect within 60 s; nothing is served past the maximal TTL |
| **Query log and metrics** `db/query_log_writer.rs`, `metrics.rs` | channel, batch, table `query_log`, counters | send, receive, flush (full batch or tick), transaction | failing transaction, crash between steps | every answer logged once, in order, in whole batches, or lost to a failure; counters agree with the log |
| **Accounts and tokens** `api/handlers/users.rs`, `db/mod.rs`, `auth/*`, `api/middleware/*` | table `users`, JWTs held by clients | seed, log in, create, change role | check and write in separate statements; token role is the one at login | a role changes only by an update; a super administrator remains unless two role changes race |
| **Login, logout, passwords** `api/handlers/auth.rs` | failures and window per address, password, tokens | log in, change password, log out | requests between check and record overlap; window ends meanwhile | the limit holds up to the overlap, a lock ends |
| **Client groups** `api/handlers/client_groups.rs` | `client_groups`, memberships, rule bindings | create, delete, batch add / remove / move / bind / unbind | three-statement delete, batches that break off, invalidation of another cache | no row outlives its group but in a race, new groups are empty |
| **Live feed** `api/handlers/ws.rs`, `hooks/useQueryLogWebSocket.ts` | tickets (single use, 30 s), broadcast channel of 256, the page's socket and list | issue, connect, receive, skip, reconnect | ticket races, lagging receivers, a page left while it fetches a ticket | a ticket admits one socket; the page holds one; a lagging feed goes on and loses nothing else |
| **List pages** `pages/{Filters,Rewrites,Clients,Users,Upstreams}.tsx`, `App.tsx` | query cache, selection, dialogs, forms, timers; mutations in flight | load, create, edit, switch, delete, batch, refresh, poll | answers against loads under way, pages left, batches that fail in part, background syncs | no list settles on rows from before a write of its own; a failed batch keeps its rows selected; a sync's result is shown |
| **Settings page** `pages/Settings.tsx`, `api/handlers/{settings,upstreams}.rs` | form, dialog, tables `settings`, `dns_upstreams` | load, edit, save, upstream create / edit / delete / test / failover | five statements without a transaction, dialogs that stay open, read-then-write update | what is saved is what was typed; edits are lost to news only, or to a default that stands in for a failed read; no row is saved over another |
| **Paged pages** `pages/{Rules,QueryLogs}.tsx` | a query per search and page, selection, applied filters | search, turn pages, bulk actions, apply filters, poll | the answer to a bulk action meets loads of several keys | no page passes for fresh with rows from before a write; a delete is sent for the rows asked about; the log gets shown |
| **Sessions** `stores/authStore.ts`, `api/client.ts`, `pages/{Login,ChangePassword}.tsx`, `components/ProtectedRoute.tsx` | a store per tab, one localStorage | log in, change the password, log out, reload, 401 | two tabs share storage; late answers | the login limit holds; the default password must be changed first |
| **Rule language** `dns/rules.rs` | two hash sets, allow rules, patterns | `add_rule`, `is_blocked` | precedence, subdomains | not modelled, see 7 |
| **Retention** `main.rs` | configuration file | daily rotation | dates compared as text; first tick skipped | not modelled, see 7 |
| **Query log templates, dashboard, audit, backup, health, ACL, landing page** | tables of their own, or none | reads, single statements | none | not modelled, see 7 |

How they interact: the administration and list handlers write tables and then
*call* `reload` on the engine; the answer path *reads* the engine at each query;
the client and group handlers write tables that the answer path *caches*; the
answer path *sends* log entries to the writer over an unbounded channel and
*broadcasts* them to the live feed; `create` and `refresh` of a list *spawn* the
sync, which writes the rules of the engine's tables. Two in-memory caches look
alike: `AppState.client_config_cache` (`api/mod.rs`), which the group handlers
invalidate and nothing fills, and the handler's own, which queries use. The
console *asks* the handlers and keeps what they answered in its query cache,
which the callback of a mutation *invalidates*; one tab's store reaches the
others through localStorage, when they are loaded again.

`PROJECT.json` lists every component with its files, and under `hazards` the
places in the code where these behaviours bite, with the properties about them.

## 2. Modules

```
EngineContract <--refines-- FilterEngine <--refines-- RuleAdmin
                                 ^       <--refines-- ListSync
                                 |  (abstracted to: the verdicts change)
                            DnsHandler ------ (each answer) ------> QueryLog --refines--> LogContract
                                 |  (abstracted to: client rows, group rules)   \
                            ClientGroups                                      LiveFeed
Accounts      LoginAttempts <--refines-- Session

ListPage <- FiltersPage, RewritesPage, ClientsPage, UsersPage, UpstreamsPage <- Console
SettingsForm <- SettingsUpstreams <- SettingsPage
PagedQuery <- RulesPage, QueryLogsPage <- PagedPages          ( A <- B: B extends A )
```

| Module | Code | State and actions |
|---|---|---|
| `EngineContract` | promises of `dns/filter.rs` | a sequence of database states and what is shown; `Change`, `Ask`, `ShowRules`, `ShowRewrites`, `GiveUp`, `Rebuild` |
| `FilterEngine` | `dns/filter.rs` | the tables, the engine's tables, per task the point of `reload` and its local tables. `Write` is *any* handler; `ReadRules`, `ReadRewrites`, `InstallRules`, `InstallRewrites` are the stretches between two awaits; `Reject`, `Abandon`, `Restart` |
| `RuleAdmin` | `rules.rs`, `rewrites.rs` | extends the engine; one action per statement of each handler. PATCH is `FetchRewrite`, then `UpdateRewrite` or `RefuseUpdate` |
| `ListSync` | `filters.rs`, `subscription.rs`, `main.rs:44-89` | extends the engine; create, refresh, update (a read and a write), delete in two statements; the sync as fetch, an INSERT per rule, commit and stamp, or failure |
| `DnsHandler` | `handler.rs`, `cache.rs`, `resolver.rs` | per query the step of `handle` and what it carries; both caches; a clock; administrators' changes as steps of their own, each for any set of addresses at once |
| `QueryLog`, `LogContract` | `query_log_writer.rs`, `metrics.rs`, the ends of `handle` | counting and sending an answer; the writer's loop; transaction row by row; `WriteFails`, `Restart` |
| `Accounts` | `users.rs`, `db/mod.rs:55-80`, `auth.rs`, `jwt.rs`, `rbac.rs` | roles, tokens, requests between their statements |
| `LoginAttempts` | `auth.rs:12-64, 105-135` | one address's entry: failures, age of the window |
| `ClientGroups` | `client_groups.rs` | groups, memberships, bindings, batches item by item |
| `LiveFeed` | `ws.rs`, `useQueryLogWebSocket.ts`, `handler.rs:378-396` | every attempt of the page with its ticket and both ends of its socket; the channel's last events; the list on show; `Mount`, `LeaveFeed`, `Retry`, `Handshake`, `HandshakeAgain` (a replay), `Lagged`, `Restart` |
| `ListPage` | `App.tsx`, what the five list pages share | the server's rows, the query cache, the mounted page, the mutations in flight; loads, focus refetches, sending, the handler, the answer and its callbacks, leaving and entering |
| `FiltersPage` … `UpstreamsPage`, `Console` | the page of that name | its dialogs, forms, selection, batches, timers and polls; `Console` composes the five over one cache |
| `SettingsForm`, `SettingsUpstreams`, `SettingsPage` | `Settings.tsx`, `settings.rs`, `upstreams.rs` | the form and its effect on `[settings]`; `update_dns` statement by statement; the upstreams' dialog, `update` as a read and a write, test and failover |
| `PagedQuery`, `RulesPage`, `QueryLogsPage`, `PagedPages` | `Rules.tsx`, `QueryLogs.tsx` | a cache entry per search and page; debounced search, placeholder rows, selection and bulk actions; filters that are applied by a button, the poll |
| `Session` | `authStore.ts`, `client.ts`, `Login.tsx`, `ChangePassword.tsx`, `ProtectedRoute.tsx`, `auth.rs` | tabs with a store each, localStorage, requests and their answers, the server's password and tokens; extends `LoginAttempts`, a tab being one of its requests |
| `…Proofs` | | theorems about the module of that name; `EngineProofs` about `FilterEngine`, `RuleAdmin` and `ListSync`, `AnswerProofs` about `DnsHandler` and `QueryLog`, `PagesProofs` about `LiveFeed` and `PagedPages`, `SessionProofs` about `LoginAttempts` too, `SettingsProofs` about `SettingsPage` |
| `MC…` | | model values and small sets for TLC |

The abstraction is the same everywhere. Control is kept: each action is the
stretch of one handler or callback from one await to the next, with its early
returns, error paths and its effect on every modelled variable. Data is reduced
to what properties tell apart: a rule is its row id, a name or an address a model
value, a download any subset of what the list offers, a verdict membership in a
set, a row of a list page one body and one switch.

*History variables and flags* record what no code stores and only properties
read: `commits`, `own`, `abandoned`, `regressed` (FilterEngine), `overlapped`
(ListSync), `raced` (Accounts, ClientGroups), `version`, `settled_at`,
`straddling`, `held` (DnsHandler), `handed_over`, `lost` (QueryLog), and their
like in the console's modules. They name the exception to a guarantee exactly:
the properties say that the race they record is the *only* way to lose the
guarantee. Each flag is set at the step at which the race happens and not at the
step that suffers from it.

Operators called `Faulty…` are plausible wrong versions of the definition after
them. No specification uses them; each is there so that one can see that a
property fails when the code has that fault.

### Taken from outside the repository

* *SQLite*: one statement, or one transaction, is atomic and durable; a unique
  index refuses a second row; `AUTOINCREMENT` never reuses an id; any statement
  may fail, and one that fails leaves the transaction it is in open.
* *moka*: an expiry policy that implements `expire_after_create` only keeps the
  expiry of a live entry when its value is replaced (`Expiry` in `DnsHandler`);
  an entry is gone at its expiry.
* *Axum/hyper*: a request's future may be dropped at any await.
* *Tokio*: a task that can run is run in the end; `broadcast` keeps the last
  events and tells a receiver that fell behind; the other channels keep the order.
* *React Query*: `invalidateQueries` marks entries stale and refetches the ones
  on show; it cancels a refetch under way only if the entry already has data and
  somebody looks at it; an observer's own callbacks are dropped when it unmounts,
  those given to `useMutation` are not.
* *React*: effects run once per mount (the production build; `StrictMode` runs
  them twice in development only).

## 3. Runs

Each run answers one question. `PROJECT.json` gives for each property of a run a
fault (`mutants`) that makes TLC report it.

| Run | Instance | What it shows |
|---|---|---|
| `admin` | 2 requests, 1 rule of either owner, 2 rewrites on 2 domains, 3 database states, everything may be abandoned | the handlers use the engine as it expects (`ImplementsEngine`); only committed tables are shown (`ShowsCommitted`); who wrote reloads that or later (`ReloadsOwnWrite`); at rest only a lost or overtaken reload leaves the engine stale (`RestsFresh`) and otherwise it becomes fresh by itself (`Recovers`); together they implement `EngineContract`; a PATCH never brings back a deleted rewrite (`NoResurrection`) |
| `lists` | 2 tasks on 1 list offering 1 rule, 1 rule of an administrator, 3 database states, 1 failed sync or refused INSERT | the list handlers use the engine as it expects; only work on a list changes its rules (`OthersUntouched`); a list loses rules only all at once, by its deletion or by a COMMIT that leaves what its URL served less the refused INSERTs (`ReplacedWhole`); rules without a list arise only from overlapping work (`NoOrphans`) |
| `dns` | 2 queries, 1 client, 1 question, clock to 3, 1 change | a blocked name is not answered from cache or upstream (`BlockedDespiteCache`); a cached configuration that is current is right (`CurrentConfigRight`), one that is not ends within `CLIENT_CACHE_TTL` of the change or of the last lookup the change met (`StaleConfigExpires`); nothing is served past `TTL_MAX` (`ServedWithinMax`) |
| `log` | 3 answers, batches of 2, 1 failed transaction, 1 restart | at any moment the counters and the log differ by exactly the answers between two steps (`CountersAgree`); the writer implements `LogContract`; each entry is settled (`Settles`) |
| `accounts` | 2 requests, 2 names, 1 restart | the last super administrator is lost only to a race (`LostOnlyInRace`) |
| `groups` | 2 requests, 2 clients, 1 rule, 2 groups | rows outlive their group only in a race (`NoOrphans`), and new groups are empty all the same (`NewGroupEmpty`) |
| `console` | all 5 list pages, 2 rows each, 2 events (mutations, at most 1 page change, reload or refetch on focus), 1 poll | a list not marked stale is as new as the last answered write (`OwnWritesShown`); a failed batch keeps its selection (`KeptOnFailure`) |
| `filters` | the filter page and one other, 1 mutation, 1 page change, 1 failing load or change by another administrator, 1 poll | while a timer is left, the result of a background sync gets shown (`SyncShown`) |
| `settings` | 2 settings, 3 values of which one is refused, 1 upstream and a new one, 4 events (saves, faults, reloads, visits, another administrator's saves) | a save alone has at any moment, also when refused or broken off, changed what it went through and nothing else (`StoredAsSaved`); edits are lost only to news or to a default answered for a failed SELECT (`EditsKept`); no upstream is saved over another (`SavesTheRowOpened`) or comes back (`NoReturn`) |
| `session` | 2 tabs, limit 2, window 2, 2 tokens, 6 acts (requests, reloads, expiries) | the login limit holds up to the overlap (`LimitHolds`), a lock ends (`LockEnds`); a tab not reloaded shows no protected page before the default password is changed (`ForcedChange`) |
| `feed` | channel of 2 events, list of 2 entries, 3 events, the page opened twice, 2 faults (refused or replayed tickets, lost sockets, restarts) | one socket per ticket (`TicketOnce`) and per page (`OneSocket`); the list is the newest first (`NewestFirst`) and lacks only what was skipped, trimmed, cleared or is under way (`NothingElseLost`); a page reconnects or says so (`ConnectsOrSays`) |
| `paged` | the two paged pages, 2 rows on pages of 1, 1 search word, 2 events (writes, failed loads, rows of somebody else, pages left) | no key passes for fresh with rows from before an answered write (`OwnBulkShown`); a delete is for the rows its dialog was opened for (`DeletesAsAsked`); the log gets shown (`LogShown`) |

### Bounds, and why they are enough

* *Two tasks, requests, queries or tabs* are what every race in this code needs:
  one that has read and one that writes meanwhile. The theorems of section 5 hold
  for any number.
* *Three database states* (`MaxCommits`): the initial one, the one an early
  reload reads and the one a later reload reads; a third writer would only
  repeat the second.
* *One rule, two rewrites*: the engine replaces tables whole, so how many rows
  they have does not matter; two rewrites and two domains are needed for the
  unique index to refuse something. In `lists` the second rule is the
  administrator's, which a sync must leave alone.
* *Clock to 3 with TTLs of 1 and 2*: an entry can be created, be replaced while
  it lives, expire and be created again; a TTL above the ceiling is offered so
  that the clamp works. Only comparisons of times matter, so small numbers stand
  for 60 s and for 1 s to 1 day.
* *One failure, one restart* fall at any point of any task; two would need a
  state that survives the first, and nothing does but the database.
* *Batches of 2 of 3 answers*: one full batch, one that only the tick writes.
* *Limit 2, window 2*: a request can be under way across the limit and across the
  end of a window.
* *2 groups*: the second is created after the first was deleted, which is where
  an id could be used again. *2 clients*: a batch breaks off between two items.
* *Console*: `MaxEvents` bounds what is sent, left and fails, not what is typed and clicked: 2 is
  one write and another that overtakes it, or one and the page left; `MaxVisits` 1 leaves a page for another, reloads or refetches on focus
  once; a load that fails and a row changed by somebody else (`MaxFaults`) are for
  the run about one page, `filters`.
* *Channel of 2, list of 2, 3 events*: the channel overwrites, a receiver lags,
  and the list is trimmed.

`Restart` is always possible except where a bound is named. `DnsHandler` has
none: a restart only empties its caches, which expiry does as well. Symmetry is
used for interchangeable tasks, clients and rules, only in runs without liveness
properties. `CHECK_DEADLOCK FALSE` is set where the bounded system may stop: the
log when all answers are written, the console, the paged pages, the feed, the
session and the settings when the user has done all that the bounds allow.

## 4. Fairness

| Specification | Assumed | Because |
|---|---|---|
| `AdminFairSpec` (RuleAdmin) | a request that has begun, and its reload, continue | Tokio polls every runnable task; a database that fails is `EndEarly` |
| `FairSpec` (QueryLog) | the writer's task runs, its ticker ticks | it is spawned once and never ends; handlers of answers need no fairness |
| `FairSpec` (Console) | a request that was sent is handled and answered, a load comes back or fails, the poll's timer fires | the server answers every request or the connection breaks, which is an answer too; timers fire |
| `FairFeed` (LiveFeed) | the retry timer fires, an attempt under way goes on | the same, and the browser reports what became of a socket |
| `FairSpec` (PagedPages) | the refetch interval fires, a load is read and comes back | the same |
| `SessionFairSpec` (Session) | time passes, a request is answered | nobody has to log in |

Nothing assumes that a client sends a request, that a request succeeds or that
anyone repeats it.

## 5. Proofs

`EngineProofs` has three parts, for any number of tasks, rows and database states.
*Engine*: `Typing`, `OnlyCommittedShown`, `OwnWriteReloaded`, `FreshAtRest` and the
refinement `EngineImplementsContract`. `RestsFresh` says nothing of the states
between, so it is not inductive. The invariant `IInv` adds: the last recorded
state is the database (`RecordsNow`); what a reload holds in its local tables is
a recorded state (`HoldsCommitted`); the state a task remembers as its own exists
(`OwnExists`); and `NewestOrAwaited`: unless a reload was lost or overtaken, each
table shown is the newest one *or some task that wrote the newest state has not
yet installed it*. At rest no such task exists. Each action has a lemma `…IInv`;
the delicate one is `InstallRules`: the task that installs either wrote the
newest state, and by `ReloadsOwnWrite` its local table is at least that new, or
someone else is still awaited, or the table shown was the newest and, not being
overtaken, stays so. For the refinement, `since[t]` is the age of the local
rules: what is installed is a state between `since[t]` and now.
*Administration*: `AdminTyping`, `UpdatesNeverInsert` (`NoResurrection`) and
`AdminImplementsEngine`: every handler step is a step of `FilterEngine`. By it
the handlers inherit what is proved of the engine, as `AdminFreshAtRest` shows.
The refinement needs that tables stay keyed under every edit, and `PatchReady`: a
task that is about to write a rewrite holds a complete row of the right type.
*Lists*: `ListsUseTheEngine` is the same refinement for the list handlers and the
syncs, so `ListsFreshAtRest` needs no second proof. `NoOrphanedRules`,
`OnlyOwnRulesTouched` and `ListsReplacedWhole` follow from `ListInvariance`. It says
what a request may rely on between its statements as long as no two tasks work on
one list: a sync that is going to store rules still has its list (`Undisturbed`),
and the rules of lists and of administrators stay apart (`KeptApart`).

`AnswerProofs` has two parts. *The log*: `CountersAlwaysAgree` for any finite set of
answers and `LogImplemented`, the refinement of `LogContract`, for every batch size.
The first rests on counting: the total runs ahead of the statuses by the answers between
their two additions, and these ahead of the channel by those between the second
and the send (`CountInv`). The second needs `BatchInv`: the open transaction holds
the first rows of the batch, and only a batch that is not empty is flushed; then
the batch and the channel one after the other are what the contract has waiting.
*The answer path*: all four properties, for any number of queries, clients and
questions, any TTLs and any length of time. `AnswerInv`
follows what a query may rely on (`ReliesOn`): a question marked as held is blocked
now, and one past the filter is not one the engine had to block, so neither the
cache nor an upstream can answer it; `Ages` bounds every entry by the time it was
fetched, not by the time it was replaced, which gives `NothingTooOld`. `ConfigInv`
gives `CurrentConfigAlwaysRight` and `ConfigExpires`: a lookup under way holds the
current settings or an older version (`Reads`), and in the second case its query
is among those that a change has met, so that what it caches in the end is counted
from that moment.

`AccountsProofs` proves `LostOnlyInRaceHolds`, `RolesOnlyUpdated` and `Typing` for
any finite set of users. That a super administrator remains is not inductive: a
request that has counted may demote the last one. The invariant adds
`AnotherRemains`: unless a role was written while another request was about to
write one, a request about to demote a super administrator leaves another, and
`TargetExists`, so that an INSERT, which adds names only, cannot make the target
of a waiting request a super administrator.

`SessionProofs` first proves `Typing` and `LimitAlwaysHolds` of `LoginAttempts` for
any finite number of requests and any limit; the invariant needed besides is that
an absent entry counts 0. It carries this over to browsers: `SessionsUseTheCounter`
shows that whatever tabs, reloads, logouts and restarts do, the counter only sees
the steps of `LoginAttempts`, hence `SessionLimitHolds`; `SessionTyping` and
`ForcedChangeHolds` follow from `SInv`, which says that a tab that was not
reloaded, and a login whose answer is under way, know of the default password as
long as it is in place.

`ClientGroupsProofs` proves `NoRowsOutlive` and `NewGroupsEmpty` for any number of
requests, clients, rules and groups. `NoOrphans` is not inductive: the invariant
`GInv` adds what a request relies on between its statements (`Relies`: one that
fills a group found it there, one that deletes it has already taken its members
and bindings) and that no two requests fill and delete one group, or `raced` is
set. That no row names an id not yet given out makes new groups empty even then.

`PagesProofs` has two parts. *The feed*: all its safety properties for any number of
attempts, events and restarts and any capacity. `TicketUsedOnce` and
`OneSocketOnly` rest on `FeedInv`, which says which attempts may have a socket in
the browser: only the one the page points at, or the one of the mount on show that
is asking for its ticket; and a ticket out of use never comes back.
`ShowsNewestFirst` and `LosesNothingElse` rest on `ListInOrder`. `NewestFirst` is
not inductive: an event may be pushed on the list only because what is on the
wire is in order and above the list, and what the server reads next is above the
wire (`Ahead`). `Covered` accounts for each event since the subscription: it is on
the wire, counted as missed, on the list, cleared, or pushed out by `MaxEntries`
newer ones; and what the channel no longer holds for a reader is already counted.
*The paged pages*: `FreshAfterBulk` and `DeletesWhatWasAsked`, for any rows, search
words and page size and any number of writes, faults and other people's rows.
`OwnBulkShown` speaks of the cache only, so it is not inductive: what fills the
cache is a request, and a request reads before it is answered. `Dated` says of every
entry of every search and page that it is marked stale, or may be overtaken (a
request nobody cancels was under way when it was invalidated), or is as new as the
last answered write; and the same of every request under way, from the moment it
has read the rows. `Asks` says that the selection behind an open dialog is the one
it was opened for, or already emptied, through every answer, poll and change of page
meanwhile.

`SettingsProofs` proves the four safety properties of the settings page, for any
settings, values and upstreams and any number of saves, loads and administrators.
`StoredAsSaved` (theorem `SaveIsStored`) needs that a save that is alone is the only
one; `FormInv` adds to `EditsKept` what the versions mean: a load dated now has
read the table as it is so far, and data dated now *is* the table, while what holds
a default for a failed SELECT has no date. So an effect that finds other data than
it had has met a store in between, or such a default before or now. `DialogInv` says that a dialog open for a row
was filled from that row, whatever is answered or closed in between.

`ConsoleProofs` proves `WritesAreShown` and `FailureKeepsSelection` for the five list
pages over one cache, for any rows and any number of mutations, visits, polls and
faults. The invariant `ConsoleInv` is that of the paged pages, list by list: the
requests under way and the lists they filled are dated (`Reads`, `Current`), and
the version a mutation carries is one the server has reached (`Sound`), so that an
answer never acknowledges more than a load that starts then can read. A mutation
invalidates the list of its own page, which is why the five share the argument:
`Kept`, `InvalidatedInv` and a few more say once what a step does to the lists, and
each page's lemmas show which of them its actions are. For the selection, `Sound`
also says that what is still to do of a batch and what has succeeded are disjoint.

Assumptions are the named `ASSUME`s of the modules, no other.

Every invariant and action property of section 3 is a theorem. Only
model-checked is what needs fairness: `Recovers`, `Settles`, `LockEnds`,
`SyncShown`, `ConnectsOrSays` and `LogShown`.
Liveness and `ENABLED` are beyond the prover used here (TLAPS 1.4.5), and so is
induction over recursive data; no module uses `RECURSIVE`.

## 6. Where the code and its documentation disagree, and what else was seen

In the server:

* **No list is ever refreshed by itself.** `main.rs:44` announces an hourly
  refresh of due lists; `main.rs:56` selects `update_interval_hours`, a column no
  migration creates: every hour the query fails and the loop goes on.
* **Clients share responses.** `projects/ent-dns/README.md:20` promises upstreams
  per client; `cache.rs:48` keys by name and type, and the cache is read before
  the upstream is chosen (`handler.rs:146`).
* **The last super administrator can be demoted** against `users.rs:152`: two
  requests count two, each demotes one (144-148, 159). `LostOnlyInRace` shows that
  this is the only way.
* **A change of group rules is not seen at once** against `client_groups.rs:771`:
  the handlers invalidate `AppState.client_config_cache`, queries use the
  handler's own (`handler.rs:46, 200`). It is seen within 60 s.
* A reload that read first may install last (`rewrites.rs:171` promises "stops
  taking effect immediately"): the exception `regressed`.
* A list created or switched to disabled is synced and applied all the same:
  `reload` never reads `is_enabled` (`filters.rs:91`, `filter.rs:32`, against
  `Filters.tsx:299`).
* A sync passes over an INSERT that fails and commits the others
  (`subscription.rs:201-203, 219-221`): a list can end with fewer rules than its
  URL served, or none, and the sync says it succeeded. The transaction of
  `subscription.rs:174` protects from a crash, as it says, and not from this.
* A response may outlive its own TTL: replacing a live entry keeps its expiry
  (against `cache.rs:21`). It does not outlive the ceiling.
* Rows of a group may outlive it if it is filled while it is being deleted: the
  exception `raced`. `docs/interaction/client-groups-database.md:224-225` (from the
  repository's root) promises the cascade without exception.
* `batch_move` removes a membership before it looks for the target; an unbind
  without `rule_type` means a type no binding has.
* The update of an upstream reads and writes in two statements: it answers 200
  for a row deleted meanwhile, and can undo another's `is_active`.
  `trigger_failover` only writes a log row; nothing updates `health_status`.
* The retention of the settings page is stored (`settings.rs:92`) and never read;
  the rotation compares a date with a `T` to one with a space (`main.rs:112`,
  `dashboard.rs:15`) and waits 24 h from each start (`main.rs:100`);
  `resolver.rs:27` ignores the configured upstreams; comments in `rules.rs` (9, 46)
  promise `*.domain` and `@@domain` forms that the parser treats otherwise;
  updating a template writes `is_public` as text (`query_log_templates.rs:194`).

In the console:

* The edit dialogs of Filters (171), Rewrites (143), Clients (57), Users (150) and
  Upstreams (51) fill their form once, at the mount of the page, and so show the
  row of an earlier visit; that of Settings does it right.
* A dialog can be closed while its save is pending; the late success then closes
  or empties whatever dialog is open.
* An `invalidateQueries` during the first load of a list, or after its page was
  left with a load under way, cancels nothing: the old rows pass for fresh. This
  is the exception in `OwnWritesShown` and `OwnBulkShown`.
* Rules: the emptied last page has no pager; the selection survives paging and
  searching; `handleSelectAll` compares sizes; a bulk success clears the selection
  as it is by then.
* Filters: a "local" list is sent with the URL "" and synced.
* Settings: unsaved edits are lost when a load brings news, also the load after a
  save of what was typed before; a refused save leaves the settings before the
  refused one stored, and nothing is fetched again. A SELECT of `get_dns` that
  fails is answered with a default and 200 (`settings.rs:26-49`): the form takes
  it for what is stored, it replaces unsaved edits, and the next save stores it.
* Client groups: the page's URLs lack `/api/v1`; its mutations invalidate the
  group selected by then.
* Live feed: a failed request for a ticket says `error` and is never retried.
* Sessions: the demand to change the default password is not persisted, so a
  reload skips it; any 401, also a wrong password and also a late answer for an
  old token, clears the store and loads the login page again, so its message is
  lost; a tab still logged in puts a logged-out token back in localStorage;
  ChangePassword's timer goes home whatever is shown by then.
* Query log: `handleSearch` (`QueryLogs.tsx:110-114`) applies the offset of the
  page before while the pager says page 1.

## 7. Not modelled, and why

* *Rule language* (`dns/rules.rs`), *input validation*: pure functions of a text.
* *Log retention*: one DELETE a day with a bound that depends on no state here.
* *Query log templates, dashboard, audit log, backup, health*: reads, or single
  statements nothing else depends on.
* *Client groups page*: every request of it misses the API, so no list of it is
  ever there to act on.
* *`dns/acl.rs`*: no code constructs it. *Landing page*: static.
* *Network, DNS message formats, SQL text, password hashing, layout, wording,
  sorting and search boxes of the list pages*: what they return is left open.
* *Errors on which SQLite itself rolls a transaction back* (a full disk, I/O): the
  later INSERTs of that sync would be committed one by one beside the old rules.
* *Within modelled components*: the map of per-client resolvers (a cache of equal
  values), `update_group` (names and priorities), the export of the log, the
  password page's strength meter.

## 8. Plan

Done: engine, administration, lists, answer path, log, accounts, login, groups,
live feed, sessions, and the pages of the console that keep state; proofs of all
safety properties. Worth adding next:

1. The composition of `ClientGroups` and `DnsHandler`: the group rules a query
   reads from the memberships and bindings of one, in place of the abstraction.
2. What the liveness properties rest on and a prover can state without fairness:
   that as long as the goal is not reached some step under fairness is there to
   take, and that no other step undoes progress.
3. `RuleSet` (`rules.rs:33-119`): `add_rule` as a fold over rules, `is_blocked`
   against a declarative reference over all small sets of rules.
