# A TLA+ model of the ChiselStrike server

`chiseld` keeps several *versions* of a user's backend running at the same time. A version is a
set of JavaScript modules (routes, models, policies) that a pool of worker threads executes; it is
replaced while it serves requests, its models are migrated while it stores entities, and its
events go through a transactional outbox. This directory models the parts of the server where
that is hard: the life of a job between the trunk, an instance and its workers; who is admitted and
which handler runs; the transaction of a job, its queries and the policies they obey; the outbox; the
calls of the control plane; the evolution of models, of their data and of the server's own tables; the
secrets.

Line numbers below are those of the repository; paths without a directory are under
`server/src/`, and `*.ts` under `api/src/`.

## 1. Inventory

### Trunk, versions, workers (`trunk.rs`, `version.rs`, `worker.rs`, `nursery.rs`, `ops/job.rs`, `run.ts`)

*State.* `Trunk.versions` maps a version id to the instance that is routed to and to a sender of
its job channel. An instance is a tree of tasks: `version::run` joins one task per worker thread,
a task that waits for all workers to be ready, and `job_task`, which moves jobs from the version
channel (capacity 1) to the worker channels (capacity 1) round-robin. The nursery of the trunk
owns the task handles.
*Operations.* spawn, become ready, route, replace, remove; take a job, run it, finish it or
throw; end by itself when all senders are gone; fail, and take the server down.
*Hard.* An instance ends only when *every* clone of its sender is dropped, and the clones belong
to the trunk, to an `apply` in progress and to each request in flight. A failure of one worker
drops every job in every channel of the instance.
*Correct when* no request is lost, run twice or aborted by a replacement; a replaced instance ends,
and has handled everything first; traffic moves only to code that has loaded.

### HTTP API (`http.rs`, `authentication.rs`, `authorization.rs`, `policies.rs`, `prefix_map.rs`)

*State.* One task per request, which clones the sender, authenticates, sends the job and waits for
a one-shot response; the rules of a version's policy file, by path.
*Operations.* route, reject, send, receive, disconnect; find the user, compare the header.
*Hard.* The longest path that contains the request's decides, and "contains" is not "is a prefix of
the string"; users and secrets change between the steps; a secret may be missing.
*Correct when* each request gets exactly one outcome, and is admitted exactly by the rules of its path.

### Routing (`cli/src/routes.rs`, `cli/src/codegen.rs`, `routing.ts`, `special.ts`, `http.ts`)

*State.* The files of a project; the route maps they export; the flat list of routes of the router.
*Operations.* Walk the directories, put maps together under prefixes, look a request up, run the
middlewares and the handler.
*Hard.* The first route that matches wins, so the order of files decides; maps are nested and
middlewares are collected on the way up; slashes at the end.
*Correct when* the answer fits the files, and no handler runs without its middlewares.

### Transactions of a job (`ops/datastore.rs`, `datastore/mod.rs`, `datastore/engine.rs`, `http.ts`, `kafka.ts`, `run.ts`)

*State.* The data context of the current request, its transaction behind an `Arc` and a lock, the pool of
connections. *Operations.* begin, find the user, operations of the handler, commit or roll back, answer.
*Hard.* Operations that the handler does not await, streams it abandons, code that outlives its job:
each keeps references, and commit needs the last one.
*Correct when* the answer tells what became of the writes, ended transactions are not used, and jobs
are answered.

### Queries, CRUD, policies (`datastore/query.rs`, `crud.rs`, `expr.rs`, `datastore.ts`, `crud.ts`, `policy/`, `chiselc/src/policies.rs`, `chiselc/src/tools/analysis/`)

*State.* Rows; a chain of operators; a page and its links; a policy's functions, the condition that
chiselc infers from them, the entities whose values were masked.
*Operations.* Part of a chain becomes SQL and the rest runs in JavaScript; pages are followed in both
directions while others write; a read policy is turned into a filter and also called on every row.
*Hard.* Everything is done twice by different code that must agree.
*Correct when* it agrees: what is pushed down with what is not, links with the table, filters with the
functions they come from, and no chain of operators gets around a policy.

### Kafka and the outbox (`kafka.rs`, `ops/kafka.rs`, `outbox.rs`, `kafka.ts`)

*State.* A task per topic; the `ChiselOutbox` table; `outbox_poll_mutex`.
*Operations.* An event of a topic is sent as a job to all versions. `publishEvent()` inserts a row
within the handler's transaction and sends an Outbox job to all versions; worker 0 of an
instance polls the table: publish, delete, next row.
*Hard.* The job is sent before the row is visible; publishing and deleting are not atomic; a
worker sends a job to its own instance and waits; rows survive a crash and jobs do not.
*Correct when* an event is published if and only if its transaction committed, at least once, and
more than once only after a failure.

### Control plane (`rpc.rs`, `apply.rs`, `server.rs`) and meta service (`datastore/meta/`)

*State.* The meta tables (versions, modules, policies, types, fields), the backing tables of the
models, `Server.type_systems` behind a mutex, the trunk.
*Operations.* `apply`: canary, lock, meta transaction, reload, table transaction, spawn, route.
`delete`: unroute, meta transaction, table transaction. Start: list versions, load, spawn.
`populate`: copy entities between versions, a transaction per model. `describe` and `get_status` read.
Before the start, databases of older releases are migrated (`datastore/meta/migrate*.rs`, `server.rs`).
*Hard.* Two transactions per call; a lock that only `apply` takes; a route that is set after the
lock is released; a client that goes away, a crash, a version that does not start.
*Correct when* the four stay in step, the server starts again wherever it stopped, and on the database of any
earlier release, and no data is dropped that was not asked for.

### Type system (`types/`, `apply.rs`, `datastore/engine.rs`)

*State.* The models of a version with their fields; the columns of their tables.
*Operations.* Sort the models of a request, compute and check deltas, persist, reload, alter.
*Hard.* A long sequence of legal changes; models that refer to models inserted later; instances of earlier
types that store while the tables change.
*Correct when* tables and stored values fit the models after any sequence of accepted applies, and
the meta tables can always be loaded.

### Secrets (`secrets.rs`, `server.rs`)

*State.* A copy of the secrets in memory, the state of the refresh task.
*Operations.* refresh periodically with backoff; update when a version is applied.
*Hard.* Both read, await and store. *Correct when* the copy converges to the source and the backoff
ends with the first success.

### Parts that are not modelled

| part | why |
|---|---|
| text of SQL and of URLs, conversions of values, nested entities beyond one join and the saves in `Policies` | data; the control around them is modelled |
| geo policies, labels and indexes, `request.ts` | values that are passed on unchanged |
| `chiselc` except the analysis of policies (rewriting of queries, symbols) | passes over syntax trees; what they produce are the filters and expressions that `Queries` evaluates |
| `tsc_compile`, `endpoint_tsc` | a TypeScript compiler running in V8 |
| `cli` except routes and code generation | a sequential client, one call per command |

## 2. Modules

| module | models | built on |
|---|---|---|
| `JobPipeline` | trunk, instances, workers, HTTP requests, Kafka topic | |
| `EventDelivery` | what the outbox promises (abstract) | |
| `Outbox` | `publishEvent`, polls, crash and restart | `JobPipeline`; implements `EventDelivery` |
| `ControlPlane` | `apply`, `delete`, start, lost calls, crashes | |
| `Schema` | what applies do with models and tables, while instances of several type systems store | |
| `Secrets` | refresh, backoff, update by `apply` | |
| `Populate` | `chisel populate`, models as they evolve | |
| `MetaMigration` | start on a database of any release | |
| `Authorization` | rules of paths, users, secret headers | |
| `Routing` | from files to the handler that answers | |
| `Transactions` | the transaction of a job | |
| `Queries` | cursors, pushdown, login and field policies; what a filter selects is a parameter | |
| `Pushdown` | what filters select in SQL and in JavaScript, what a chain of operators means | `Queries` |
| `Crud` | generated handlers, pages and their links | |
| `Policies` | what TypeScript policies let a request read and write; what their functions return is a parameter | |
| `PolicyAnalysis` | what chiselc infers from the functions, and what they return | `Policies` |
| `JobPipelineProofs`, `OutboxProofs`, `ControlPlaneProofs`, `SchemaProofs` | the theorems of the module they are named after; `ControlPlaneProofs` also that of `Secrets` | it, `TLAPS` |
| `UpgradeProofs` | the theorems of `Populate` and `MetaMigration` | these, `TLAPS` |
| `HandlerProofs` | the theorems of `Routing` and `Transactions` | these, `TLAPS` |
| `RequestProofs` | the theorems of `Authorization` and `Crud` | these, `TLAPS` |
| `QueryProofs` | the theorems of `Queries` and `Policies` | these, `TLAPS` |
| `MCAdmin` | instances of `ControlPlane`, `Secrets`, `Schema`, `Populate`, `MetaMigration` | these |
| `MCRequests` | instances of `Authorization`, `Routing`, `Transactions`, `Pushdown`, `Crud`, `PolicyAnalysis` | these |
| `MCJobPipeline`, `MCOutbox`, `MCControlPlane`, `MCSchema` | values of the constants for TLC | |

A definition whose comment begins with "(Mutant" is a plausible bug that stands before the
definition it would replace; no specification uses it.

### JobPipeline

A job is in one of five places: `blocked` (a `send()` that waits for a permit), `slot` (the version
channel), `held` (received by `job_task`, being sent to worker `next`), `wslot` (the worker channel)
and `wjob` (running). `task`, `ready`, `dispatch` and `wstate` are the states of `version::run`,
`ready_task`, `job_task` and the workers; `owner` says who has the task handle, and `HasSender`
derives which clones of `job_tx` exist from `trunk`, `owner` and the requests in `Pending`. The
actions carry the names of the functions: `spawn`, `add_version`, `drop_version` (an `apply` gives up
on an instance, or the canary is dropped), `remove_version`, `get_trunk_version`, `reject`, `send_job`,
`disconnect`, `handle_event`, `event_sent`, `handle_publish`, `publish_sent`, `dispatch_recv`,
`dispatch_send`, `dispatch_close`, `signal_ready`, `task_ok`, `task_err`, `trunk_err`,
`op_chisel_ready`, `op_chisel_accept_job`, `finish_job`, `worker_done`, `worker_err`.

Abstractions: the commit of a handler's transaction, the response and the end of the job are one
step, because nothing of this model is read in between; a waiter of a channel is served in any
order (tokio serves them first-come first-served, so the model has more behaviours); one topic;
errors of the Kafka consumer, which are only logged, are left out.

`Clogged` and `Jammed` name the one way in which the pipeline stops for ever: `publishEvent()` waits until
every version has taken the Outbox job, and an instance whose channel, dispatcher and next worker channel are full
takes none while that worker itself waits in `publishEvent()`. Any jobs fill those three places, those of other
requests and events as well as Outbox jobs.

### Outbox and EventDelivery

`Outbox` extends the pipeline with the committed rows, the open transaction of each worker, the
mutex, the poll in progress, and how often the broker got each event. `publishEvent` is
`handle_publish` plus the row; `handler_commits` and `handler_throws` are `finish_job` plus commit or
rollback; `worker_fails`, `instance_stops` and `crash` lose what is in memory; `restart` starts the
routed versions again (which versions are listed durably is `ControlPlane`'s concern). A row is its id,
which is fresh when the entity is created (`NewRows`); rows are a set: the order by `seqNo` is left out.
`lost` counts the polls that ended between publishing a row and deleting it, which is what a further
copy of an event costs: one failure of a worker may cost two, the poll of its instance and the one that
runs in another instance when the server exits. `EventDelivery` has two variables and five actions (stage, commit,
discard, send, forget); `ImplementsDelivery` maps a row to *staged* while it is in a transaction, to
*deliverable* while it is in the table, and to *delivered* once it is gone and was published.

### ControlPlane

A transaction is one step; everything between two awaits that other calls can observe is a step.
`apply_meta` decides from the type system in memory and writes to the meta tables; `apply_reload`
reads them back; `apply_tables` is the second transaction; the lock is held from
`lock_type_systems` to `apply_tables`; `apply_route` runs without it. `delete_*` take no lock. A model
is its name and its backing table, whose name is fresh whenever the model is inserted
(`NewTable`); fields are left to `Schema`, so `apply_refused` may happen to any locked apply, and what an apply
persists may not load (`unloadable`; `Schema` says which models do not): its `apply_reload` fails after the commit,
and so does the next start, as it does on a missing policy row (`start_versions`). A version that
fails after it was started takes the server down, which is `crash`.
`apply_lost` and `delete_lost` are a client that goes away, or a version that does not start after
the migration. `overlapped` remembers that a call began while another one was in progress: what the
code promises of calls one after the other is stated of behaviours where it did not happen.

### Schema

The lock makes applies exclude each other, but an `apply` has two transactions: `apply_types` ends with the commit
of the meta tables, `apply_delta` reloads the models and changes the tables. `serving` are the type systems of the
instances that run: the new one is added when the tables are changed, an old one stays until its instance is
drained (`drain`), and `store_row` and `delete_row` are handlers of any of them, before, between and after the two
transactions. A request is a function from models to fields. `sort_custom_types` is the set of topological orders
(none for a cycle or an unknown model); `generate_type_delta` with `CanKeep` and `CanAddOrRemove` is what is accepted,
which depends on whether the model has rows; `MetaRows` is what the meta tables hold afterwards, in `type_id` order
(`RowsFor` selects those of some models); `Loads` is `load_type_systems` with its two passes; `alter_table` ignores
fields that stay. Stored rows are known by the type of each value, or NULL. Two histories say what the code does not
promise: `late` are the models into which an instance stored with types other than the persisted ones (the race that
`rpc.rs` 199 names), `tightened` the fields that became required over rows that may hold nulls, which
`generate_type_delta` does not refuse. `broken` records that an apply failed after its first commit (the models do not
load, or SQLite refuses to add or drop a UNIQUE column); what the server does after that is left to `ControlPlane`, and
the specification ends there, which is why deadlock is not checked. A value of a type other than the column's is
stored by SQLite and refused by Postgres (`Sqlite`). Labels, indexes and references by id only (`Id<Entity>`) are left
out.

### Secrets

The source is a number (the edit) and whether it can be read and parsed. `get_secrets` reads,
`refresh_ok` and `apply_ok` store: any other updater may run in between. The delay is a number; the
passing of time is fairness of the refresh task.

### Populate

`populate` takes the models that both versions have, one after the other: `populate_refused` is
`check_populate_from`, `populate_model` opens the stream and the transaction, `add_row_shallow` converts
one row (an upsert, which keeps the fields that the new row does not have), `populate_commit` ends the
model, `populate_lost` a failure or a crash at any point; `p_store` are requests of either version.

### MetaMigration

A database is its tables, the version it records, its sources or modules, and the type of its array
columns. `maybe_migrate_split_sqlite_database` copies the two files of older releases;
`migrate_begin`, `migrate_step` and `migrate_commit` are `migrate_schema`, one transaction with a step per
schema version; `m_down` kills the server anywhere. `migrate_sources` is `migrate_to_2`: sources by path
become modules by version and a generated root module. On Postgres a statement that fails aborts
the transaction, even where the code ignores its error, and arrays that cannot be cast to jsonb fail
`migrate_to_4`. A database of a later release has a version that the code does not know, and is refused.

### Authorization

Paths are sequences of numbers in the order of their characters, so that `longest_prefix` can be the
code's search in an ordered map. `authenticate`, `get_username_from_id` and `authorize` are the steps of a
request; `a_change` edits users and secrets between them. The reference, `Covers`, says by the places of the
slashes that every segment of a path is a segment of the other at the same place; `Deciding` is the longest
path that covers the request's.

### Routing

The code of a file is a sequence of calls of `route`, `prefix` and `middleware` on the route maps of that file
(`RMaps`), in the order in which the file makes them; `convert` is the code of a file that exports a function.
`r_apply` lists the files (`walk_dir`); `r_import` takes the next one in the order of `build_file_route_map`, `r_call`
makes its next call, and `codegen_route_map` puts the map it exports under its path in the root map. `run` adds the
special routes and makes the flat list (`Router`). `r_request` looks a request up (`lookup`), `next` is one link
of the chain of middlewares, which may be called more than once, `r_respond` ends the request and `r_stop` the version. Paths are
sequences of segments; `exec` stands for URLPattern with names, one group and "anything behind".

The references read the files and never look at a list of routes. A *way* (`IsWay`) is a set of calls of a file
that brings a route into the exported map: one `route`, then the `prefix` calls that carry the map along. `Places` says where in a
path the segments of each call stand, `OnWay` that a path is the file's, followed by those of the calls, and `Guards` which
middlewares a map had when it was carried further.

### Transactions

Per job: whether its data context is the current one, the state of its transaction, who holds its lock;
per operation: who called it, which context it got, where it is. `handler_call` and `floating_call` start
operations; `op_chisel_commit_transaction` and `op_chisel_rollback_transaction` need to be the only owner, and
`DropTxn` rolls back when the last reference goes. The pool is the server's: a worker may find it empty because of
others, or the database may fail, so `begin_transaction` may fail at any time, and it must when the connections of the
model are in use. `loggedInUser` is a query on the new transaction and waits for its lock like any other. `Stuck` is a
wait for the lock of a transaction that a stream holds: that of the handler, or, before the handler runs, that of a
stream which code of an earlier job opened in the new context. A worker that is lost or stuck is replaced by
`new_worker`.

### Queries

A cursor is built by `cursor_op`. When it is iterated, `asyncIterator` cuts its chain at the first operator with a
JavaScript function: `plan` is the query (`convert_ops`, behind the login filter), `rest` what stays in
JavaScript. `make_raw_query` wraps one segment of SQL at a time around the query (`split_on_first_take`),
`runChiselQuery` reads the rows as entities, under the field policies, and `eval` applies the operators of `rest`,
one by one. `stream` is the sequence of rows so far; it is chosen where a sort leaves ties open. What a filter
of the user selects in SQL (`SqlFilter`) and in JavaScript (`JsFilter`) are parameters, so that what is proved
holds for all filters. `Pushdown` gives them: `to_expr` and `SqlEval` with SQL's treatment of NULL, `evalFilter` with
JavaScript's. It also has the reference `Meaning`: every operator in JavaScript, on the rows that are permitted.
The database of a setup (`db`) decides where NULL sorts and whether a count of sorted rows is refused: the code puts
`COUNT(*)` and `ORDER BY` into one SELECT, which Postgres does not accept. A restriction of a delete may be undefined,
which `restrictionsToFilterExpr` leaves out, or null, which becomes a comparison with NULL.

### Crud

`get_page` follows links: `cursor_from_pivot` remembers the values of the sort keys, `get_filter` compares a
row with them lexicographically, `reversed` walks back. `Sorted` is ORDER BY: the k-th row is the one with
k - 1 rows before it. Ids and values are numbers; an id is only compared, as in the code. `post`, `put`, `patch_read` and `patch_save`, `deleteOne`
and `deleteAll` are other clients. A payload may have an id: `post` and `put` replace it, a PATCH takes it over and saves
to the row of that id (`PatchTarget`), or is refused when it is not a UUID (`patch_err`).

### Policies

`register_policy` infers the filter of a policy once; a request then reads (`process_read` filters, masks and marks
entities as dirty) and writes (`process_write` refuses dirty ones). `save_nested` saves an entity as a field of another
one: `add_row` applies the write policies to the outer type only, so neither they nor the marks are looked at. What a function returns
(`Call`), the filter that is inferred (`SkipFilter`) and the rows it selects (`Selects`) are parameters.
`PolicyAnalysis` gives them: `ControlFlow`, `Regions` and `where_conds` are chiselc's analysis of the read function: control
flow graph, regions by dominance, the condition under which `Skip` is returned. `eval_read_policy_expr` evaluates
it as far as a request's context is known, and `cond_to_expr` is what becomes of the rest in SQL. `Exec` runs
the function itself. Loops and calls, which chiselc refuses, are not in the language.

### MCAdmin and MCRequests

The components in them share no variable, so that their product would add no behaviour. A behaviour
has a `focus`, chosen at the start: that component runs, and the others stay as they are. Each of
the properties is about one component; fairness is that of the component that runs.

## 3. Runs

| run | configuration | shows |
|---|---|---|
| `pipeline_replace` | one version, two instances, two workers each, two requests (symmetric), one Kafka event | `JobInOnePlace`, `EndsDrained`, `RoutedAcceptsJobs`, `AbortedOnlyByFailure`, `RoutedOnlyWhenReady`, and the inductive invariant `IInv`, type correctness included |
| `pipeline_live` | two instances with one worker each, a request and a Kafka event, two `publishEvent` per handler | `RequestsResolved`, `ReplacedEndUnlessJammed`, `EventsAreTaken` |
| `pipeline_hang` | one instance, one worker, four `publishEvent` | violation of `ReplacedInstancesEnd` |
| `outbox` | a user version with two workers and the builtin one, one request whose handler publishes two events, one fault | `ImplementsDelivery`, `DuplicatesOnlyByFaults` |
| `outbox_lost` | the same with one event and without faults | violation of `PublishedEventually` |
| `admin` | all | `AdminInv` |
| | `ControlPlane`: three applies of two versions and a delete, overlapping or not, one fault | `OneMigration`, `AppliesKeepInStep`, `ServesWhatIsPersisted`, `AppliesEnd` |
| | `Secrets`: two applies, two edits, two failures | `SecretsConverge` |
| | `Schema`: three models, references between them, one with three definitions of its field, an old and a new type system that serve together, SQLite | `LoadsUnlessChained`, `ModelsMatchTables`, `DataFits` |
| | `Populate`: two models, one of them changed in seven ways, two rows, one request that stores | `CopiedModelsAreComplete`, `CopiesAreReadable` |
| | `MetaMigration`: eleven releases, both databases, 32 sets of sources, arrays that become jsonb or cannot | `ServesLatestSchema`, `MigrationSucceeds` |
| `requests` | all | `RequestsInv` |
| | `Authorization`: up to two rules of ten, 34 requests, changing users and secrets | `AdmittedByLongestPath` |
| | `Routing`: up to three files of ten, two route maps, 20 requests | `AnswerFitsFiles`, `ThroughMiddlewares` |
| | `Transactions`: two jobs, two operations, one connection | `AnswerTellsOutcome`, `NoUseAfterEnd`, `ConnectionsReturned`, `JobsAreAnswered` |
| | `Queries`: 19 tables, policies and databases of three rows, chains of up to three of fourteen operators | `PushdownAgrees`, `PoliciesHold`, `DeletesMatch` |
| | `Crud`: three tables of three rows and a free id, six first requests, two writes of others | `WalkReturnsAll`, `PrevUndoesNext`, `PatchKeepsOtherFields` |
| | `Policies`: 136 read policies of up to three branches, with transforms and write policies | `ReadsArePermitted`, `SavesKeepMasks` |
| `control_start` | one apply, one delete | violation of `CanStart` |
| `control_data` | two applies, no fault | violation of `NoDataLoss` |
| `schema_columns` | two models, one with four definitions of its field | violation of `ColumnsMatchFields` |
| `policy_filter` | the policies of `requests` | violation of `FilterIsSkipCondition` |
| `policy_masks` | the policies of `requests` | violation of `MasksAreNotWritten` |

`AdminInv` and `RequestsInv` are the inductive invariants of section 5 (`ControlInv`, `SchemaInv`, `PopulateInv`,
`MigrationInv`; `TxInv`, `AuthInv`, `RoutingInv`, `CrudInv`, `PolicyInv`, `QueriesInv`), which include the type invariants, and `SecretsTypeOK`: the delay of
`Secrets` is the usual one unless the last read failed, and bounded. Of a property of algorithms that are the same for every
state (`PushdownAgrees`, `ReadsArePermitted`, ...) the run is an exhaustive comparison with a reference.

*Bounds.* In the pipeline two instances of one version are what a replacement needs, two workers make
the round-robin wrap and leave a sibling that is busy when a worker fails, two requests let one
be in front of the other in every channel. An instance with one worker holds three jobs besides the running
one, of whatever kind; a `publishEvent()` that finds these places full never returns. In `pipeline_hang` one handler
fills them alone and publishes a fourth time; in `pipeline_live` a request, an event and up to four publishes compete
for them, which also reaches the jam, and the properties say that nothing else keeps a request, the topic or a
replaced instance waiting. One
fault is enough for a duplicate and for every place a call may stop at; a second one repeats the
first. In `Schema` three models are needed for a chain of references to later rows, and one field
per model suffices since the fields of a model are checked independently. `MaxModels` bounds the models of all type
systems that serve at once: three are one type system with all models, or an old one and a new one that have one or two, and
rows of both are stored. A is required, optional and unique, or a reference, so that a field becomes required over
rows with nulls, changes its type while it is empty, and has a column that SQLite cannot drop.
`MaxEdit` and `MaxFail` let an update overlap an edit and the backoff reach its maximum. Two jobs and one
connection are enough for code of the first to meet the transaction of the second and for a stream that is left
open to keep the connection. Three rows have a tie and a row on either side of a page's border; chains of three
have a take between any two other operators. Three branches nest an if in an if and continue behind
it, which is what the regions are about. Three files give a file, its directory and a group beside them; two route
maps in a file are enough to nest one, to put it in two places and to add to it afterwards.

*Fairness.* Weak fairness of every task of the server: tokio polls each task that can make progress
and none of them blocks a thread. For workers it includes that modules load and that handlers
return or throw, an assumption about the user's code. No fairness is assumed of clients, of the
user's edits, of failures or of crashes. A stopped server is started again (`ControlPlane`, `Outbox`).
The reads of `Secrets` return, successfully or not. In `Transactions` the job loop and the operations that
were started are polled (`JobLoop`, `OpSteps`); that a handler goes on after a pause, or that abandoned code
ever runs again, is not assumed.

## 4. Disagreements between the code and what it says

Each is a run that must end in a violation.

* `pipeline_hang`: `op_chisel_publish` (`ops/kafka.rs` 32) waits until every version has taken the
  Outbox job, its own included, while the worker that would take it runs the handler. Three jobs
  fit into the channels, whoever they are from; with one worker a `publishEvent()` that finds them there, here the
  fourth of a handler, never returns, and
  the instance never ends, although `trunk.rs` 75 counts on it.
* `outbox_lost`: only worker 0 polls (`run.ts` 79) but the round-robin may give the job to another
  worker, and a poll that runs before the handler commits does not see the row. Without any failure
  an event stays in the table, although `kafka.ts` 92 promises at-least-once.
* `control_start`: `delete` removes the policy row of a version and leaves it in `api_info`;
  `start_versions` then fails on the missing row and the server does not start.
* `control_data`: rows are counted in the first transaction of an apply and tables dropped in the
  second, while the old version stores entities.
* `schema_columns`: a field of an empty model becomes unique, or changes its type, in the type system
  and not in the table, although `engine.rs` 346-348 says that such a change is refused earlier.
* `policy_filter`: a read policy with `ctx.userId` becomes a filter that looks for `user_id`, finds NULL and
  drops rows that the policy allows (`policy/engine.rs` 43 and 57).
* `policy_masks`: `policy/instances.rs` 28 says that a write checks whether an entity was transformed. Nested
  entities are stored without the check (`engine.rs` 628-656), so a masked one overwrites its row with the mask.

The model shows more of them, which have no run of their own: rows that were committed before a crash
are not polled after the restart; `delete` leaves the models it removed in `Server.type_systems`
(`server.rs` 35 says that it reflects the meta tables), so that the next apply of that version fails on
missing tables; of two overlapping applies the one that committed first may be routed last; a refresh
of the secrets that read before an edit may store after the apply that read it (`rpc.rs` 234 says
"immediately"); a chain of references to models inserted later (A to B, B to C, inserted as A, B, C)
does not load in two passes, so that the apply fails after its commit and the server cannot start:
`LoadsUnlessChained` says that exactly such chains do; `types/mod.rs` 468 lets a model gain a field that has a default,
while the check at 480 refuses just that, and lets a field without a default pass. Of the components that serve requests it shows: a
function in `index.ts` answers for its whole directory, so that files after "index" in the alphabet are not
reached, and `[id].ts` hides files with fixed names, because files are sorted and `[` is before the letters;
a middleware that is added to a map after the map was put under a prefix is not called; the root of a
project is hidden by the internal route for GET `/`; the link to the next page repeats the offset of the
first request; rows with NULL in a sort key are passed over by the pages behind them; an empty block in a
policy function changes the condition that chiselc infers; an error of `begin_transaction` or of reading the user
takes the worker down; a stream that code of an earlier job opens in the context of the next keeps `loggedInUser`
waiting; Postgres refuses to count sorted rows, which JavaScript counts; a delete whose restriction is null deletes
nothing, and one whose restrictions are all undefined deletes everything; a PATCH takes over an id in its payload
(`datastore.ts` 1270), so that PATCH of row 1 with the id 2 overwrites row 2 with the fields of row 1, although `crud.ts`
120 says that it modifies the entity of its path. Where such a case would break a property, its comment says that it is excluded.

## 5. Proofs

The theorems hold for every value of the constants that the assumption of the module allows. The
assumptions give types to the constants and say nothing of the behaviour:

| assumption | what it says |
|---|---|
| `PipelineAssumption`, `NoJobAssumption` | every instance has a version and at least one worker, at most one instance of a version is started at boot; numbers are naturals; the "none" values are not instances or jobs |
| `FaultsAssumption` | `MaxFaults` is a natural |
| `ControlAssumption` | every call has a version and a set of models; numbers are naturals |
| `SchemaAssumption` | the fields that a model may have are fields; there are finitely many models, since a request is a list |
| `PopulateAssumption` | the two versions have models of `PModel` |
| `ReleaseAssumption` | the releases are among those that the migration code tells apart |
| `TransactionsAssumption` | numbers are naturals, there is a connection |
| `RoutingAssumption` | a file's calls are calls of `route`, `prefix` (of another map) and `middleware` on its maps, paths of routes and requests begin with a slash, names are ordered |
| `AuthAssumption` | paths are sequences of characters |
| `SecretsAssumption` | numbers are naturals; period, factor and longest delay are not 0; the refresh task is not an apply |
| `CrudAssumption` | finitely many ids; a table has a row with that id, or none, for every id; values are numbers or NULL; a first request sorts and filters by `id` or `a` and has no cursor (`b` is the field that may change while a row stays); the id in a payload is one of the ids, or not an id |
| `QueriesAssumption` | the operators are those of `datastore.ts`, counts are naturals; a table's rows have ids of their own, and no user has the id that stands for "nobody" (`query.rs` 445); a delete names fields of the entity |
| `PolicyAssumption` | a row's place in a table is its id; the code does not itself use the value that masks |

| module | theorem | statement |
|---|---|---|
| `JobPipelineProofs` | `Invariance` | `Spec => []IInv` |
| | `TypeCorrect`, `Drained` | `TypeOK`, `EndsDrained` |
| | `RoutedAccepts`, `AbortedByFailure`, `JobInOne` | `RoutedAcceptsJobs`, `AbortedOnlyByFailure`, `JobInOnePlace` |
| | `RoutedWhenReady` | `Spec => RoutedOnlyWhenReady`, an action property |
| `OutboxProofs` | `OutboxInvariance`, `DuplicatesByFaults` | `OutboxInv`, `DuplicatesOnlyByFaults` |
| | `OutboxImplementsDelivery` | `OutboxSpec => ImplementsDelivery`, a refinement |
| `ControlPlaneProofs` | `ControlInvariance`, `ControlTypes` | `ControlInv`, `ControlTypeOK` |
| | `OneMigrationAtATime`, `AppliesStayInStep`, `ServedAsPersisted` | `OneMigration`, `AppliesKeepInStep`, `ServesWhatIsPersisted` |
| | `SecretsInvariance` | `SecretsSpec => []SecretsTypeOK` |
| `SchemaProofs` | `SchemaInvariance`, `SecondPassEnough` | `SchemaInv`, `LoadsUnlessChained` |
| | `TablesMatch`, `StoredFitsTypes` | `ModelsMatchTables`, `DataFits` |
| `UpgradeProofs` | `PopulateInvariance`, `CopiedComplete`, `CopiesReadable` | `PopulateInv`, `CopiedModelsAreComplete`, `CopiesAreReadable` |
| | `MigrationInvariance`, `ServesLatest`, `StartsUnlessForeign` | `MigrationInv`, `ServesLatestSchema`, `MigrationSucceeds` |
| `HandlerProofs` | `RoutingInvariance` | `RSpec => []RoutingInv` |
| | `MiddlewaresCalled`, `AnswersFitFiles` | `ThroughMiddlewares`, `AnswerFitsFiles` |
| | `TxInvariance`, `AnswersTellOutcome` | `TxInv`, `AnswerTellsOutcome` |
| | `UnusedAfterEnd` | `NoUseAfterEnd` |
| `RequestProofs` | `AuthInvariance`, `LongestPathDecides` | `AuthInv`, `AdmittedByLongestPath` |
| | `PatchInvariance`, `CrudInvariance`, `WalksReturnAll`, `PrevUndone` | `PatchInv`, `CrudInv`, `WalkReturnsAll`, `PrevUndoesNext` |
| | `PatchesKeepFields` | `CSpec => PatchKeepsOtherFields`, an action property |
| `QueryProofs` | `QueriesInvariance`, `PoliciesEnforced` | `QueriesInv`, `PoliciesHold` |
| | `DeletesExact` | `QSpec => DeletesMatch`, an action property |
| | `PolicyInvariance` | `PSpec => []PolicyInv` |
| | `SavesWriteNoMasks` | `PSpec => SavesKeepMasks`, an action property |

Hardly any of the properties is inductive. What the invariants add, and why:

*JobPipeline.* That a waiting request's job is in its instance (`KeptInv`) depends on when an instance may stop:
`dispatch_close` is possible only without senders, and a request in `Pending` is a sender. `TaskInv` says which
states of `task`, `dispatch` and `owner` go together, and that `ready` implies that all workers are;
`QueueInv` and `WorkerInv` that nothing is left in the channels of an instance that is not open, and that only
workers that are alive have jobs; `RouteInv` and `RequestInv` that the trunk and the requests that hold a sender
refer to instances that the nursery owns and that accept jobs or have failed; `HomeInv` that a request's
job is only ever in the instance the request was sent to; `TopicInv` that an event that is being sent
exists; `SpotInv` that the job of a request is not in two places of an instance, which `JobInOnePlace` counts. The
proof has one step per action, grouped as the next-state relation is.

*Outbox.* The mutex is held only by an instance whose worker 0 runs an Outbox job (`MutexInv`), so that at
most one poll runs; for that, only instances of the nursery get jobs (`NurseryInv`), since an instance
that `apply` drops releases nothing. A row is in one transaction and not yet visible (`StagedInv`); the rows
that a poll read stay in the table until it deletes them (`PollInv`); a row that is still to be published has
no more copies than polls were cut off (`CopiesInv`). `DuplicatesOnlyByFaults` once bounded the copies by one
for each failure; the proof showed that two may come of one, and the property now counts the polls
that were cut off. The refinement maps rows to their `Status` and shows of every action that it moves the rows of
one transaction, one row, or none (`MoveRows`).

*ControlPlane.* `OneMigration` is inductive with the types. The rest says which of the meta tables, the
backing tables, `type_systems` and the trunk agree at each point of a call. It can be said of two
histories (`InOrder`): applies that overlap, without deletes, and calls one at a time. `CanMigrate` is the
promise that the first transaction of an apply makes to its second; `Settled` says how a version is left by
calls one at a time: served as it is persisted, or gone, where a type system in memory that is out of date
refers to a table that no longer exists, so that an apply on it is refused instead of going wrong. Models that do not
load are always the last ones persisted for their version, by an apply that fails (`UnloadableInv`): without deletes
nothing else keeps the server from starting.

*Schema.* Each model has one row (`Distinct`), its references are to models that have one (`RefsKnown`), which follows
from the request being sortable, the stored rows have the columns of their table (`RowsHaveColumns`), and instances
know only models that have one (`ServingInv`). `DataFits` says nothing between the two transactions of an apply, so
`WillFit` says there that the rows will fit the types that were persisted, with NULL in the columns to come; a row that
an instance of other types stores in the meantime is in a model of `late`. What `RowsFor` and
`FirstPass` compute of a sequence is shown without the induction theorems, which take an operator: a set of
naturals has a least element (`LeastNat`), so if the claim failed for some prefix there would be a shortest
one, and it follows from the one before it. `FirstPassFacts` and `FailedFacts` then characterize the models
that the first pass loads as those that depend on no model with a reference to a later one.

*Populate.* What is written and not yet committed has what was read and fits the target (`BufferInv`).
*MetaMigration.* `Sound` says what a database looks like whose schema has the version it records, and what it
keeps of the one that was found, its arrays included; each step of the migration makes the next version of the version
before (`StepSound`). *Transactions.* A transaction is active exactly as long as something refers to it
(`HolderInv`), the lock and the operation that has it know each other (`LockInv`), and where the job loop is
tells what its context looks like (`LoopInv`, `ContextInv`).

*Routing.* `MapInv` says of the file whose code runs that each map has exactly the routes that ways within the calls made
so far lead to. `LiesAt` ties a route to its way: the segments of each call stand in the pattern where `Places` puts them, and
nothing else does. A route whose map was carried further has the middlewares of the maps it left; those of the map it
is in are still in that map, which is why they are added when it is put into the root map (`RootInv`), and why a middleware that
comes later is not. `RouteCallStep` has a part for each kind of call; that of `prefix` extends every way of the other map by one
call, and shows that a way that ends in this call is one of those. `RootInv` also keeps the order of the files. With `ServeInv`, the
list in use is that of the root map behind two special routes, and `ChainCalls` says that what was called in a chain was
called from in front of it: `MiddlewaresCalled` follows. For `AnswersFitFiles` the two sides are brought to one form, `Reads`: what
URLPattern does with a pattern, tried again with a slash at the end, and what `FitsEnd` says of the last path of a way. Since the
places of a way are determined (`PlacesUnique`), a route matches exactly when the path is on its way. That a.ts does not
take the requests of the directory a is shown from the order: a file in the directory comes before it, so its
routes come first in the list, and the first match would be one of them (`DirectoryFirst`).

*Authorization.* `CoversFacts` shows that `is_path_prefix`, which
compares strings and looks at one character, says exactly which paths cover which, and `LongestFacts` that the
search in the ordered map, backwards from the request's path, finds the longest. *Crud.* The row that a PATCH
is about to save is the stored one with its payload, unless somebody wrote it (`PatchInv`); `PatchesKeepFields` follows
for the row it read, and for a payload with the id of another row says only that no third row is written. For the pages the
order of the sort keys is shown to be strict (`BeforeTransitive`) and, since the id is one of them, total
(`BeforeTotal`), from the least key in which two rows differ; so every row has a rank of its own and a page
lists each row once (`RankFacts`, `SortedFacts`). A link lets through the rows behind its pivot and no others
(`FilterBefore`, `BeforeFilter`), and what a link lets through, the links before it did (`FilterTransitive`).
`WalkInv` follows from these: a row that stays is among those the client has, once, and in front of the cursor, or
it is behind the cursor and on a page to come; `PageStep` shows that of a request and `WalkKept` that the writes
of others do not disturb it. An empty page ends the walk; with pages of size 0 the first page does, so the
property asks for the rows only of other sizes. The proof needs the NULL case excluded just as the property says:
such a row sorts before every number, and a comparison with it is never true. For the pages backwards,
`OppositeFacts` and `SortedBack` show that the opposite sort keys list the rows of a table in reverse. `BackInv` says what
the page is while nobody writes: a stretch of the sorted rows that the filter lets through, which begins where the cursor
says and is full unless it ends the table. So the rows in front of it, taken from the end and turned round, are the
page before it (`BackPage`). A backward link includes its pivot only when it comes from an empty page; with several
sort keys such a link also lets through the rows that equal the pivot in the first of them, which is harmless because
behind the pivot of an empty page there is nothing.

*Queries.* What the user's filters select is left open, so the invariant says of the chain alone where the policies
stand. Until the login filter is part of the query it is the first operator of `plan`, whatever Takes and Skips
follow it, and from then on every row of the stream is one of `MyRows` (`SqlInv`, `SegmentStep`); after the rows are
read no operator makes an element out of anything but elements that may be shown (`JsInv`, `EvalStep`), except an
aggregate, which is the last operator (`ChainInv`). The sequences are handled by lemmas about the places that are
kept: `RankFacts` shows that counting the places in front numbers them without gaps, so `Picked` lists the elements at
those places, each once (`PickedFacts`, `PickedSet`). A delete compares ids, so the rows that are left are the others only
because ids are distinct, which deletes preserve (`DeleteStep`). `PoliciesHold` and `DeletesMatch` once did not say that somebody must be
logged in; the proof needs an id that no user has for the comparison of nobody, as the code does.
*Policies.* A write of a mask is refused only if the entity is marked, and marks belong to one request. `MaskInv` says that a mask
in an entity that this request read and did not mark is the value that the row has, or the row is gone: the
function put the mask where it already was, or the row was deleted and no write overwrites it. Nested saves do write
masks; the invariant survives them because the row then has the mask that the entity has.

TLC checks `IInv` in `pipeline_replace`, the others in `admin` and `requests`. `OutboxInv` is checked by TLC on
the configuration of `outbox` when it is changed; the run itself has the two properties it is for.

## 6. What is only model-checked

Liveness (`RequestsResolved`, `ReplacedEndUnlessJammed`, `EventsAreTaken`, `AppliesEnd`, `SecretsConverge`,
`JobsAreAnswered`, `ConnectionsReturned`) is out of the prover's reach, and so is the part of a specification that states fairness. `PushdownAgrees` and `ReadsArePermitted`
are about the expressions of `Pushdown` and the function bodies of `PolicyAnalysis`, which are trees: what their recursive
operators compute for every tree takes an induction over data, which this prover does not have, so the run compares
them with references on all inputs of a bounded size. What the proofs in `QueryProofs` say holds whatever
these operators return. `AdminInv` and `RequestsInv` have no theorem of their own: they are the conjunctions of
the invariants that section 5 proves one by one, each under the specification of its component.
The violations of section 4 are counterexamples, which TLC finds.
