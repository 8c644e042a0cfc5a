# A TLA+ verification of the fastapi-startkit framework

This directory holds TLA+ models of
`src/fastapi_startkit/src/fastapi_startkit`, the TLC configurations that check
them on small instances, and TLAPS proofs of theorems about some of them for all
values of their constants.

Paths below are relative to that package unless they start with `docs/`. Every
definition that models code is listed with its lines in `PROJECT.json` (`map`),
every hazard of the code with the properties aimed at it (`hazards`). For every
property `mutants` names a definition written as a plausible mistake would have
it (a comment "Bug:" or "careless" marks most of them); no specification uses
them, and put in the place of the definition they stand for, each makes TLC
report its property.

Contents: [inventory](#inventory), [modules](#modules), [runs](#runs),
[bounds](#bounds), [fairness](#fairness), [proofs](#proofs),
[findings](#findings), [other divergences](#other-divergences),
[not modelled](#not-modelled), [plan](#plan).

## Inventory

The framework is an asyncio Python package: an application object and its
container wire service providers; on top of it live an ORM, a cache, background
processes, an event dispatcher, broadcasting over WebSockets, Inertia and
JSON:API responses, validation, AI agents and a console. The concurrency is that
of asyncio tasks (an `await` is where another task may run), of threads in two
places (the readers of a process's output, `asyncio.to_thread` of the file
cache), and of several processes that share one database, Redis or directory.

| Component | State it keeps | What is hard | What makes it correct |
|---|---|---|---|
| Transactions (`masoniteorm/connections`) | connection and transaction objects, a ContextVar per task, the registry of transaction records with callbacks | every await may fail or be cancelled; tasks inherit the context; callbacks begin transactions of their own; a pool of one | callbacks run once, after the outermost commit, in order, after the connection is back; none is lost silently or survives |
| Cache locks (`cache/lock.py`, `cache/*_store.py`) | an owner token and an expiration per name | cancellation while the store decides, late answers, expiry during a callback, clocks read too early, rounding | at most one owner acts on the lock; it is given back on every path; block() ends |
| Cache stores (`cache/repository.py`, `cache/*_store.py`) | a value with its expiration per key | reading deletes what has expired; a put is several statements | a put stays until it expires, is replaced or forgotten; nothing old comes back |
| Tags and memo (`cache/tagged_store.py`, `memo_store.py`) | an id per tag, what a task has read | ids are read and created one by one while another task flushes | what a flush hid stays hidden |
| Processes (`process/process.py`) | the child, two reader threads, captured output; the fake and what it recorded | full pipes, timeouts that race exits, callbacks that raise, processes left behind; a fake exchanged while processes run | output is complete, nothing waits for ever; a process runs as configured |
| Migrator (`masoniteorm/migrations`) | the migrations table, the schema, the files | several deployments, crashes between a migration and its row, files that come and go | recorded is applied, once; undone in reverse order |
| Models, casts (`masoniteorm/models`) | attributes, original, dirty | attributes set during an await; check then insert; a value has three forms (given, stored, read) | what was set is written or still dirty; no other column is overwritten; what is read is what was saved |
| Queries and paging (`masoniteorm/query`, `models/builder.py`, `pagination`) | a builder's clauses | text and bindings are made apart; rows change between two pages | each value is bound where its mark is; a walk meets the rows of its query |
| Schema (`masoniteorm/schema`) | a blueprint and its diff | four dialects; SQLite copies the table | the table is what the migration declared, on every platform |
| Relations, collections (`masoniteorm/relationships`, `support/collection.py`) | models, their relations; lists that are shared | matching back by key for a whole result | eager, lazy and where_has() agree |
| Factories (`masoniteorm/factory`) | what is chained on a factory | parents and children made in the middle of a row; a callback that raises | the family asked for, once |
| Broadcasting, Reverb (`broadcasting`) | sockets, channels and their subscribers | a broadcast awaits between subscribers | an event reaches the living subscribers, a private one only the signed |
| Events, application (`events`, `application.py`) | listeners, wildcards, a fake; providers | halting, registration during a dispatch, a dispatcher per provider | order of listeners, one call each; boot after all have registered |
| Container (`container`) | bindings, swaps, hooks | annotations resolved by searching | what is made is made of what it needs |
| Inertia (`inertia`) | flash data and errors in the session, props | two requests of one session; partial reloads, once and deferred props | what is queued is shown once; the page has all the props it is owed |
| JSON:API (`jsonapi`) | include and fields of a resource | cyclic graphs, resources reached twice | full linkage, each resource once |
| Validation, exceptions (`validation`, `exceptions`, `fastapi`) | errors of a request; renderers, reporters | the order of dependencies; exceptions within handlers | only valid forms are handled; each exception is answered and reported as its class says |
| AI agents (`ai`) | conversations, cassettes, middlewares | two sessions on one cassette; a stream abandoned half way | an answer belongs to its conversation; hooks run once |
| Vite (`vite`) | manifest cache, state per request | builds between requests, nested scopes | tags of all chunks, with the nonce of the request |
| Installer (`installer`) | the plan of a project | others write into the directory | what is generated stands on its own, nothing is replaced |
| Redis (`redis`) | connections by name, the prefix of each | a name is purged while tasks use its client; a flush deletes in batches while others write | keys prefixed once, in every form of command; no client lost; a flush is of the cache and whole |
| MCP server, support, FastAPI wiring, storage, mail, notifications, logging, console, skills, testing helpers | drivers | I/O | - (not modelled) |

## Modules

Every module models one component as VARIABLES, Init, one action per operation
(or per stretch between two awaits) and Next. The MC modules give the constants
their values. Four of them check several components in turn, `MCCache`,
`MCLive`, `MCServices` and `MCData`: they EXTEND the modules that have theorems
about them (`CacheLock` and `TaggedStore`; `InvokedProcess`; `CacheStore`,
`Reverb`, `Inertia`, `Installer` and `AgentRecording`; `Models` and `Migrator`), so
that the run and the theorem speak of one definition, and instantiate the others,
side by side, with a variable `part` chosen in the initial state; a step is a
step of the chosen part that leaves the variables of the others alone. Where two
modules are extended at once, Init, Next and Spec have the component's name in
front (`ReverbInit`, `MigratorNext`). Properties are stated for their part, and
hold in the initial state of any other.
The components checked like that do not interact; those that do (`CacheLock`
with its store, `InvokedProcess` with its children, `Session` with
`Transactions`) are composed in their own modules.

### Transactions: `Session`, `Transactions`, `TransactionsProperties`, `AfterCommit`, `MCTransactions`; `TransactionsProofs`, `DeliveryProofs`

`Session` is what the code stands on and is external to the repository:
SQLAlchemy's `AsyncConnection` and `AsyncTransaction`, the pool, and the
database session behind a connection, as far as
`connections/manages_transactions.py` uses them. `fate` records what the
database holds of a transaction's own writes.

`Transactions` is `manages_transactions.py`, `transactions.py` and
`Connection.close`. A task suspended in an await has `pc` and the locals `arg`
its second half needs; `Start...` and `Commit`, `Rollback`, `Close` are the
halves up to the await, `Finish...` and `Fail...` those after it. A failure may
be an error, a lost connection or a cancellation. `ctx` is the ContextVar, which
a task created inside a transaction copies (`Spawn`). `recorded`, `up`, `cbs`
are the registry; `frames` are the loops of `execute_callbacks` on a task's
stack, so that a callback may open transactions and register callbacks itself.
A list of callbacks is the set of its members plus `before`, the order of the
list.

`AfterCommit` is the promise of ADR 006 without savepoints, records or awaits:
one queue per connection, taken as a batch by the outermost commit, run in order
of registration, once. `ImplementsAfterCommit` maps the lists of all records of
a connection to its queue, and what is being released or run to the batches due.

### Cache locks: `Lease`, `CacheLock`, `MCCacheLock`, `CacheProofs`

`CacheLock` has one entry (owner, expiration) and tasks with a Lock object each.
`Get`, `Block`, `Wake`, `EndRun`, `ReleaseHeld`, `HandOver`, `ReleaseRestored`,
`ForceRelease` are what a task does; `Take` (file under flock, Redis SET NX PX),
`Insert`, `Retry`, `Update` (database), `Delete`, `DeleteForced` are what the
store performs some time later, even when the task was cancelled (`Abort`); the
answer comes back in `Resume`. The array store decides without an await
(`AcquireAtOnce`). The database compares with the client's clock, read when the
statement is sent, and stores whole seconds (`RoundUp`). A get() is a block()
whose deadline has passed.

`Lease` is the promise: a lease is granted to one owner, for at least its
seconds from the moment it was asked for, and ends early only when its owner
does not claim it any more or somebody forces it. `claim` is the history that
links the two. A task restores and releases a lock only of an owner whose task
has ended: a live owner whose lock another one releases with its token has
shared it on purpose. The flush of a database store also deletes its locks
(`docs/adr/029-cache-module.md`, line 80) and is the same action as
`ForceRelease`.

### Cache stores: `CacheStore`, `ServicesProofs`

One key, on the store in `driver`. `op[p].at` says which statement or file
operation a task is in. `Read` finds an entry that has expired or that cannot
be unpickled, `Drop` deletes it by its key in a second call. `Update`, `Insert`
and `Update` again are `DatabaseStore.put`. On the array store no step of
another task comes in between (`Runs`). Every put has a value of its own;
`past` holds those the row held before.

### Tags and memo: `TaggedStore`, `MCCache`, `CacheProofs`

An entry is stored under a namespace, the ids of its tags. `TagId` and
`CreateId` read or create one id per call, `Reset` gives one tag a new id;
`Lookup`, `PutEntry`, `ForgetIt` use the namespace read so far. With `memoised`
every read goes through what the task remembers, a miss included. The store
below is one atomic map: the single key of it is `CacheStore`'s business.

### Processes: `InvokedProcess`, `PendingProcess`, `ProcessProofs`

One calling thread (`caller`), two reader threads per process (`stream[p][k]`)
and the children (`proc`). A pipe holds `Cap` writes; a write into a full pipe
waits, a pipe ends when nobody holds its other end, and a child may leave a
process behind that holds its pipes. The calls are `Start` (for a pool, one
after the other), `WriteInput`, `CloseInput`, `Kill`, `Ensure`
(ensure_not_timed_out), `Wait`, `WaitReturns`, `WaitTimesOut`, `Join`. The
processes are used in one of the ways in `Uses`: number, input, timeout, a
callback that may raise, a child that is a filter.

`PendingProcess` is the rest of `process.py`: processes that are configured and
then run, awaited or not, by tasks of one event loop (`run`, `run_sync`,
pipelines), with their timeouts and cancellation, and the fakes that answer them
in tests and record what was run. A fake may be put in force, or taken away,
while others run.

### Migrator: `Migrator`, `DataProofs`

A migration is a row of `Statements` statements, each committed by itself, and
its `down()` undoes them in reverse order. `tables` says how many are applied,
`rows` is the migrations table in order of its ids. Each process goes through a
command statement by statement, so that several can overlap and be killed
(`Crash`). `Deploy` changes which files there are. `order` is history: what is
applied, oldest first.

### Models: `Models`, `Casts`, `DataProofs`

`Models` is one table and instances of its rows, each with its four parts
(`exists`, `attributes`, `dirty`, `original`). A task works on each instance;
`doing` is the await it is in: the observers before and after, the statement.
`Assign`, the dirty test by equivalence (`Same`: 1 and "1" are the same number),
`sync_original`, touch(), delete(), `first_or_create` and `update_or_create`,
which look first and insert later, are the operations of `model.py`,
`attribute.py`, `observer.py` and `builder.py`. An observer may raise, another
task may assign, or write the same row through its own instance.

`Casts` is one field: the cast that follows from its annotation, and its value
as given, as set, as stored by the driver, and as read back (`caster.py`).

### Queries: `Query`, `Paging`

`Query` compiles a chain of builder calls in the four dialects (`BaseGrammar.py`
and its subclasses) to a sequence of tokens, and on its own to a list of
bindings; a token carries the call and the value it stands for, so that whether
the driver binds each value to its own mark is a statement about two sequences.
`Paging` walks over rows with chunk(), chunk_by_id(), paginate() and
simple_paginate(), while the consumer or others delete and insert rows between
two pages. A query is a sequence of disjuncts, the runs of wheres between its
or_where() calls, because the condition that chunk_by_id() appends is part of
the last one; it has a limit and an offset of its own, which chunk_by_id() keeps
and the other walks replace by those of the page.

### Schema: `ColumnTypes`, `Schema`, `Creation`

`ColumnTypes` is what the methods of the Blueprint declare, and each platform's
names for the types. `Schema` alters a table: calls collect a diff, leaving the
block compiles it (on SQLite by reading the table back and copying it), and the
statements run one by one. `Creation` creates one, by a block that may raise,
and does it again. What a database makes of a statement is external: the
operators from `Fail` to `Rebuild` of `Schema`, and from `MayBe` to `CreateIndex`
of `Creation`, refuse what the four databases refuse of the statements that the
code writes for columns of the types the modules name (a type that is missing, a
primary key that may be null, a foreign key of another type than the key it
names, a column that counts by itself with a default, SQL Server's drop of a
column with a default or an index, and so on), on tables with rows whose values
every type can take. A failure is taken back by Postgres and SQL Server; MySQL
and SQLite commit each statement that alters a table, so what was done before
remains, and SQLite's copy may be left empty, or without its table.

`AlteredAsDeclared` and `CreatedAsDeclared` are about migrations that ask for
what can be had: `Ordinary` and `OrdinaryColumn`, `OrdinaryForeign` say which.
What the code itself asks in vain of an ordinary migration is `Refused`, platform
by platform; it is listed under "Other divergences".

### Relations: `Relations`, `Collection`, `Factory`

`Relations` loads each kind of relation for a whole result (one query, matched
back by `group_by` and `where` of the collection) and for a single model, and
asks where_has(), after rows and pivot links were written; the second load of a
result finds it in the order that the first has left. `Collection` is
every method that selects, orders, counts or changes items, on two collections
that may share one list. `Factory` makes rows with for_(), has(), states
and callbacks, factories within factories, one insert per step.

### Broadcasting: `Reverb`, `ServicesProofs`

Each socket has a task of the event loop: it connects, subscribes with or
without a signature, and ends; broadcasts await between two subscribers, so a
socket may subscribe or go away in the middle of one. `due` is history: who was
subscribed when an event was sent and has stayed.

### HTTP: `Inertia`, `JsonApi`, `Validation`, `Exceptions`, `Vite`; `ServicesProofs`

`Inertia` is a browser tab and the middleware: visits, partial reloads, once and
deferred props, version conflicts, forms that redirect; the session is a cookie
that a request carries and a response replaces. `JsonApi` collects what a
document includes over graphs with cycles. `Validation` solves the forms of a
route in post-order, coerces, applies the rules and collects the errors.
`Exceptions` follows an exception through Starlette's two middlewares, the
reporters and the renderers, which may raise themselves. `Vite` renders the tags
of a page in the context of its task, while builds and a dev server come and go.

### AI agents: `AgentPipeline`, `AgentRecording`, `ServicesProofs`

`AgentPipeline` is a model's turn within middlewares that pass it on, await it
or attach a hook, and a consumer that streams and may stop. `AgentRecording` is
two sessions on one cassette: read before the agent is asked, written whole
after it.

### Redis: `Redis`, `RedisProofs`

The connections of `redis/manager.py` by name, with the prefix that each puts
before the keys of a command, alone, in a pipeline (sent one by one) or in a
transaction (sent at once), and the cache's flush, SCAN and UNLINK in batches.
The server is the set of its keys. Tasks ask for a connection while others purge
or disconnect it: the manager forgets a client first and awaits its closing
afterwards. Of each list of commands in `prefix.py` one or two stand for all.

### Application: `Events`, `Container`, `Installer`, `ServicesProofs`

`Events` is the order in which providers register and boot, and the dispatcher
with wildcards, halting, forgetting and a fake, while dispatches are under way.
`Container` is bind, swap, make and resolve with their hooks. `Installer` is the
`init` command: what is asked, the sections of a project (`PlansStandAlone` is an
assumption that TLC evaluates for every choice there is), and the writing of
the files next to others who write.

## Runs

| Run | Instance | Properties, and what they show |
|---|---|---|
| `transactions_single` | one task, 2 connections of a pool of one, 3 transactions, 2 callbacks | Every await may fail, lose the connection or be cancelled. `TypeOK`; `RunsOnlyDurable`: callbacks run for what is durable only; `NoSilentLoss`, `NoSurvivors`: no callback is lost without an error, or survives into a later transaction; `NoSelfWait`: nobody waits for its own connection; `NestedCommitDefers`: a savepoint's commit runs nothing; `ImplementsAfterCommit`: the refinement; `DueIsRun` (liveness): a batch that is due is run or given up with an error |
| `transactions_pair` | two tasks on one inherited connection, or on their own ones; 3 transactions, one callback | `AtMostOnce`: no callback runs twice; `HeldByTransaction`: an open connection without a transaction is being closed |
| `transactions_notqueued` | one task, 2 transactions | violation, see findings |
| `cache_each` | a lock: array with 3 tasks, one-operation store with 2, database with 2; tags: two tags on a shared store, or one under a memo | `TypeOK`; `Exclusive`: one owner acts; `NoLeak`: a valid lock belongs to somebody who has, asks for or releases it, or was aborted; `ImplementsLease`; `FlushInvalidates`: after a flush no get that begins later finds what was put before it |
| `store_database` | three tasks on a key of the database store | violation, see findings |
| `process_filter` | a filter, one write more than fits its pipes | violation, see findings |
| `migrator_other` | two migrations, `--connection other` | violation, see findings |
| `schema_untouched`, `relations_morph` | the schema and the relations of `MCData` | violations, see findings |
| `live_each` | five uses of processes; locks that do not expire; three middlewares | `WaitIsComplete`: a wait() that returns has all output; `NothingHangs`, `LocksEnd`: processes with a timeout or that work end, block() ends and gives back what it ran under; `HooksRunOnce`: hooks run once, and do run when the stream ends |
| `services_each` | every service in turn, see below | `NothingUndone` (a value replaced or deleted in a store does not come back, nothing is deleted but what expired or was forgotten, on the stores where that holds), `ReachesSubscribers`, `Compound` (full linkage, each resource once), `QueuedShownOnce`, `PageIsWhole` (Inertia's props, Vite's tags), `AnswersItsConversation`, `HearsInOrder`, `MadeAsNeeded`, `RequestsAnswered` (forms, exceptions), `RunAsConfigured` (commands and their fakes, Redis connections), `GeneratedIsWhole` |
| `data_each` | every part of the data layer in turn | `RecordedTruly` (what is recorded is applied, once) and `UndoneInOrder` (newest first) of migrations, `CleanIsStored`, `OnlyOwnColumns` and `OneRowAlone` (searches that do not overlap create one row) of models, `WalkIsTheQuery`, `BindingsAligned`, `AsDeclared` (altered and created tables, casts that read as saved), `RelatedAlike` (eager, lazy and where_has(), families of factories), `AsCalled` (collections) |

Deadlock is not checked in any of them: tasks may stop, and counters have
bounds. That nothing waits for ever is stated as liveness where it matters.

## Bounds

Every bound is a constant named `Max...` of its module. They are small because
the properties relate two or three things:

- Transactions: three give a root, a savepoint and either a savepoint below it
  or a transaction begun in a callback; two callbacks are what order and merging
  are about.
- Locks: three tasks are a holder, a waiter and one that forces or restores; two
  suffice for the races of statements, where the third party is an operation left
  behind by a cancelled task. The clock goes on beyond one lease and one wait.
- Stores and tags: a reader of the old entry, a writer and a forgetter; two tags
  are what resetting one after the other needs, three ids are two resets beyond
  the first, or a race of creations and one reset.
- Processes: pipes of two with a filter of one unit of memory hold five units of
  input; six do not fit. Two commands, one of them known to the fake only by its
  wildcard, and two tasks for a fake that changes under a run.
- Migrator: three migrations for a file that appears between two others, two
  statements for one that is half applied, two kills.
- Models: two instances of one row for the stale copy of another's column; three
  values, two of them equivalent; three operations, two searches. Casts: a field
  of every kind of annotation, four operations: construct or assign, save, load,
  read.
- Paging: four rows in pages of one to three give a last page that is full, short
  or empty, with two changes on the way; two disjuncts with and without rows in
  common. A walk over one disjunct ends within the bound of five pages; one over
  two may have no end, and is followed that far.
- Query: two calls, of every pair of methods: order between clauses is a matter
  of pairs. Schema: three calls, for an addition, a change and a drop, one method
  at a time; Creation: four, for a foreign key, its table, an action and a
  modifier of its column.
- Relations: two models, three rows, so that one model has several and one none;
  three writes give two links and a changed key, two loads one that follows the
  sorting in place of another. Collection: two calls, on
  a list with equal keys apart from each other (groups are made of runs) and a
  falsy one. Factory: four calls, for a child with a parent of its own.
- Reverb: two sockets, two users of whom one is allowed, a public and a private
  channel. Inertia: four visits, one submission, a poll that overlaps.
- JSON:API: graphs of two posts, two users who have posts, and a company, with at
  most three paths asked for.
- Events, container, validation, exceptions, Vite: one member of each kind that
  the code tells apart, e.g. a chunk that imports itself through another, one
  that a newer build lost, a form that stops at its first failure, an exception
  whose renderer raises.
- Agents: two sessions with two turns each, three layers, two chunks.
- Redis: two names, so that disconnect() has a second one to go to, three calls
  (a flush, a purge and one that opens the name again), a key that matches the
  cache's prefix only if its `*` were not escaped.
- Installer: every choice of the options for the plan; four of them for the
  writing, two commands at a time and one foreign file.

## Fairness

- Transactions: weak fairness of the second half of every operation, the event
  loop's promise to resume, whatever the outcome; strong fairness of a callback
  ending, since a callback may begin and end transactions meanwhile. Nothing is
  assumed of what a task starts.
- Locks: the clock goes on, a store performs what a living task has sent, the
  loop resumes and wakes tasks, a callback ends. Nothing of operations whose
  task is gone, and not that anybody releases.
- Processes: a call that can return does, the reader threads run; that a child
  reads, writes and ends only where `use.works` says so: a wait() with a
  timeout ends without it.
- Agents: the model goes on sending or ends, an ended response unwinds layer by
  layer, and the event loop closes a generator that was abandoned. Nothing is
  assumed of the consumer.

The other specifications state safety only and have no fairness.

## Proofs

All proofs are for any values of the constants under the `ASSUME` of each
module, which TLC evaluates in every run: `SessionAssumption` (connections and
transactions are finite sets of numbers other than 0), `TransactionsAssumption`
(callbacks are finitely many positive numbers, `Main` is a task),
`CacheLockAssumption` (durations are natural numbers, a tick and a second are
not 0, no task is called "nobody"), `CacheStoreAssumption` (lifetimes likewise),
`InvokedProcessAssumption` (a pool gets no input), `MigratorAssumption` (a
migration has at least one statement), `SeedsAreHistories` (a session is seeded
with a sequence of messages, none of the agent's among them that it is still to
give) and `PlansStandAlone` (every plan the options can
give is whole, which TLC evaluates for all of them). Some hypotheses are named
in the theorem that needs them and assumed in the MC module: `TagsAreNumbers`,
`SocketsAreIds`, `ValuesCompare` (the equivalence of values is reflexive and
transitive, and no value is equivalent to all),
`RedisAssumption` (prefixes, keys and words are texts, and a command writes only
what is among its words), `PendingProcessAssumption` (settings, results).

The two modules about transactions build on each other.

`TransactionsProofs`
- `TypeCorrect`: `Spec => []TypeOK`. `TypeOK` is not inductive: the second half
  of an operation uses what it kept in `arg`. `TypeInv` adds `AwaitOK`, that a
  task in a commit or rollback keeps a transaction, one in a savepoint a
  connection, and one between callbacks has a loop. Lemmas about the operations
  of `Session` and of the registry carry the types; `TypeInvStep` has a case per
  action.
- `CallbacksRunOnce`: `Spec => []AtMostOnce`. `Once` says callback by callback
  that it is in one place, and adds what makes this inductive: a callback that
  was not registered yet, or that has run, is in none. Most steps only take
  callbacks away (`OnceShrinks`); the others put a batch that has left all lists
  (`Leaves`) in the hands of a task (`OnceBatch`), push it as a loop
  (`OncePush`) or merge it into the parent's list (`OnceMerge`).

- `ConnectionsHeld`: `Spec => []HeldByTransaction`. `Begun` is `TypeInv` with
  `Placed` (a transaction that has begun is on a connection that is not free, as
  the root and the savepoints the session reports for it are) and `Named` (what
  a suspended task refers to was begun). Summaries of a step (`Moves`, `Keeps`,
  `Gains`) spare each later proof the case split over actions.
- `NoTaskBlocksItself`: `Spec => []NoSelfWait`, from `Owned`: an open connection
  is the current one of a living task that is not waiting for another.
- `RecordsDieWithTheirRoot`: `ASSUME ~Inherit PROVE Spec => []NoSurvivors`. It
  needs `Apart` (two tasks never work on one connection) and `CloseClean` (a
  connection that is being returned has lost its records), since a record is
  dropped by the second half of an operation, in which another task would
  otherwise have begun a new root.

`DeliveryProofs`, under `~Inherit` and `~AnyOrder`
- `SavepointsDefer`: `Spec => NestedCommitDefers`. `ChainInv` says what the
  registry's records are: `Records`, the chain of the open transactions of a
  connection, each above the one it began in; `Top`, the transaction a task is
  ending is the root or the innermost one; `Nests`, a savepoint that is being
  begun lies in the innermost transaction; and `Shut`, nothing is open on a
  closed connection. From it follows what a detach takes: everything for the
  root (`DetachedRoot`), one record for a savepoint (`DetachedTop`).
- `RunsAfterDurable`: `Spec => []RunsOnlyDurable`, and `NothingIsLost`: `Spec =>
  []NoSilentLoss`. `DeliveryInv` adds to `ChainInv` that writes are undecided
  only on an open connection (`Alive`); that the list of a record holds
  callbacks of its transaction or of savepoints merged into it, and of none that
  a rollback of a later savepoint would undo (`Files`); that an undecided
  callback is on a list, and a durable one has run, is awaited or was reported
  (`Kept`); and that what is awaited is durable (`Due`). Neither property is
  inductive without the other: a list is handed from a savepoint to its parent
  in one step (`Handed`), and becomes a batch in the step that decides its
  writes.
- `QueueIsKept`: `Spec => ImplementsAfterCommit`, the refinement. `PromiseInv`
  is `DeliveryInv`, `Once` and `Order`: callbacks of a savepoint were registered
  after those of the transactions it lies in, and every list is in the order of
  registration. Without it a merge could put a later callback first, which
  `AfterCommit` forbids. `CommitStep`, `RegisterStep` and `PromiseKept` give
  each step of the code its step of the promise; a savepoint's commit stutters.

The two hypotheses are constants of `Transactions` and the setting of
`transactions_single`. `~Inherit`: no task is created inside a transaction, so
that none inherits its connection; the code allows it, and `transactions_pair`
has it. `~AnyOrder`: a program ends the innermost savepoint first, as `async
with` does, unless it ends the root. Both are needed. Tasks that share a
connection may end a transaction under each other's savepoint. And a task that
ends an outer savepoint before an inner one violates `RunsOnlyDurable` and
`NoSilentLoss` with four transactions, one more than the runs have: the registry
drops the records of both savepoints, but the session keeps the inner one as the
innermost transaction. A savepoint begun in it has a record without ancestors:
its commit runs its callbacks although the root is open, and if the root ends
first, its commit does not take them. The proof led to this: `Records` is not
inductive without `~AnyOrder`.

`CacheProofs`, of locks, for every store at once (the database's rounding up is the
lemma `RoundingUp`)
- `TypeCorrect`.
- `OneHolder`: `Spec => []Exclusive`. `Exclusive` follows from `Backed`: who may
  still act on the lock owns the entry, and the entry lasts as long as the
  claim. `Backed` is inductive together with `Asked`: what a task has asked for
  was asked for in the past and would last for its seconds from then, and a
  release under way is that of an owner who claims nothing and is the asker or a
  task that has ended.
- `LockIsLease`: `Spec => ImplementsLease`. Every step of `CacheLock` is a step
  or a stutter of `Lease` under the mapping (`InvStep` proves the two together).
- `NothingLeaks`: `Spec => []NoLeak`. `NoLeak` does not say what a store still
  has to do for a task. `KeptInv` adds `Served`, that this is what the task
  awaits unless it was aborted, and `Kept`, that the owner of a valid entry
  runs, holds it, is being told that it has it, has its release under way, or
  was aborted.

`CacheProofs`, of tags, for any tags, whose names are numbers in their sorted order
(`TagsAreNumbers`)
- `TagsTypeCorrect`, together with `Placed`: an operation that creates an id has a
  tag left to do so for.
- `FlushHides`: `Spec => []FlushInvalidates`, with a memo or without. Every id
  in use was created (`Counted`), so that a new one is greater. What was put
  under tags lies in a namespace with an id of each (`Written`), and a value
  being put is known to nobody (`PutsFresh`). Then what a flush hides from a
  task lies under an id which the task will not read again (`Hidden`), a get
  under way has read, or will read, a newer one (`Avoids`), and a flush under
  way has a tag left that will hide the entry, or has hidden it (`Hides`). That
  a nonempty set of tags has a first (`Smallest`) is the one use of
  well-foundedness. `cache_each` checks the same definition in its part `tags`.

`ProcessProofs`, of start() and pools, for pools and pipes of any size and every way of use
(`InvokedProcessAssumption`: a pool gets no input)
- `TypeCorrect`.
- `NothingMissing`: `Spec => []WaitIsComplete`. `Placed` says what the calling
  thread has done by the time it is where it is: which processes were started,
  and for which of them wait() is over. `Drain` says that a reader that has
  ended has read all, and that nobody holds the other end of its pipe. After
  most steps nothing has begun again (`Quiet`), and one lemma keeps the
  invariant for all of them (`QuietKeeps`).

`ProcessProofs`, of run() and fakes, for any tasks, commands, fakes, settings and outcomes
- `RunsAsConfigured`: `RunsSpec => []RunAsConfigured`. `Awaits`: a task that awaits a
  child has one of its own, of which no call has told yet; `Settled`: a call that
  is over was faked or had a child, which is gone; `Recorded`: the calls that a
  fake has answered are counted by what it recorded, in the same order. The
  order is stated by counting (`FakedBy`).

`DataProofs`, of models, for any instances of any rows, keys and values
- `OthersColumnsKept`: `Spec => OnlyOwnColumns`, an action property, and
  `CleanMeansStored`: `Spec => []CleanIsStored`. `ModelsInv` says of the table
  that its rows have all columns (`Table`), and of each instance what it keeps
  in each await (`Kept`), that only assigned columns are dirty or in an update
  under way (`Assigned`), and how attributes, original, statement and row agree
  between assignment, statement and sync (`Synced`). Agreement is up to the
  equivalence of values, and carries over a sync because that is transitive.
- `OneRowForAValue`: `Spec => []OneRowAlone`. `MadeInv` adds that a call that
  has found nothing holds the value it will insert (`Searching`), and that two
  rows, two calls, or a call and a row, for one value have overlapped
  (`MadeOnce`).

`DataProofs`, of migrations, for any number of processes, files, statements and
kills
- `MigratingRecordsTruly`: `Commands = {"migrate"}` implies `MigratorSpec =>
  []RecordedTruly`. `Owned` says that a migration that is begun and not recorded
  belongs to one process, is applied as far as that has come, and is in no row;
  a file that appears during a run changes none of it. The hypothesis is needed:
  commands that undo leave a row whose migration is half undone when they are
  killed. With them, `data_each` checks the property for one process that is not.

`ServicesProofs`
- `NothingIsUndone`: `Spec => NothingUndone`, for any tasks and lifetimes on
  every store. `OwnValues`: the value of a put under way is its own, and on the
  row only after it was written; `DropsOld`: on the array store what is about to
  be dropped is still there, on redis it was one that cannot be unpickled.
- `LivingHear`: `ReverbSpec => []ReachesSubscribers`. Who is subscribed is open
  and has signed (`Subscribed`); who is due an event has it, is next in the
  broadcast, or is gone (`Reached`).
- `QueuedIsShown`: `InertiaSpec => []QueuedShownOnce`. What is queued was shown
  or is in the cookie, never both (`Carried`), and a form under way is still to
  be handled (`Submitted`).
- `ProjectsAreWhole`: `InstallerSpec => []GeneratedIsWhole`. A command that is
  writing has written the files of its plan up to where it is (`Wrote`), and at
  most one has begun, since the first file keeps the others out.
- `ConversationsAreTheirOwn`: `RecordingSpec => []AnswersItsConversation`. The
  records of a session tell its turns (`Tells`), what is on the cassette, or
  about to be, is a live turn under the history it was given to (`KeptWell`),
  and live turns are told apart by what they say (`Numbered`). The main lemma is
  that two conversations with the same flat list of messages are one.

`RedisProofs`, for any tasks, connections, prefixes, commands and batches
- `ClientsAreKept`: `Spec => []NoClientLost`. `Owned`: a client in the manager
  is its name's; `Tracked`: one that is open is in the manager, about to be
  closed, or was used late; `Listed`: the clients that a disconnect() found and
  has not closed belong to names it still has.
- `FlushIsWhole`: `Spec => []FlushesItsOwn`. `Pending`: what a flush has got and
  not yet deleted is, with the prefix taken off and put on again, the cache's
  own; `StripKey` and `UnlinkTakes` are the lemmas about the two halves.
  Both are parts of the run's `RunAsConfigured`, as `RunsAsConfigured` is. The
  last, `PrefixedOnce`, is about the table of strategies, which TLC evaluates.

Only model-checked, because the prover cannot do it:

- liveness, which needs ENABLED: `DueIsRun`, `NothingHangs`, `LocksEnd`,
  `HooksRunOnce`;
- what is defined by recursion, by a fold or by SelectSeq over data, which needs
  induction with an operator as a parameter: `Compound` (the linkage of a
  document), `MadeAsNeeded` (resolving what is needed for what is needed),
  `HearsInOrder`, `WalkIsTheQuery`, `BindingsAligned`, `AsDeclared`,
  `RelatedAlike`, `AsCalled`, `UndoneInOrder` (a rollback selects rows of a
  sequence), and the composites `RequestsAnswered` and `PageIsWhole`.

`QueuedWhileActive` and the other properties of the violation runs are false,
see below.

## Findings

- `transactions_notqueued` (`connections/transactions.py`, line 80): after the
  release of a savepoint failed, its record is gone while SQLAlchemy still
  reports the savepoint as the innermost transaction: after_commit finds no
  record and runs the callback at once, inside the open root.
- `store_database` (`cache/database_store.py`, line 42): a reader of an expired
  row deletes the row another task has put meanwhile. Files are unlinked in the
  same way (`file_store.py`, line 56), and entries that cannot be unpickled on
  Redis (`redis_store.py`, line 37).
- `process_filter` (`process/process.py`, line 515): start() writes all the
  input before anything reads the output; with a filter and enough input parent
  and child wait for each other, and no timeout is running.
- `migrator_other` (`masoniteorm/migrations/Migrator.py`, line 30): a migrate
  with `--connection other` changes the default connection.
- `schema_untouched` (`masoniteorm/schema/platforms/SQLitePlatform.py`, line
  427): altering a table on SQLite copies it with the types that were read back,
  which loses the size of a DECIMAL and the type of an unsigned integer. When the
  CREATE TABLE is refused, the DROP TABLE before it has been committed, and the
  table is gone.
- `relations_morph` (`masoniteorm/relationships/MorphTo.py`, line 68): records of
  all types are merged, and a model is given the first with its id, whatever
  its type.

## Other divergences

In the models as the code has them, excepted by name from a property where one
meets them, and without a run:

- Transactions: on a connection that tasks share, a savepoint begun under one
  that ends meanwhile counts as a root (`manages_transactions.py`, line 80).
- Processes: Pool.wait() stops at the first timeout and leaves the others running
  (`process.py`, line 241); a pool starts real processes under a fake; quiet and
  tty runs raise subprocess.TimeoutExpired; run() ignores its callback; a run
  that is cancelled leaves its child.
- Migrator: the crash windows between a migration and its row (lines 153, 198).
- Models: a column assigned during the awaits of its own save is marked clean;
  two first_or_create() may create two rows; BelongsToMany writes its timestamps
  in local time while casts read UTC; apply_query drops the pivot's keys when it
  has timestamps, and inferred keys are those of whichever call comes first.
- Casts: in a text column "007" assigned over "7" counts as unchanged and is never
  written; times lose the fractions of a second; an enum member assigned to a
  field goes to the driver as it is; a Decimal annotation is cast to str.
- Paging: after an or_where() outside a group, the condition of chunk_by_id()
  limits the last disjunct only (`models/builder.py`, line 581): rows of the
  others come again on every page, and the walk may not end. `WalkIsTheQuery`
  claims of such a query that its limit is kept and that a walk that ends has met
  every row. chunk(), paginate() and simple_paginate() drop the query's own limit
  and offset (lines 501, 528, 543).
- Schema, creating: morphs() on MySQL is an error (a VARCHAR without length), and
  its type column on SQL Server has one character; morphs().nullable() is ignored;
  create_table_if_not_exists() of a table that exists fails if it has an index,
  and is no statement of SQL Server; the statements run though the block raised;
  some types are unknown to Postgres and SQL Server; a column that counts by
  itself and is made nullable, unsigned or given a default is refused by one
  platform or the other.
- Schema, altering: SQLite's copy loses the indexes of columns that the migration
  does not touch, and the primary key of a table keyed by a uuid
  (`SQLitePlatform.py`, line 214), and a rename on SQLite and MySQL loses the
  default of the column and that it may be null; a copy that fails loses the
  rows or the table. Postgres refuses two renames in one migration
  (`PostgresPlatform.py`, line 228), and the change of a text with a default to a
  number with another. SQL Server refuses to drop a column that has a default or
  an index, even one that the migration drops too (`MSSQLPlatform.py`, lines 115
  and 169), and to change the type of one that has an index.
- Factories: count(1) returns a model and no list; a has() child with its own
  for_() makes a stray parent; the parents of a list that for_() refuses remain.
- Collections: push() after reverse() fails, and so does zip() with a collection
  that was reversed; contains(key, value) with a falsy value looks for the key
  instead, for_page(page, number) is the slice from page to number; where_in() and
  where_not_in() of no values call themselves without end (`collection.py`, lines
  449 and 472); max() and min() of a single item without the key are the item;
  reject() leaves everything where nothing would be kept.
- Broadcasting: `@channel("orders.{order_id}")` of the docstring never matches
  "private-orders.1".
- JSON:API: a nested include of a resource that was reached by another path first
  is not followed.
- Validation: only the last dependency of a route raises the errors of all
  (`docs/adr/048-async-first-validation.md`, line 56); on a route that names a
  form twice FastAPI answers the last from its cache, so that no one raises and
  the handler gets nothing for an invalid form.
- Exceptions: a handler with report() alone answers None, which is an
  AttributeError; a bare HttpException has no status and raises
  NotImplementedError; RequestHandled tells of a 500 when an application's
  renderer answered otherwise; renderers and reporters match exact classes only.
- Container: when one listener of an action is due, all listeners of it are called,
  whatever they listen for.
- Redis: a task that holds a connection and uses it after a purge opens its client
  again, and nobody closes it (`late` in the model).
- Installer: an unknown key of a template is not caught by handle(); an `init`
  that is interrupted leaves its files, and the next one refuses the directory.

## Not modelled

- The MCP server, `support` apart from collections, the FastAPI wiring, storage, mail and notifications, logging,
  configuration, console, skills and the testing helpers: one call per operation,
  I/O or wiring, with no state that a step of another could disturb.
- Transactions: the queries themselves, a transaction SQLAlchemy began by itself,
  and the manager of several named connections.
- Locks: names do not interact, so there is one. Stores: key formatting, lookup
  of stores by name.
- Redis: publish and subscribe, the configuration of a client, commands whose keys
  are in their options, and what a pipeline answers.
- Migrator: a migration chosen by name, the dry run, a TypeError raised inside a
  down(), and kills of commands that undo.
- Models: scopes, soft deletion, one instance saved by two tasks at a time.
  Queries: vector columns, increments, date and regular-expression clauses.
- Schema: comments, full text indexes, names given to keys, foreign keys of an
  altered table, dropping its unique and primary keys, adding a column that counts
  by itself to it, renaming, dropping and truncating tables.
- Relations: nested loads, callbacks, pivot columns and counts. Collections: their
  serialisation, and collections of models. Seeders.
- Reverb: the parsing of frames and of channel patterns, the log driver.
- Inertia: merge and scroll metadata, history flags, server-side rendering.
  JSON:API: links, meta and paginators. Validation: aliases, custom messages,
  email, url, closures. Vite: integrity and the attribute resolvers.
- Agents: audio, images, embeddings, documents, the judge.
- The text of SQL, messages, generated files and logs.

`PROJECT.json` gives the status of each component and what it leaves out.

## Plan

All components of the inventory whose state is shared or lives over several
steps are modelled, and the safety properties of those whose state is not a
sequence to be walked over are proved. What a continuation would take up:

1. `UndoneInOrder` of `Migrator`, with the migrations table as a set of rows
   with ids in place of a sequence, for one process that is not killed.
2. `KeysetMeetsAll` of `Paging`; of `AgentPipeline`, that a hook which has run
   does not run again.

Sequences that a proof has to walk over are read by their ranges there.
