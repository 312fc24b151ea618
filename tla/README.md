# Espalier in TLA+

Espalier is a TypeScript ORM: a JDBC-like driver layer, an entity and
repository layer over it, and packages for event sourcing, tenants, migrations,
change notification and testing. This directory keeps formal models of the
parts whose correctness depends on the order in which things happen, the TLC
configurations that check them on small instances, and TLAPS proofs of the
properties that matter most. Paths below are relative to `packages/`.

- [Inventory](#inventory): the components, their state and what can go wrong
- [Modules](#modules): which module models what, and how it corresponds to the code
- [Runs](#runs): what TLC checks, with which bounds and fairness
- [Where the code departs from what it says](#where-the-code-departs-from-what-it-says)
- [Proofs](#proofs)
- [Not modelled, and the plan](#not-modelled-and-the-plan)

How to run: `tlc -config Outbox.cfg MCOutbox` checks a model, `tlapm
OutboxProofs.tla` a proof. `PROJECT.json` lists the runs, maps every definition
to the lines it models, gives for every property a mutation of the model that
breaks it, and lists the hazards the properties are for.

## Inventory

About 41,000 lines of TypeScript without tests, of which `data` has half.

| component | state it keeps | operations | modelled by |
|---|---|---|---|
| **Event store**, `event-sourcing/src/store`, `aggregate`, `plugin` | the event table (unique aggregate and version, global sequence), aggregates in memory | `append`, `loadEvents`, `apply`, `loadFromHistory`, `markEventsAsCommitted` | `EventStore` |
| **Snapshots**, `event-sourcing/src/snapshot` | one row per aggregate | `save`, `load`, `delete` | `Snapshots` |
| **Outbox**, `event-sourcing/src/outbox` | the outbox table, the interval timer, polls in flight | `writeEvents`, `fetchUnpublished`, `markPublished`, `cleanup`, `start`, `stop` | `Outbox` |
| **Projections and replay**, `event-sourcing/src/projection`, `replay` | a position in the global sequence | `processNewEvents`, `rebuild`, `replay` | `Projection` |
| **Messages**, `data/src/events`, `event-sourcing/src/adapter`, `command` | arrays of handlers, a map of subscriptions, middlewares | `on`, `once`, `off`, `emit`; `subscribe`, `publish`; `register`, `use`, `dispatch` | `Buses` |
| **Change notification**, `realtime` | channels, queues of notifications and of asks, connections of browsers | `listen`, `unlisten`, `start`, `stop`, `watch`, `close`, the SSE handler | `Notifications` |
| **Repository**, `data/src/repository`, `mapping` | entity cache (identity map), query cache, snapshots of the change tracker; rows | `findById`, `findAll`, `save`, `delete`, `deleteById`, `refresh` | `RepositoryCache` |
| its writes of many rows | transactions of several statements | cascades; `saveAll`, `upsertAll`, `deleteAll`, `findAllStream` | `Cascades`, `BulkWrites` |
| its loads of many rows | chunks, promises that are shared | relations, lazy proxies, the query batcher | `Relations` |
| its questions | none, or compiled queries | builders, criteria, finders by name, filters, pages | `QueryBuilding`, `DerivedQueries`, `Filters`, `Pagination` |
| **Caches**, `data/src/cache`, `query/prepared-statement-pool.ts`, `jdbc/src/statement-cache.ts` | maps, linked lists, limits, expiry | `get`, `put`, `evict`, `invalidate`, `clear` | `LinkedCaches` |
| **Trees**, `data/src/tree` | a closure table, or a path per node | `insertNode`, `moveNode`, `deleteNode` and queries | `Trees` |
| **Endpoints**, `data/src/rest`, `graphql` | none; the cache they share | get, update, delete, restore and list | `Endpoints` |
| **Migrations**, the runners of `jdbc-pg`, `mysql`, `sqlite`, `data/src/migration` | the migration table in every schema | `initialize`, `run`, `rollback`; `runAll`, `rollbackAll` over tenants | `Migrations` |
| **Schema diff**, `data/src/migration/schema-diff.ts`, `schema/ddl-generator.ts` | none; the catalogue | `diff`, `generateMigration` | `SchemaDiffs` |
| **Tenant schemas**, `data/src/tenant/tenant-schema-manager.ts` | schemas and tables, an advisory lock | `provisionTenant`, `deprovisionTenant`, `listTenantSchemas` | `TenantProvisioning` |
| **Connections**, `data/src/tenant/tenant-aware-datasource.ts`, `proxy`, `jdbc-pg` | `pg`'s pool, the proxy's idle stack, `search_path`, transaction and ping time of each connection | `getConnection`, `beginTransaction`, `commit`, `rollback`, `close`, eviction, shutdown | `Connections` |
| **Adapters**, `jdbc-pg`, `mysql`, `sqlite`, `libsql`, `d1` | sessions, handles, parameters, buffers | transactions, statements, batches, cursors | `DriverTransactions`, `Statements` |
| **Routing and health**, `data/src/tenant`, `jdbc/src/health.ts` | routes, turn of the replicas, context, checks under way | `getConnection`, `addTenant`, `runReadOnly`, `check`, `checkAll` | `Routing`, `HealthChecks` |
| **Plugins**, `data/src/plugin` | order, contexts, hooks, middlewares | `register`, `init`, `destroy`, `removePlugin`, `executeHooks` | `Plugins`, `Dependencies` |
| **Testing**, `testing` | one connection, savepoints; the table of seeds | `withTestTransaction`, `withNestedTransaction`, `testMigration`; `run`, `reset` | `Testing` |
| DDL text, GraphQL and OpenAPI schemas, search, vectors, audit, decorators, observability, studio, CLI | none over time, or reports only | text generation, glue | not modelled |

How they interact. A repository asks a `DataSource` for a connection per call
and closes it at the end; `DataSource`s nest (tenant over proxy over PostgreSQL
pool). `EventSourcingPlugin` sits in the repository's save hook, appends the
aggregate's events through the event store, and may write outbox rows. The
publisher polls the outbox table from a timer; projections read the event table.
Migration runners and the schema manager work on the same schemas as the
connections of tenants do.

What is hard everywhere: the program has one thread but every `await` is a point
where another call runs, and instances, caches and pools are shared between
calls. Several processes share the database. A connection, a statement, a commit
acknowledgement or the whole process may be lost at any await.

What makes each modelled component correct:

- *Event store*: streams have versions 1..n whoever appends; a batch is stored
  whole or not, once; the two orders in which events are read agree.
- *Outbox*: a committed event is delivered at least once, one that is not
  committed never; overlapping polls and crashes lose nothing.
- *Projections*: a call handles every event that was there, once, in order, and ends.
- *Repository*: no update is lost; caches hold what is committed; an entity that
  the dirty check calls clean has the row's data.
- *Migrations*: the migration table tells what the schema is, without holes,
  after any crash and with several deployments; every tenant is reported.
- *Provisioning*: the limit holds; a provisioned tenant is complete; the
  advisory lock comes back.
- *Connections*: a connection is in one place; a session works in its tenant's
  schema; pools hold reset connections; nobody waits for ever; close ends all.
- *Adapters*: a transaction's statements reach its session, and end with it; a
  value reaches the placeholder it was set for; a cursor yields its result once.
- *Loads and questions*: what is answered was so while it was awaited; what is
  sent means what was asked for; a walk through pages meets every row that stays.
- *Writes of many rows*: all or nothing, in the order the keys need.
- *Trees*: forests, which the closure rows or the paths tell.
- *Messages and notifications*: whoever is registered throughout is called once;
  readers end.
- *Routing, health, plugins, tests*: a caller gets its tenant's source; UP was so;
  what is alive has its dependencies alive; a test leaves nothing behind.

## Modules

In every module the actions are the stretches of code between two awaits, so a
handler with three awaits is a chain of actions guarded by a program counter.
What a database or a driver does (row locks, unique keys, `search_path`,
`ROLLBACK`, the queue of `pg`'s pool) is modelled from how the code relies on
it and marked external in the map. Payloads, SQL text, logging and metrics are
abstracted away.

| module | models | correspondence |
|---|---|---|
| `EventLog` | what the event store promises | an append-only log per aggregate; one action that adds a whole batch at a length the writer knew |
| `EventStore` | `EventStore.append` and `AggregateBase` | `AppendCall`, `CheckVersion` (`SELECT MAX(version)`), `Insert` (or `UniqueViolation`), `Commit`; `pc` is the await the session is at. `events` is the committed table, `inflight` the rows inserted and not yet committed, `nextSequence` the `BIGSERIAL`. `Commit` may lose its acknowledgement |
| `RepositoryCache` | `derived-repository.ts`, `entity-persister.ts`, the change tracker, both caches | `FindHit`/`FindMiss`/`FindRead`/`FindPost` is `findById`; likewise `FindAll*`, `Save` to `Commit`, `Delete*`, `DeleteById*`, `Refresh*`. Entities are numbers with fields (`obj`), so that two callers can hold the same cached instance; an instance nobody references is reused. A row's data is the set of edits made to it, so that a lost update is an element that disappears |
| `AtLeastOnce` | what the outbox promises | an event is committed, then delivered at least once |
| `Outbox` | `OutboxStore`, `OutboxPublisher`, the plugin's `autoOutbox` | `Change`, `Commit`, `RollBack` are the entity's transaction with the row in it; `PluginWrites` is `autoOutbox`; `FetchUnpublished`, `Publish`, `MarkPublished` (one chunk each) are a poll; `Cleanup`, `Start`, `Stop`, `Crash` |
| `Projection` | `ProjectionRunner`, `EventReplayer`, `loadAllEvents` | `Call`, `LoadBatch`, `Handle`, `BatchDone` are the loop; `Insert` draws a sequence number and `EndTransaction` shows or wastes it |
| `Migrations` | the three migration runners and `TenantAwareMigrationRunner` | `Call` is `runAll` or `rollbackAll`, `StartChunk` and `Settle` its `Promise.allSettled`; `Initialize`, `ReadApplied`, `RunStatements`, `Record`, `Count` are a runner. `record[s][v]` is the table's row, `effect[s][v]` how often the statements of `v` are in effect |
| `TenantProvisioning` | `TenantSchemaManager` | one action per statement: `Lock`, `Count`, `Unlock`, `CreateTenantSchema`, `CreateTable`, `DropTenantSchema`; `Break` is a failing statement |
| `Connections` | `TenantAwareDataSource` over `ProxyDataSource` over `PgDataSource` over `pg` | `GetConnection`, `Borrow`, `Validate`, `Connect`, `Grant`, `Ping`, `SetSearchPath`; `BeginTransaction`, `EndTransaction`; `Close`, `Reset`, `Discard`, `ReturnToProxy`; `EvictIdle`, `CloseProxy`, `CloseInner`; `Die` is a backend that ends |
| `Snapshots` | `SnapshotStore`, and rehydration by `loadEvents(fromVersion)` and `loadFromHistory` | a state is the sequence of the events applied to it, so that one applied twice, or left out, is seen; `LoadSnapshot`, `LoadHistory`, `SaveSnapshot`, `AppendFrom` |
| `DriverTransactions` | `beginTransaction`, `commit`, `rollback`, savepoints and `close` of eight adapters | `session` is the database session a connection's statements reach: one each, one shared handle, one shared client, or one per transaction |
| `Statements` | prepared, named and batch statements of the adapters, statement cache and statement pool; the three streaming result sets | a text is the sequence of its placeholders; the conversion of each adapter is an operator from text and values to what the database runs. A cursor's `Next`, `Read`, and `setCursorSize`, `pause`, `resume` during a read |
| `LeastRecentlyUsed`, `LinkedCaches` | what a bounded cache promises; the four caches as map, list and index | one action per public method, each of which names the call in `asked`; `CachesAreLru` is the refinement: the order of the last uses is read off the links, and no call may leave it as it was unless its key is the most recent already |
| `Cascades` | `CascadeManager` and its calls of the persister | a stack of frames, as in the recursion of the code, over every graph of three entities; the transaction that `save` opens around them and the database may abort (`AbortedStatement`, `RolledBack`), and none around `delete`; rows and join rows that are there before |
| `BulkWrites` | `saveAll`, `upsertAll`, `deleteAll`, `findAllStream`, `count` | one action per statement, over row locks, with both caches |
| `QueryBuilding`, `DerivedQueries` | the builders; names to descriptors, compiled queries, binding | placeholders are numbered while the tree is walked; every value is a new number, so one that lands elsewhere is seen |
| `Filters` | global filters, contexts, the tenant filter | what each read leaves out, from the table or a cache |
| `Relations` | relation loader, lazy proxies; batched loads | one action per statement; `everTrue`, `alwaysTrue` record what was so during the load |
| `Pagination` | the three strategies and `findAll(pageable)` | a client that walks while rows change |
| `Trees` | `ClosureTableManager`, `MaterializedPathManager` | one action per statement; `parent` is the tree that the effects of the statements have made |
| `Buses` | `EventBus`, `InMemoryEventBusAdapter`; `CommandBus` and its middlewares | arrays and maps are objects that running emits share; a dispatch is a stack of middlewares |
| `Notifications` | `ChangeNotificationListener`, `PollingChangeDetector`, `ChangeStream`, the SSE handler | an async generator is its queue of asks and where it stands |
| `Endpoints` | REST routes and GraphQL resolvers of one row | handlers cut at their awaits, sharing the cached instance |
| `Routing` | `TenantRoutingDataSource`, `ReadReplicaDataSource`, their contexts | contexts are a stack; a getConnection reads it when it is called |
| `HealthChecks` | registry, composite and checks, `warmUp` | `Acquire`, `CloseProbe`, `TimesOut` race; ages of the replica's lag |
| `SchemaDiffs` | `SchemaDiffEngine`, `generateCreateTable`, the introspector | `GetTables`, `GetColumns` one by one; scripts are sequences of statements, run in a transaction that refuses what the database would |
| `Plugins`, `Dependencies` | `PluginManager`, `composeMiddleware`; the depth-first order | calls cut at their awaits |
| `Testing` | `SeedRunner`; `withTestTransaction`, `withNestedTransaction`, `testMigration` | one action per statement, several runners; one client, which repositories of the body close |

`MC...` modules give the constants of these modules values that a `.cfg` cannot
write. They are also harnesses: each `EXTENDS` several modules that do not share
state and has a variable `part`, chosen in `Init`, that says which of them moves
while the others stay in one initial state. A run is then the union of the
state spaces of its parts, not their product, and an invariant of one part is a
conjunct of an invariant of the run. Where a program is configured, the model has
a variable that is chosen in `Init` and never changes (`setting`, `kind`,
`relation`), so that one run covers several configurations.

## Runs

| run | instance | distinct states |
|---|---|---|
| `event_store` | 2 sessions, 2 aggregates, 2 applied events each, 4 sequence numbers; and the parts below | 500,000 |
| `repository` | 2 callers, 1 row, 5 instances, versions up to 2, 5 settings; and the parts below | 654,000 |
| `outbox` | 3 events (1 by the plugin), 2 overlapping polls, batch 2, chunk 1, 1 fault; pages; routes | 469,000 |
| `projection` | 4 sequence numbers, batch 2, 2 calls, both kinds of driver; loads, relations, snapshots | 250,000 |
| `migrations` | 2 schemas, 2 versions, 2 deployments, 3 calls, 1 fault, 3 settings; notifications, diffs | 168,000 |
| `tenant_provisioning` | 2 admins, 3 schemas, 2 tables, limit 1, 4 calls, 1 fault; caches, plugins, seeds, tests | 147,000 |
| `connections` | 2 sessions, 2 tenants, 2 clients, proxy pool of 1, 2 pings, 3 calls, 1 fault, 3 settings; health | 124,000 |

Five more runs each find a violation; they are in the next section. An invariant
that is the conjunction of several is spelled out in its module.

**`event_store`** (`EventStore.cfg`). Parts:

- *event store*. `VersionsContiguous`: versions of an aggregate are 1..n and
  taken once. `SequenceFollowsVersion`: reading by sequence and by version gives
  the same order, although the number is drawn before the commit (the unique key
  makes the later writer wait or fail). `StoredAsApplied`: a batch whose
  acknowledgement was lost cannot be stored again, and what is stored is what
  `apply` made. `ImplementsEventLog`: the table refines the append-only log. Two
  sessions make a race, two aggregates show that streams do not disturb each
  other, two events make batches longer than one, and retries.
- *transactions* (`DriverTransactionsHold`), for six adapters, two callers, a
  savepoint and a fault: all or nothing, and what autocommit wrote stays. The two
  that are left out do the same as others: `bunsqlite` as `sqlite`, `denopg` as `pg`
  when no isolation level is refused.
  Adapters whose connections share a handle or a client are held to less, named in
  the property.
- *statements, cursors* (`ValuesArrive`): two values, three rows, reuse through
  both caches of statements; results up to five rows read by one, two or three.
- *trees* (`TreesHold`): three nodes, two callers, three calls, one death between
  two statements, both managers. The disorders that races make are named in the
  property; any other is a violation. So is the level by which `findDescendants`
  of the paths falls short of its `maxDepth`, see below.
- *buses, commands* (`MessagesHold`): two handlers, two emits that overlap, up
  to three in all; every chain of at most three middlewares.
- *endpoints* (`EndpointsHold`): two requests for one row, REST and GraphQL.

Safety only; sessions and aggregates are symmetric, separately.

**`repository`** (`RepositoryCache.cfg`). Parts:

- *repository*. `NoLostUpdate` (an action property): no step removes an edit from
  a row, with two calls on single entities interleaved at every await in transactions that
  may roll back, and, for calls (`findAll` among them) one at a time, beside another process and with throwing
  callbacks. `CoherentCaches` and `CleanMeansStored` hold for calls one at a
  time, with expiry and roll backs; two at once break them, see below. One row
  suffices since nothing in the handlers relates two rows but `findAll`, for
  which a row that is there or not is the distinction; five instances are what
  two callers and both caches can reference at once there.
- *cascades* and *bulk* (`WritesAreWhole`): every graph of three entities with
  cycles, collections and join tables, new, or stored and linked before, clean,
  edited or stale, with statements that are refused: a `save` stores its graph or
  nothing, and tells so unless an ignored duplicate has aborted its transaction;
  lists of two rows written by two callers and read by streams.
- *builders*, *finders*, *filters* (`QueriesMeanWhatIsAsked`): all clauses with up
  to two values each; every operator alone, every pair, and some triples, with
  empty and longer arrays; contexts within one another over rows of two tenants.

**`outbox`** (`Outbox.cfg`). `NothingLost`: a row that no poll fetches again was
delivered. `OnlyCommittedDelivered`: for rows on the entity's connection.
`ImplementsAtLeastOnce`: refinement of `AtLeastOnce`, liveness included. Batch 2
of 3 events makes a poll leave one behind; chunk 1 makes marking two statements;
two polls overlap as `setInterval` does not wait. The two events that are not the
plugin's are interchangeable, so the second changes only after the first. *Fairness*: `WF(Start)`, since a
publisher that is down is started again by whoever runs it; `WF` of each poll's
next step, since the timer fires again and again and promises settle. Faults are
finite: for an entry that can never be published the code promises nothing.
*pages* (`PagesHold`): three rows with two values and NULL, two changes, walks of
four pages, in every strategy and direction. *routes* (`RoutingHolds`): two
tenants, one with two replicas, two contexts, a route changed and `close()`.

**`projection`** (`Projection.cfg`). `EveryEventOnce`, `CallEnds`. Four numbers and
batches of two give full, short and empty batches, and numbers that commit out
of order between them. `LoadsAreTrue`: three loads by id in chunks of two;
relations of three parents, moved three times; two holders of an aggregate of up
to four events, with snapshots saved late, overwritten and deleted.
`LoadsAndReadersSettle`: nobody waits for a load for ever. *Fairness*: the loops
go on and awaited statements settle; appends and writers need none.

**`migrations`** (`Migrations.cfg`). `SchemasInOrder` (the table tells the schema,
no holes), `ReportsHold`, `CallReturns`. The settings are two deployments of which
one has edited a migration, in one chunk; runs and rollbacks, tenant after tenant;
and MySQL. Two versions are needed for an order, one of them guarded (its
statements fail when repeated) and one not, as only the primary key of the
migration table protects the latter. Three calls let a third one meet what two
left behind. Nothing in the code protects a rollback from another call, so in the
model a rollback has the schemas to itself; see below. *Fairness*: the awaits of a
call settle. *notifications* (`NotificationsHold`, `NotificationsEnd`): three
changes, two connections of browsers, a queue of two, one fault. *Fairness*: an
answer of the database comes, and a generator that is asked goes on. *diffs* (in
`ReportsHold`): two entities, one referencing the other, in either order, over a
catalogue that is empty or has older columns and other tables, by two architects
with four scripts.

**`tenant_provisioning`** (`TenantProvisioning.cfg`). `LimitHoldsUpToRaces`,
`CallReturns`. Limit 1 with three schemas and two admins lets the race exceed it.
*Fairness*: `SF(Lock)`, since PostgreSQL queues who waits for an advisory lock;
`WF` of the other statements. `MapListAndIndexAgree`, `CachesAreLru`: three keys,
two owners, two entries each and three in all, so that a get decides which key the
next put pushes out (evicting in the order of the puts is one of the mutants).
`SetUpHolds`: a provisioned tenant is complete; plugins over every graph of three
(their order) and two graphs (their life, two callers, an `init` or a `destroy` that
throws, and what that leaves); two seeds, two runners, a crash; two tests with
another user of the pool.

**`connections`** (`Connections.cfg`). `ConnectionsInPlace`, `TenantIsolation`,
`IdleIsReset`, `WaitersAnswered`, `CloseEndsEveryClient`. Settings: one client
for two sessions with validation and pre-ping; no checks, on a server that
refuses an isolation level; no reset on release. Three calls of two sessions let
a connection pass from one tenant to the other and back. *Fairness*: `WF` of what
a session awaits; `SF(Close)`, sessions end; `SF(Grant)`, `pg` serves its queue
in order; `WF(EvictIdle)`, the cleanup timer keeps running; `WF(CloseInner)`,
`close()` goes on; `WF` of a check's steps, of which its timer is one. That every
`getConnection` returns needs the eviction timer: the proxy keeps a returned
connection while somebody waits in the queue of `pg`, which does not know of it.
*health*: two checks at once over a pool of two, five kinds of members.

All runs say `CHECK_DEADLOCK FALSE` in which the bounded number of calls ends.

## Where the code departs from what it says

Each of these is a run that TLC must find violated.

- `event_store_second_save`: after `markEventsAsCommitted` the aggregate's version
  is still the loaded one, so the next event of the same object is numbered with
  a version that is taken, and the next `append` is refused
  (`aggregate-base.ts:89`).
- `repository_ghost`: a save refused by the version check evicts the entity cache
  and not the query cache, and the next `findAll` puts the refused instance back
  (`entity-persister.ts:329`).
- `projection_any_driver`: with a driver that returns `BIGSERIAL` as a string
  (node-postgres), the loop ends after the first full batch (`projection.ts:85`).
- `tenant_limit`: the advisory lock is given back before `CREATE SCHEMA`, so two
  callers exceed `maxTenants` (`tenant-schema-manager.ts:106`).
- `connections_contaminated`: a connection in an aborted transaction refuses both
  the reset and `DISCARD ALL` and goes back with the tenant's `search_path`
  (`tenant-aware-datasource.ts:116`). `TenantIsolation` holds all the same,
  because `getConnection` sets the path anew or fails.

Behaviour met while modelling that no property asserts or forbids, or that a
property excepts by name:

*Repository and caches*
- A stale entity after a delete: `findById` reads the row, awaits its callbacks while
  `deleteById` deletes and evicts, and then puts the deleted row in the cache
  (`derived-repository.ts:687`). A stale result of `findAll` likewise (`:1170`),
  also when the SELECT runs while the save's transaction is open, as the
  invalidation precedes the commit. A refused delete tells neither cache.
- An edit of another holder between the copy and the snapshot of `refresh` counts as
  loaded, and the save that should write it is skipped (`:1658`).
- `upsertAll` sets the version without asking for the row's, and clears the caches
  before its COMMIT (`:1283`, `:1314`). A stream that fails in its first statement or
  is abandoned keeps its connection (`:1445`).
- A cascaded UPDATE with a stale version changes nothing and tells nobody; the remove
  cascade is one level deep; ids of related entities stay assigned after a roll back; the
  children of a collection are looked up by the driver's type of the key.
- A join row that is there already is refused with 23505, which the cascade ignores
  (`cascade-manager.ts:201-203`, `:548-550`) inside the transaction of `save`
  (`derived-repository.ts:1188-1206`). PostgreSQL has aborted that transaction: the next
  statement fails, or, if there is none, COMMIT rolls back and `save` resolves with
  nothing stored. The join table's primary key are both its columns, so this happens
  to any pair that is stored already.
- `delete` opens no transaction (`:1341-1346`): when a removal is refused, what the cascade
  has removed before it stays removed. The save of a clean root sends no UPDATE and asks
  for no version (`entity-persister.ts:181-191`), so a stale one goes unnoticed.
- Filters: an entity-cache hit of `findById` skips them; one registered after the
  repository was made is ignored; a nested `withFilters` replaces the options;
  `findAll(projection)` runs its statement without setting its parameters (`:1082`).
- Soft-deleted rows that are listed enter the cache and `findById` finds them (`:1736`).
- Two updates of a row at once share the cached instance: the first stores the fields of
  the second, which is told of a conflict (`route-generator.ts:302`); an update
  that the database refuses leaves its instance assigned.
- A cached derived query has no projection class in its key (`derived-query-handler.ts:303`).
  A word that ends in a digit is not split before And and Or. SimilarTo is first in
  the ORDER BY of the compiled query and last in the built one, leaves the `$n` after
  it unbound when it precedes In, and is always cosine when compiled.

*Queries and pages*
- Keyset pages start over, and relay pages end, at a row with NULL; offset pages have no
  tiebreak, and divide by the size that was asked for (`offset-strategy.ts:42`); the
  count and the page come from two connections. The GraphQL adapters for cursors and
  keysets are always refused by `findAll`; its offsets are not clamped.
- A `maxBatchSize` of 0 loops for ever; `clear()` of the batcher forgets loads that wait;
  a lazy proxy whose load failed stays failed; the chunks of a relation are separate
  statements, and rows move between them.

*Adapters*
- A pooled prepared statement keeps the parameters of its last user; the statement cache
  closes a statement in use; adapters with `?` bind `$2 … $1` wrongly; D1 and libsql
  replace `$n` in literals; `executeBatch` never forgets its rows, and a multi-row INSERT
  is as wide as the first row; a cursor whose size grows during a read ends early.
- `close()` of one Bun connection closes the client of all; SQLite connections share a
  transaction; COMMIT of an aborted PostgreSQL transaction resolves; two first
  `getConnection` calls of libsql make two clients.
- The proxy's wrapper has no flag: a second close pushes the connection twice
  (`proxy-data-source.ts:201`). A connection closed with its transaction open is reset
  inside it; the next ROLLBACK brings the old `search_path` back.

*Trees, tenants, routing, health*
- `findDescendants` of the materialized paths allows a path `depth + maxDepth + 1`
  separators (`materialized-path-manager.ts:60-65`), where a node of depth `d` has
  `d + 2` of them: it answers the levels less than `maxDepth` below the node, none for 1,
  and not, as its comment says, those up to `maxDepth`, which the closure table does.
- A failing unlock leaves the advisory lock with a pooled session. Join tables of a
  tenant are created without the schema (`tenant-schema-manager.ts:143`).
- A source put in place during or after `close()` is never closed.
- The timer of a connectivity check closes a connection that its probe closes again. The
  lag of an idle primary grows; none counts as UP; lag and schemas have no timer; a
  check left out for its rate is UP; a full pool is DOWN though nobody waits.

*Schemas*
- A diff drops the foreign keys that its own CREATE TABLE made, and every table without
  an entity, join tables and the migration table among them; a down script has no
  schema; REFERENCES has none either; tables are created and dropped without regard to
  references; TIMESTAMP differs from itself for ever (`schema-diff.ts`). A type that is
  inferred from a default is INTEGER for the DDL and TEXT for the diff.
- A rollback beside a run, or two rollbacks, make holes in the versions, or revert one
  twice; `rollback(0)` is `slice(-0)`, which is every migration. `continueOnError =
  false` does not stop later chunks (`tenant-migration-runner.ts:14`, `:128`). MySQL
  repeats statements after a crash. The runner sorts by `localeCompare`, the
  database by its collation.

*Events and messages*
- Events applied while `append` is awaited are dropped by `markEventsAsCommitted`
  (`event-sourcing-plugin.ts:100-107`). `append` asks for the version again in a
  transaction PostgreSQL has aborted. `autoOutbox` writes on a connection of its own,
  so a crash loses the event and a roll back publishes one that never was. A number
  that commits after a higher one was handled is behind the checkpoint for ever. An
  entry that cannot be published keeps its batch unmarked. `snapshotEvery` is unused,
  and an aggregate from a snapshot alone has version 0.
- An emit that ends deletes a list that handlers have begun meanwhile; the comment of the
  retry middleware has its order the wrong way round, and errors that are thrown are not
  retried; a list of subscriptions changes under a publish.
- A LISTEN whose connection is refused keeps the channel taken, one that fails keeps the
  connection; all browsers share one iterable, and a reader of one that is gone takes
  an event with it; `Last-Event-ID` replays nothing; two watches share one controller;
  `close()` is seen at the next change only.

*Plugins and tests*
- `destroy()` throws for ever once a plugin that others need was removed; a plugin that
  fails leaves those before it alive; two inits at once start every plugin twice; the
  array of middlewares changes under a running operation.
- A `destroy` of a plugin that throws ends the manager's `destroy()` (`plugin-manager.ts:64`):
  `initialized` stays true, and the hooks and middlewares of the plugins destroyed before it
  go on being called. `removePlugin` (`:130`) likewise leaves the plugin in place. The
  property excepts the plugins that were so ended (`lingering`), and nothing else.
- A seed and its record are two statements, and two runners run a seed twice.
- Repositories of a test close its connection: the client is back in the pool with the
  transaction open, for others to write in, and a cascaded save commits it. A refused
  BEGIN of `withTestTransaction` keeps its connection.

## Proofs

All hold for every value of the constants, under the assumptions named
`...Assumption` in the modules. These say what kind of thing each constant is (a
bound is a natural number, a null value is not an element), that the lists the
code is given are finite (`Versions` of a runner, `Schemas` and `Admins` of the
provisioning, the keys and owners of a cache), that batches and chunks are not empty,
and that an entity has a column. Which settings a run
has is a constant too, so the proofs cover the combinations no run was given.

| theorem | property | what the invariant adds |
|---|---|---|
| `EventStoreProofs!TypeCorrect`, `Contiguity` | `TypeOK`, `VersionsContiguous` | what an INSERT in flight knows: the expected version can only have been overtaken (`Behind`), its rows are the next ones (`InflightOf`), no two clash (`NoClash`, the unique key) |
| `SequenceOrder` | `SequenceFollowsVersion` | numbers in flight are above all committed ones of their aggregate, and below `nextSequence` |
| `StoredOnceAsApplied` | `StoredAsApplied` | what an aggregate, a batch and rows in flight have of the history; where a lost acknowledgement leaves the aggregate behind the table |
| `EventLogRefinement` | `ImplementsEventLog` | none: a commit appends `inflight`, as a whole, at the length the check saw; every other step leaves the log alone |
| `RepositoryCacheProofs!TypeCorrect`, `NoEditLost` | `NoLostUpdate` | every instance that can be reached is `Settled`: no newer than its row, and with all of its edits when as new; a pending row is newer than the committed one, and locked |
| `CleanIsStored`, `CachesStayCoherent` | `CleanMeansStored`, `CoherentCaches` | what a call knows at each await, one call at a time: `Loaded`, `CallFresh`, and `CachesFresh` up to the row the call has changed and not yet told the caches of |
| `OutboxProofs!TypeCorrect`, `NoLoss`, `NoPhantom`, `SafetyRefinement` | `TypeOK`, `NothingLost`, `OnlyCommittedDelivered`, the safety of `AtLeastOnce` | `Position`, what a poll knows at each await; `RowFollowsEntity`, which transaction wrote a row |
| `ProjectionProofs!TypeCorrect`, `EveryEventIsHandledOnce` | `EveryEventOnce` | `lastSequence` is a watermark (`Complete`); a driver of strings never moves it, and has one batch (`Reached`) |
| `MigrationsProofs!TypeCorrect`, `SchemasStayInOrder`, `ReportsStayTrue` | `SchemasInOrder`, `ReportsAreTrue` (in `ReportsHold`) | what stays true of the table a runner has read while others write it (`Position`), a rollback has its schemas to itself (`Alone`), results from chunk to chunk (`Counted`, `Resting`) |
| `TenantProvisioningProofs!LimitHoldsUpToRacesAlways` | `LimitHoldsUpToRaces` | schemas together with the targets of admins past the count; each admin adds at most one |
| `TypeCorrect`, `ProvisionedIsCompleteAlways` | `ProvisionedIsComplete` (in `SetUpHolds`) | the tables that are not there are those the call has still to create (`Pending`) |
| `ConnectionsProofs!TypeCorrect`, `EveryClientInOnePlace` | `OnePlace` (in `ConnectionsInPlace`) | `Places`: where every client is, and that the proxy's stack has nothing twice |
| `SessionsStayInTheirTenant`, `WaitingClientsAreClean` | `TenantIsolation`, `IdleIsReset` | `Isolated`: the path a ROLLBACK would return to as well; `OpenIsHeld`, `Clean`, `Tidy`: what a session that gives its client back knows of it |
| `DriverTransactionsProofs!TransactionsTypeCorrect`, `TransactionsHold` | `DriverTransactionsHold` | a session's log `Carries` the caller's own entries in their order; who holds which session (`Seats`, `Known`); what an ended transaction has left (`Over`) |
| `ProjectionProofs!AggregatesFromSnapshots` | `SnapshotsHold` (in `LoadsAreTrue`) | a state is a prefix of the history, of the length its holder or row says |
| `BatchedLoadsAreTrue`, `RelationsLoadWhatIsTrue` | `LoadsAnswerTheirRow`, `RelationsAreTrue` (in `LoadsAreTrue`) | a load that is asked has seen its row as it is and waits in one place; what the chunks read so far have, and the key that has been read |
| `ConnectionsProofs!RoutesHold` | `RoutingHolds` | `Even`: where the rotation over the replicas is; `Swept`: what `close` has passed in the Map, and what was put behind it |
| `OutboxProofs!ChangesAreSentOnce` | `NotificationsHold` | `Stage`: where the generator is and what it holds there; `Changes` and `Delivered`: what was sent is before what waits, and that before what has not been read; `Readers`: each reader has one ask |
| `PagesGiveEachRowOnce` | `PagesHold` | `CursorWalk`: what was given rises in the order of the query up to the cursor, and what is not behind the cursor was given; `OffsetWalk`: it is the beginning of the one list that ORDER BY allows |
| `DriverTransactionsProofs!ValuesAlwaysArrive`, with `ParametersArrive` and `CursorsDeliverTheResult` | `ValuesArrive` | `HandIs`, `Indexed`, `Agrees`: what kind of statement is in hand, and that it has what its caller has set, and more only if it comes from the pool; `OnTheWay`, `Finished`: rows yielded, buffered and read follow each other without a gap |
| `ConnectionsProofs!HealthIsTrue`, `ConnectionsStayInPlace` | `HealthHolds`, `ConnectionsInPlace` | `Probing`: what a probe holds at each await, and that one without an inquiry has lost; `Seated`: a connection is in the pool once, or somebody has it; `Ordered`: what a replica has not replayed is no older than what it has |
| `ProjectionProofs!LoadsAreAlwaysTrue` | `LoadsAreTrue` | the three results above together |
| `TenantProvisioningProofs!CachesAreLinkedRight`, `CachesRefineLru` | `MapListAndIndexAgree`, `CachesAreLru` | `InLine`: the links of each list lead along one sequence, forwards and backwards, with every key of its Map once, and no longer than the limit; `Filed`: the index has each result under its class |
| `EventStoreProofs!EndpointsAreTrue` | `EndpointsHold` | `Origin`: a value nobody has stored belongs to an update of its instance; `Cached`: the instance in the cache was loaded from the row as it is; `Alone`, `Past`, `Apart`: what an update knows that has its instance to itself |
| `MigrationsProofs!TreesStayForests` | `TreesHold` | `Sound`: the rows or the paths are those of a forest, and a way from a root (`Line`) leads to each node of it; `Knows`: what the statements still to come of an insertion or a move may assume of its two nodes |
| `RepositoryCacheProofs!BulkWritesHold` | `BulkHolds` (in `WritesAreWhole`) | `Wrote`: what the rows a transaction has written are of the committed ones, by the call; `Reading`: no list has a row twice; `OutOfCaches`: what it wrote is out of the caches, or was read back beside it |
| `FiltersAlwaysHold` | `FiltersHold` (in `QueriesMeanWhatIsAsked`) | `Looked`: an answer is what the statement gives for the filters and the tenant it began with, or the one row of a cache key; `CachedTrue`: what the caches were filled with |
| `MigrationsProofs!ReportsAreAlwaysTrue`, with `MigrationsAreTrue` | `ReportsHold`, `DiffsHold` | `After`: what the first statements of a script found in the catalogue and have left of it; `Mirrors`: what was read is still so; `Near`: ups of others bring the catalogue nearer to the entities than what was read, and never away |

Each `...Proofs` module has the same layout: the invariant as a conjunction of
named parts, lemmas about the operators, lemmas that say which parts a step that
leaves certain variables alone preserves (their names end in `Frame` or `Keeps`),
one lemma per action, and the theorems, in which the temporal step is `PTL`. TLC
checked each invariant before it was proved. A few arguments deserve more words.

*Event store.* `getCurrentVersion` is a `CHOOSE` of a maximum, a number only
because versions are an interval, so that the type invariant rests on contiguity.
That an acknowledgement may be lost is what makes `StoredAsApplied` hard: the
aggregate then has events the table already holds, and appends them again. The
invariant says why that is refused: whoever has such an event has a version below
what the table has (`Overtaken`).

*Repository.* `NoLostUpdate` holds with any number of callers at any await, beside
another process, with callbacks that throw and entries that expire. The version
check compares the instance with the row, so the proof needs that an instance with
the row's version has the row's edits, whoever else references and edits it. The
other two are false when calls overlap (see above); with one call at a time the
invariant follows a call from its read to its last eviction, and says that a
cached instance is what its row would be loaded as, unless the call has changed
the row and is still to tell the caches, or an edit is the caller's own.

*Migrations.* No runner locks anything. What it read may be out of date when it
writes, but runs only add rows, in order, and the primary key refuses a second
one; a rollback has nobody beside it. On MySQL, without transactions for DDL, a
version may be in effect and not recorded, and the property says no more.

*Connections.* All three results rest on one fact, that a client is in one place.
`TenantIsolation` needs in addition that a ROLLBACK which undoes `SET search_path`
returns to a path the same session has set, and `IdleIsReset`, which is promised
with at most one failure, counts what the failures were spent on.

*Adapters.* Where connections share one handle, the log of its session has writes of
others between a caller's own. `Carries` says so with a map that embeds the
caller's entries, in order, such that everything outside of its image is a write
of somebody else. ROLLBACK TO cuts both, after the latest savepoint of a name, at
places the map relates (`CarriesCut`), which is why a savepoint name that is used
again is harmless. Callers that have got into each other's transaction on Bun's
one client are excepted in the property, by name, and so are writes outside of a
transaction on a shared handle.

*Routing.* Two assumptions are about the data a run is given: there are finitely
many tenants, so that the sweep ends at the end of the Map, and for each tenant there
is the data source that the Map begins with. What the theorem says is `OwnRoute`, `Balanced`
and `RoutesClosed`: a source put into the Map after `close()` began may stay open. `Balanced` needs where the
rotation is, since a replica that refuses has been picked, too.

*Notifications.* The order of what a browser was sent follows from one fact about
three places: what was sent is below what is in the source's queue, and what is
there below what the polling query would still return. That an open connection is
read needs that the asks are different, except for those to return.

*Snapshots.* A snapshot may be older than the one it replaces, and deleted while an
aggregate is loaded from it. All are prefixes of the same history, which is all a
rehydration relies on.

*Loads.* A load by id is in the queue or in one batch, once, until it is settled, so
that writers add to what it may answer (`seen`) until its chunk is read, and what the
chunk has read was so. `clear` and a chunk that fails take loads out of their place
without an answer. Of a relation the assumption is that there is a parent to refer to.

*Pages.* For any columns, directions and sizes. Nobody remembers what was given: the
cursor alone has to say it, which it does because the cursor's condition means the
order of the query (`KeysetBehindIs`, `RelayBehindIs`), except where a comparison meets
NULL, and because the primary key makes the order total (`AheadTotal`). A backward walk
is one forward in the reversed order once its pages are put together from behind
(`Given`). The assumptions are that a page has at least a row, that keyset sorts by one
column, and that only the relay strategy goes backward, as the request types say.

*Statements and cursors.* A statement from the pool still has what others have set:
`Agrees` says that it has at least what its caller has set, and that any other has
that and nothing else. A named parameter binds its own places, with no exception. A cursor
neither repeats nor skips, because of the numbers of rows yielded, buffered and fetched
any two give the third.

*Health.* What a check tells is judged when it tells it, against queries that
were answered, refused or late in the meantime: `Probing` carries that along. A connection a
check gives back is seen once, in the pool or in somebody's hands.

*Linked caches.* `InLine` gives a sequence as a witness for the pointers of each list; every
relinking changes the sequence and the pointers alike, so the refinement of `LeastRecentlyUsed`
is that this sequence is unique, and that what a call does to it is what the promise asks of
that call: `asked`, a history variable of both, says which call it was, so that a get which
moves nothing up, or a put that loses another key than the last, is no step of the promise. `Visited` and `Dropped`, recursive functions, follow it by a
least counterexample.

*Endpoints.* Two requests may hold the one instance of the cache. The invariant says of
each value in it whether the row has it or who has assigned it, and of an update that
shares its instance with nobody what it has found in the row (`Alone`) or what has
happened to the row since (`Past`). Everything the property excepts is a disjunct there too.

*Trees.* `Chain` follows parents as many times as there are nodes, so that it ends on a
cycle too. In a forest the way to a node is unique and has no node twice (`UpAlike`,
`NoneTwice`), hence no more steps than that, and `Chain` is this way (`ChainIs`). What a
statement does to the forest is one lemma each on ways, for a subtree cut off, grafted, felled
or a leaf planted, and one on what the rows then are. A move of paths is a cut and a graft
(`Transplanted`). A path is a node's `Chain`, so no two nodes have one (`ChainTells`), its front are the
ancestors (`FrontOfChain`), and the separators that `findDescendants` counts are one more than
its ids. A move below the node's own descendant is refused, or excepted by name.

*Bulk writes.* A caller's statements are interleaved with those of others, and no row
is locked before it is written. The version check of `saveAll` compares with the committed
row, which nobody changes while the row is locked, so that what is pending is one more
(`Wrote`). A COMMIT writes to the table what the caches no longer have, unless a reader has put
it back (`raced`, excepted by name). Connections are counted: `out` changes by one where
the set of busy callers does. The assumptions are that the ids there are at first lie
below those the sequence draws, and that there are finitely many callers.

*Filters.* A filter is registered once per name, which is why `unregisterFilter`, which
removes the first of its name, removes it (`Named`). An entry of the entity cache
has the tenant in its key and the filters not: so much, and no more, is `CachedTrue`, and
a cached answer is excepted from what a filter promises but never from what the tenant does.

*Schema diffs.* No two statements of a script are about one table or column (`Tidy`), so
that each finds what the script met and leaves what nothing after it changes: `After`, an
induction over the statements. An up that was generated before others ran theirs still reaches
the entities, because each of them moved the catalogue towards these (`UpBringsNearer`), and a
down gives back what its up met if nobody came between. Why a script is refused rests on
the order of its statements: creations come first, so that every table a reference may
need was in the catalogue or was created before. The assumption `SchemaDiffsAssumption`
says of a design what the engine gets: lists of tables without repetitions, finitely many
columns in each, and in the catalogue only the names that `information_schema` has for types.

That an ascending sequence of a finite set exists (`AscendingOrders`), that a
finite set of positions has a last one (`LatestIsLast`), that two rows have a first
column in which they differ (`AheadTotal`, `OneList`) and what the statements of a script do
one after the other (`ScriptRuns`) are inductions. The library's
induction schemes take an operator as a parameter, so they are proved from a least
counterexample with the well-foundedness of `<`, which is a plain fact.

What is only model-checked:

- Liveness, all of it: `ImplementsAtLeastOnce` as a whole, `CallEnds`, `CallReturns`,
  `LoadsAndReadersSettle`, `NotificationsEnd`, `WaitersAnswered`, `CloseEndsEveryClient`.
  Fairness and ENABLED are out of the prover's reach.
- `MessagesHold`, and what `SetUpHolds`, `WritesAreWhole` and `QueriesMeanWhatIsAsked` say
  of plugins, tests, cascades and queries: they rest on `RECURSIVE` operators (`Buses`, `Dependencies`,
  `Plugins`, `Testing`, `Cascades`, `DerivedQueries`, `QueryBuilding`), which mirror
  recursive functions of the code and which the prover does not take.

## Not modelled, and the plan

Left out of the modelled components: `rollbackTo` and pending lists of one
migration runner; metrics and acquire time-outs of connections; creation, lists
and search of the endpoints; embedded fields, audit and vector hooks of the
repository; indexes and views of the DDL. Not modelled at all, with the reason in
`PROJECT.json`: parts that only generate text (schemas of GraphQL and OpenAPI,
search and vector SQL, Prisma import, diagrams), class metadata written once when
modules load, reports that nothing acts on (advisors, statistics, the N+1
detector, slow queries), adapters that are announced and not implemented, and user
interfaces. Payloads, value conversions and error texts are abstracted everywhere.

What the harnesses do not do is compose: apart from `Connections` (three data
sources over a pool), `RepositoryCache` (two caches, the tracker and the
database), `HealthChecks` and `Testing` (over a pool), modules are checked
one at a time, because the product of two of them is beyond a short run.

Next:

1. *Composition*: a repository over tenant connections (a cached entity of one
   tenant never serves another); an event-sourced save over repository and outbox.
2. *Proofs* about the modules that reach a `RECURSIVE` operator, once these are written as
   recursive functions. The safety properties of every module that reaches none are proved.
