# Arcade Vault in TLA+

Arcade Vault sells refurbished arcade cabinets, most of them single pieces. Its
catalog service (Go, PostgreSQL) takes reservations and orders; a background
worker publishes the orders through a transactional outbox; a GraphQL gateway
stands between the clients and the catalog. This directory models all of them,
checks the models with TLC and proves most of what is checked with TLAPS.

Paths below are relative to `src/`; `repository.go` is
`internal/catalog/adapter/postgres/repository.go`.

## 1. The system

| Component | State | Operations | Here |
|---|---|---|---|
| Checkout: handler, use case, repository | `cabinets.quantity`, `reservations`, `orders` + `order_items`, `outbox`, open transactions | `ReserveStock`, `CreateOrder` | `Checkout`, `Shop` |
| Outbox worker (`app/outbox_worker.go`) | `outbox.published_at`, the batch in memory | `Run`, `ProcessBatch` | `Outbox` |
| Event publisher (`adapter/publisher`) | none | `Publish` | outcomes of `Publish` in `Outbox` |
| Catalog process (`cmd/catalog/main.go`) | where `main` is, the seed's transaction, open calls and streams | start, seed, serve, shutdown | `Life`; the worker's part in `Outbox` |
| Schema and migrations (`db/catalog/migrations`, `adapter/postgres/migrate.go`) | `schema_migrations`, the tables | `RunMigrations`, the compose file's `migrate` container | `Life`; the constraints in the guards of `Checkout` |
| Catalog reads | none | `GetCabinet`, `ListCabinets`, `GetOrder` | `Mapping`, `Gateway` |
| Gateway (`internal/gateway`) | operations in progress | `createOrder`, `cabinets`, `cabinet`, `order`; the user's metadata | `Mapping`, `Gateway` |
| Generated code (gqlgen, protobuf, sqlc) | none | executors, inputs, messages, stubs, scans | `Mapping`, `Gateway` |
| Telemetry | none | | no |
| Payments, RabbitMQ, stock release | described in `docs/`, no code | | no |

How they meet: the gateway calls the catalog over gRPC. Every gRPC call runs on
its own goroutine, and `ReserveStock` and `CreateOrder` each run one transaction
on a connection of the pgx pool. Transactions meet in PostgreSQL only: on the row
of a cabinet (`UPDATE … WHERE quantity >= q`), on the primary key of
`reservations` and on the unique index of `orders.idempotency_key`. The worker
meets them in the `outbox` table, on connections of the same pool, and meets
other catalog processes there too. Every process migrates and seeds the database
when it starts, beside others that sell from it; on a signal it cancels its worker
and waits for its calls. The gateway keeps nothing: it resolves the root fields
of a GraphQL operation, those of a query concurrently and those of a mutation in
turn, each with one gRPC call that carries the user's `x-user-id` as metadata.

What is hard here: lock waits and the re-evaluation after them, two levels of
idempotency keys that are looked up early and enforced late, transactions cut
off between any two statements, commits whose acknowledgement is lost, retries
that overlap the original, deadlock between orders that list cabinets in
conflicting orders, a worker that dies between publishing and marking, migrators
that meet each other's half-done work, a seed that runs again on a shop that has
sold, answers built from memory, from rows and over broken calls that have to
agree, and numbers that pass through int64, int32 and back.
`PROJECT.json` lists each hazard at its line with the properties that cover it.

## 2. Modules

| Module | What it is |
|---|---|
| `Checkout.tla` | `ReserveStock` and `CreateOrder`, one SQL statement per step |
| `CheckoutProperties.tla` | what the checkout must guarantee, and documented statements it breaks |
| `Shop.tla` | the abstract shop: every request is decided at one instant |
| `CheckoutProofs.tla` | proofs: types, row versions, idempotency keys |
| `CheckoutGuarantees.tla` | proofs: conservation, atomicity, answers, finality, deadlock, and that `Checkout` implements `Shop` |
| `MCCheckout.tla` | request sets and model values for TLC |
| `Outbox.tla` | the outbox worker and its properties |
| `OutboxProofs.tla` | proofs: nothing lost, nothing premature, duplicates bounded |
| `Life.tla` | the processes' life on one database: migrations, seed, server, stop, crash; its properties |
| `LifeProofs.tla` | proofs: all its invariants |
| `MCLife.tla` | model values for TLC |
| `Mapping.tla` | rows, domain objects, messages, GraphQL objects and fields, and the conversions between them |
| `Gateway.tla` | operations through the gateway and the catalog's handlers; instantiates `Shop` for the orders |
| `GatewayProperties.tla` | what a client of the gateway can rely on |
| `GatewayProofs.tla` | proofs: one key, one order; quantities and cabinets arrive as they are |
| `GatewayTruth.tla` | proofs: the invariant of the gateway, and that it implies what its clients rely on |
| `GatewayGuarantees.tla` | proofs: every step keeps that invariant; the theorems |
| `SumTheorems.tla` | proofs: sums over finite sets, used for stock and totals |
| `MCGateway.tla` | operations, users and a shelf for TLC |

### Checkout

A *call* stands for the goroutine that serves one request, for its transaction
and for the order id it draws (a fresh UUID). A client that retries issues
another call with the same idempotency key. `pc` names the statement a call is
about to run:

    idle -> begin -> [lookup -> snapshot ->] (reserve -> decrement -> register)*
         -> [insertOrder -> insertOutbox ->] commit -> done

The steps in brackets are `CreateOrderTx`'s; the starred ones are
`ReserveStockOnTx`, once per line. The correspondence with the code:

- `Receive` is the handler and the use case up to the repository call:
  `StoredUser` is what `extractUserIDFromContext` and `TrimSpace` make of the user,
  `Validate` the checks of quantities and of the empty order. `Status` is the
  handler's mapping of errors.
- `stock`, `reservations`, `orders`, `outbox` are the committed tables. `draft` and
  `rowLock` are the newest version of a cabinet row and the transaction that wrote
  it; `pending` is what an open transaction has inserted into `reservations`. An
  uncommitted `orders` row is visible to others only through its unique key, which
  is `HoldsOrderKey`; `order_items` and `outbox` rows have fresh keys and nobody
  else can see them, so they join `orders` and `outbox` at the commit.
- READ COMMITTED: a SELECT (`Visible`) sees committed rows and the transaction's
  own. The UPDATE (`Decrement`, `DecrementNoRows`) first looks at the committed
  row: too low, and it returns no row at once; otherwise it waits for the row's
  writer (`RowFree`) and decides on the version that transaction leaves. An INSERT
  waits for an uncommitted row with its key (`KeyPending`, `OrderKeyPending`) and
  is a `unique_violation` once a committed one exists (`KeyTaken`, `OrderKeyTaken`).
- Every error return runs the deferred `Rollback` (`Refuse`). `Fail` is an error of
  any statement, a cancelled context or the death of the process: the transaction
  is gone and the client has no answer it can use. `CommitUnacknowledged` is the
  commit that succeeds on the server and fails for the client.
- `DeadlockVictim` is PostgreSQL's detector (external): a member of a wait cycle
  gets an error.

Two abstractions to know. The lookup of an order and of its lines
(`repository.go:155,158`) is one step: both read committed rows that no code changes.
The lines of an order are a sequence in the client's order, which
`ListOrderItems` does not promise: only the map built from repeated cabinets could
depend on it, and the model takes insertion order.

### Shop

The abstract specification. A request is asked and then decided in one step: it
sells, repeats an earlier answer, or is refused for a reason that is true at that
instant (`Internal` needs none); after a sale the answer may be lost. `Checkout`
implements it with `left <- stock`, `holds <-` the reservations under client keys,
`events <- outbox`, `request <- req`: commits map to sales, refusing or repeating
statements to `Refuse` or `Repeat`, and every other statement to a stutter. A request
that fails validation (`Malformed`) is refused as it is asked, like `Receive` does.

### Outbox

One worker per catalog process. Events go `uncommitted -> unpublished ->
published`; `createdAt` is the start of the transaction (`DEFAULT NOW()`), so rows
appear in another order than the one they are listed in. `List` is the SELECT
with its ORDER BY and LIMIT, `Publish`/`PublishFails` and `Mark`/`MarkFails` the
two calls of the loop body; `PublishUnacknowledged` is a delivery that is reported
as an error, which `LogPublisher` never does and a broker's client may. `Cancel` is
SIGTERM: `main` cancels the worker's context and does not wait for it, so a batch goes
on with statements that fail, until `Restart` cuts it off. `Crash` is the death of the process. `Undeliverable`
events are refused by the broker at every attempt. A listing that fails or is
empty changes nothing and is a stutter.

### Life

Processes (`Processes`) run `main`; `Tools` are runs of the compose file's `migrate`
container. `pc` is where each is:

    down -> lock -> version -> (migration -> clean -> version)* -> pool -> seed
         -> images -> seedCommit -> listen -> serving [-> deaf] -> draining
         -> drained -> returning -> down

- Migrations are golang-migrate's `Up`, which is external: an advisory lock
  (`TakeLock`, `LockTimeout`), a version that is made dirty before a migration runs
  (`Announce`) and clean after it (`Clean`), `FoundDirty`, and `Migrated` for nil or
  `ErrNoChange`. A file is sent as one statement string, so PostgreSQL runs it in one
  implicit transaction (`Migrate`); its `CREATE TABLE`s fail on tables that exist
  (`MigrateFails`). An error of `Up` for any other reason leaves what a `Crash` at that
  point leaves. Version table and lock belong to the current schema: `SearchPath` is
  `catalog` for the service and `public` for the tool. Any error is an `Exit`.
- `Seed` is one transaction. `SeedCabinets` inserts the rows that are not there and
  waits for another seed's uncommitted ones. `SeedImagesFails` is the error
  `main.go:182` drops; it aborts the transaction, which `SeedCommit` then rolls back.
  `SeedFails` is every return with a warning, and the end of the ten seconds of `ctx`.
- `pools` are the processes whose connection pool is open (`OpenPool`, `ClosePool`;
  `Quit` is `os.Exit`, before the server is there).
- Calls are `running`, then perhaps `sold` (one commit of `Checkout`, which needs the
  pool), then `answered`; a call that finds the pool closed is `denied`, one that is open
  when `main` returns is `lost`, one that is open in a crash is `cut`. `Watch` is a stream
  of the health or the reflection service. `ServeFails` leaves the process up and `deaf`:
  nobody listens, but the connections there are bring calls and streams as before.
- `Signal` puts a signal into `main`'s channel. The stop is four steps: `Drain` takes it and
  calls `GracefulStop`, which returns when no call and no stream is open (`Drained`, the
  one promise taken from grpc-go); `ClosePool` is the deferred `pool.Close`; with `Return`
  the process is gone, whatever it still had. `Crash` frees the lock, rolls the seed back
  and cuts calls and streams off.

The schema `catalog` exists before anybody starts (`deploy/compose/init-schemas.sql`).

### Mapping and Gateway

A *root field* is a pair `<<p, i>>`: the i-th of operation p. It goes

    none -> sent [-> taken] -> replied -> returned

and the operation is answered when all its fields have returned.

- `Resolve*` are the generated root field resolvers with the resolver's call;
  `ItsTurn` is the difference between `_Query` (`Concurrently`) and `_Mutation` (in the
  loop). `RejectInput` is a quantity that is no int64. `message` is what is on the wire.
- `Handle*` are the catalog's handlers with use case and repository. `ListCabinets` and
  `GetCabinet` are single SELECTs; `GetOrder` is two (`HandleGetOrder`,
  `HandleOrderItems`). Orders are decided by `Shop`, which `Checkout` implements: the
  handler takes the call (`HandleCreateOrder`), the shop decides it (`DecideOrder`).
  A new order is answered from memory, an old one from its rows.
- `Break` is a call that the gateway gives up: the connection, a cancelled context. The
  catalog may decide the order afterwards.
- `Return*` map the reply, or its error, into the value of the field; `Data` is the
  propagation of nulls through the schema, all of whose fields are required.
- `Mapping` has one operator per mapping function, the messages as types, and one
  operator per generated executor: a selection of fields, and under it one of subfields.
  `int32` and `int64` wrap, at widths that are constants.
- `seen` and `past` are history: the tables when the operation was posted, and every set of
  orders there has been.

Abstractions: strings are strings that nothing takes apart; timestamps are left out
(the schema does not show them); aliases, fragments and directives are gqlgen's;
the order of rows without ORDER BY, or with equal keys, is arbitrary. `middleware/metadata.go:10-24`
puts the `X-User-Id` header into the outgoing metadata (`IncomingUser`), but nothing in the
repository mounts it, or the executor, on an HTTP server (there is no `cmd/gateway`): that is
assumed. `DecideOrder` is the one step of `Shop` that stands for `CreateOrderTx`, for orders
that name each cabinet once. The gateway adds nothing to a
catalog error, although `docs/ARCHITECTURE.md:123` expects it to map codes to extensions.

## 3. Runs

| Run | Question | Bounds |
|---|---|---|
| `checkout_safety` | the safety invariants, `CommitIsFinal` | 3 calls, 15 kinds of request, 2 cabinets + 1 unknown, stock 2 and 1, 2 keys, 3 connections |
| `checkout_refinement` | is the checkout the atomic shop? | the same, requests that name each cabinet once |
| `checkout_liveness` | is every call answered? | 3 calls, 2 connections, requests that meet on every kind of wait |
| `outbox` | nothing lost, duplicates accounted for, all published in the end | 2 workers, 3 events (1 undeliverable), listing of 2, 2 faults |
| `service_life` | what starts and stops owe to a shop that is selling | 2 processes, 1 run of the tool, 2 cabinets of 1 and 2 units, 2 calls, 1 stream, 2 migrations, 1 crash |
| `gateway_safety` | is what a client is shown what it asked for and what is stored? | 2 operations of up to 2 root fields out of 7 documents, 2 cabinets of 2 and 1 units, 2 keys |
| `gateway_liveness` | is every operation answered? | a mutation of 2 orders beside one order or a read |
| `repeated_line`, `concurrent_retry`, `error_code`, `replay_mismatch` | findings, section 4 | 2 calls |
| `migrated_twice` | finding, section 4 | 1 process, 1 run of the tool, no crash |

*Why these bounds are enough to be interesting.* Two calls meet on a row or a key;
the third is the one that comes after a refusal, replays an order while two others
race for it, or closes a longer wait. With one unit of `b` and two of `a`, stock runs
out in some interleavings and suffices in others. Requests have one or two lines,
and the pairs `[a, b]` and `[b, a]` cross. There is no bound on failures in the
checkout: any call can fail at any statement. The outbox has more events than a
listing, and as many faults as it takes to publish one event three times. In the life
of the processes, two starts meet each other and the tool, one crash leaves a migration
dirty for a later start, and two calls sell what a later seed would put back. In the
gateway, int32 has 8 values and int64 has 64: quantities of 4 and 9 wrap to -4 and 1, one
of 40 is no int64, and two cabinets of 16 cents are a total that wraps. Its documents
want the same last unit under one key and under two, alone and in one mutation, and one
places two orders of one cabinet each, which a list may see between. They name each
cabinet once per order, like the refinement of `Shop`. No user is padded: `net/http` trims
header values, so that `TrimSpace` has nothing to do here (the theorem is for every `Trim`).
`gateway_safety` has 1,952,662 states, `gateway_liveness` 86,592, `service_life` 1,042,850 and
`outbox` 150,348. The proofs of section 5
remove the bounds for what they cover.

*Symmetry* permutes calls in the safety and refinement runs of the checkout
only; no definition names a particular one of them.

What the properties say, beyond types:

- `StockConserved`: units on the shelf plus units reserved are the units seeded.
- `DraftExplained`: an uncommitted row version is one reservation away from the
  committed one, and whoever has inserted a reservation holds its row.
- `KeysAreUsedOnce`: one reservation and one order per key, in progress included.
- `OrderIsAtomic`: order, reservations and event appear together.
- `RepliesAgree`: calls that are told "ok" under a key are told the same order, on
  disk, with their user and number of lines.
- `RefusalHasNoEffect`: a call refused with a domain error has bought nothing.
- `SoldOutIsTrue`: "insufficient stock" is never said because of a lock, or of units
  another call gives back.
- `CyclesNeedCrossedLines`: the orders of a cycle of waits, taken together, list their
  cabinets along no common ranking, although each pair of them may; sorting the lines would
  remove deadlock altogether.
- `CommitIsFinal`: sold units and committed rows never come back.
- `ImplementsShop`, `EveryCallAnswered`: linearizability and termination.
- `MarkedWasPublished`, `AnnouncedWasCommitted`, `DuplicatesNeedFaults`,
  `CommittedIsPublished`: at least once, committed orders only, duplicates bounded by
  faults and by further workers, and eventually all.
- `SeedKeepsSales`, `SeedIsWhole`: the seed of a later start gives no sold unit back, and
  no cabinet is on sale without its images.
- `StartsDoNotCollide`: without a crash, and without a migrator of another search path,
  concurrent starts do not find each other's half migrations; they may still time out
  waiting for the lock. `ServesOnTables`: nobody seeds or serves on half a schema, whatever
  crashed before.
- `NoCallIsDropped`, `StopEnds`: no accepted call finds the pool closed under it or is lost
  when `main` returns, on a `deaf` process either; a signal leads to the end of the process,
  unless a client keeps a stream open: `GracefulStop` has no deadline.
- `OrderAsAsked`, `TotalIsExact`: an order shown is the one asked for, by its user, as long as
  its quantities are int32 and its total is an int64; the code checks neither.
- `OneOrderOneLook`, `ListIsOneInstant`, `ReadsAreCurrent`: an order looks the same from
  memory, from its rows and in two statements; a list of cabinets is the stock that
  one of the successive sets of orders (`past`) left, since the query; a cabinet read has
  every field and image of its row, with a quantity no older than the query.
- `MutationInOrder`, `OneKeyOneOrder`, `AllOrErrors`: the orders of a mutation are placed in
  turn; a key places one order over broken calls; an answer has all its data or the errors,
  and an error that is a decision means that its field places no order. (A mutation whose
  first order was placed and whose second was refused has no data: the client learns
  the first order by repeating its key.)
- `EveryPostAnswered`: no refusal, failure or broken call leaves a client waiting.

*Fairness.* `Checkout!FairSpec` is weak fairness of each call's own statements
(Go schedules goroutines, PostgreSQL runs statements and wakes waiters; its detector
breaks cycles after `deadlock_timeout`). Clients and failures are not fair.
`Outbox!FairSpec` is weak fairness of the loop (`time.Ticker`, one per second) and of
`Restart`: the code does not restart itself, so that a service taken down comes up
again is an assumption about its operation. `CommittedIsPublished` also needs fewer
undeliverable events than a listing has places (25 in the code): 25 such events would
fill every listing, and the run uses one of two. `Life!FairSpec` is weak fairness of
each call's `Answer` (handlers run to their end) and of `Stop` (`main` takes its signal, returns
from `GracefulStop` once nothing is open, closes the pool and returns); nobody is bound to start a service, to send a signal or to leave a
stream. `Gateway!FairSpec` is weak fairness of each field's `Progress`, which includes the
catalog's side of the call (`EveryCallAnswered` is what justifies it), and of `Respond`;
nobody is bound to post, and no call to break.

Deadlock is checked everywhere: `Quiet` (all calls done, all operations answered) and
`Idle` (nothing left to publish) are the only states in which the models rest; in `Life` a
process that is down can always be started.

## 4. What the code does not keep

- `repeated_line`: the stock key of a line is `order:<order>:<cabinet>`
  (`repository.go:220`). A cabinet named twice with the same quantity finds the first
  line's reservation and takes no units: two units sold, one reserved. The comment
  above it says the key is isolated per line.
- `error_code`: with different quantities the second line is an
  `ErrDuplicateReservation`, which `CreateOrder`'s handler reports as `Internal`
  (`handler.go:113`); `docs/ARCHITECTURE.md:123` has it mapped to `AlreadyExists`.
- `concurrent_retry`: "Same key returns the original order"
  (`docs/ARCHITECTURE.md:158`) fails for a retry that overlaps the original: it is
  refused with `ErrDuplicateOrder`, or `ErrInsufficientStock` if the original took
  the last unit. A later retry gets the order.
- `replay_mismatch`: the comparison of a replay (`repository.go:168-180`) is by map
  and count, so `[(a,1),(a,1)]` passes for `[(a,1),(b,1)]`.
- `migrated_twice`: after `make compose-up`, "`make run-catalog` runs the same migrations
  again (no-op if already applied)" (`README.md:133`). The container's URL
  (`deploy/compose/docker-compose.yml:56`) has no `search_path`, so its version is in
  `public.schema_migrations`; the catalog's (`cmd/catalog/main.go:30`) has
  `search_path=catalog`, so it looks in `catalog.schema_migrations`, marks version 1 dirty,
  runs migration 1 on the tables that exist and exits. `RerunIsNoOp` says that no start finds
  a dirty version; the run is `Life` with no start before the container has finished
  (`ComposedSpec`), and its trace shows the container, the first start that fails on the
  tables, and the second that is refused as dirty.

The refinement run leaves out orders that name a cabinet twice for the first of these
reasons; `checkout_safety` includes them.

## 5. Proofs

The theorems hold for every value of the constants that the named assumptions allow.
The runs of section 3 check each property on small instances.

| Theorem | Module | Property |
|---|---|---|
| `TypeCorrect` | `CheckoutProofs` | `TypeOK`; quantities stay natural numbers |
| `RowsAreExplained` | `CheckoutProofs` | `DraftExplained` |
| `KeysBuyOnce` | `CheckoutProofs` | `KeysAreUsedOnce` |
| `OrdersAreAtomic` | `CheckoutGuarantees` | `OrderIsAtomic` |
| `RefusalsAreFree` | `CheckoutGuarantees` | `RefusalHasNoEffect` |
| `RepliesAlwaysAgree` | `CheckoutGuarantees` | `RepliesAgree` |
| `SoldOutIsAlwaysTrue` | `CheckoutGuarantees` | `SoldOutIsTrue` |
| `StockAlwaysConserved` | `CheckoutGuarantees` | `StockConserved` |
| `CheckoutIsAtomic` | `CheckoutGuarantees` | `ImplementsShop`, for requests that name each cabinet once |
| `CommitsAreFinal` | `CheckoutGuarantees` | `CommitIsFinal` |
| `DeadlockNeedsCrossedLines` | `CheckoutGuarantees` | `CyclesNeedCrossedLines` |
| `OutboxTyped` | `OutboxProofs` | `TypeOK` |
| `NoEventIsLost` | `OutboxProofs` | `MarkedWasPublished` |
| `OnlyCommittedAnnounced` | `OutboxProofs` | `AnnouncedWasCommitted` |
| `DuplicatesAreBounded` | `OutboxProofs` | `DuplicatesNeedFaults` |
| `LifeTyped` | `LifeProofs` | `TypeOK` |
| `SeedKeepsSalesAlways` | `LifeProofs` | `SeedKeepsSales` |
| `SeedIsWholeAlways` | `LifeProofs` | `SeedIsWhole` |
| `StartsDoNotCollideAlways` | `LifeProofs` | `StartsDoNotCollide` |
| `ServesOnTablesAlways` | `LifeProofs` | `ServesOnTables` |
| `NoCallIsDroppedAlways` | `LifeProofs` | `NoCallIsDropped` |
| `OneKeyOneOrderAlways` | `GatewayProofs` | `OneKeyOneOrder` |
| `QuantitiesArrive` | `GatewayProofs` | a request's quantities reach the use case, if they are int32 |
| `CabinetAsStored` | `GatewayProofs` | a cabinet's fields and images reach the client (`AsStored`), if its numbers fit |
| `GatewayTyped` | `GatewayGuarantees` | `TypeOK`: messages, orders and what is shown, at every width |
| `OrderAlwaysAsAsked` | `GatewayGuarantees` | `OrderAsAsked` |
| `TotalAlwaysExact` | `GatewayGuarantees` | `TotalIsExact` |
| `OneOrderAlwaysOneLook` | `GatewayGuarantees` | `OneOrderOneLook` |
| `ListAlwaysOneInstant` | `GatewayGuarantees` | `ListIsOneInstant` |
| `ReadsAlwaysCurrent` | `GatewayGuarantees` | `ReadsAreCurrent` |
| `MutationAlwaysInOrder` | `GatewayGuarantees` | `MutationInOrder` |
| `AlwaysAllOrErrors` | `GatewayGuarantees` | `AllOrErrors` |

*Checkout, the inductive invariant.* None of these is inductive alone. `Types` adds to
`TypeOK` what a call knows of the request it validated (`RequestOf`): without "quantities
are positive" the types are not preserved by `Decrement`. `PendingOf` says whose keys the
rows of an open transaction carry, and that a call on its way from the lookup of a stock
key to the insert has no row under that key: this is what keeps an order from decrementing
twice under one key, and `DraftExplained` from failing for a repeated cabinet. `Inductive`
is their conjunction with the key invariants. `CallShapes` reduces the actions to five
shapes (a move that writes nothing, an error return, the UPDATE, the INSERT, the commit),
and each conjunct has a lemma with one step per shape.

*Checkout, the answers.* What a client is told needs two facts more, `OpenCalls`: an order
in progress has inserted exactly the rows of its lines so far (`RowsOf`, so that the rows
a commit writes are those of all its lines), and nothing in the tables bears the name of a
call that is not done (`UnansweredOf`, so that a call that is refused has left nothing).
`AnswerShapes` sorts the steps by how they answer: silently, by the use case, from an
earlier order, with an error, or with a commit. `Guaranteed` is the invariant; TLC has
checked it on the instance of `checkout_safety`.

*Sums.* Stock and totals are sums over sets (`SumFunctionOnSet`), which the library folds
in an order that `CHOOSE` fixes. `SumTheorems` proves that the order does not matter: a sum
is what any way of removing the elements one by one gives (`SumIs`, `SumRemove`), so it can
be extended, renamed and split. The induction is a smallest counterexample in the well-founded
order of finite subsets, a set and not a predicate, which is why the provers can use it. With
this, `StockConserved` follows from the lemma `ReservedStep`: a step that takes units off a cabinet's
stock adds exactly one row of as many units, and no other step changes either, so that its rows stay finitely many (`RowsFinite`) and the balance holds.

*Linearizability.* `CheckoutIsAtomic` maps every step to a step of `Shop` or to a stutter.
`Receive` is `Ask`, with the verdict of `Validate` for `Malformed`; silent statements stutter;
an error return is `Refuse`, and `RefusalHasReason` goes through the statements that give up to
find the reason in the shop (for a stock key, that an order which names each cabinet once
never meets a key of its own, `OrderKeysAreFree`); a replay is `Repeat` or `Refuse`; a commit is
the sale. Beyond `Guaranteed` this needs `NamedOnce`: the request of a call names each cabinet
once, so do the orders on disk, and a reservation that is about to commit has written its
one row, or has seen it. Then the versions a commit leaves are what `Wanted` asks of each
cabinet (`CommitTakes`). The replay is where the code compares less than the shop: every line of
the request against a map of the order's lines, and the number of lines. That each line is on
the map makes an injection of the lines into those of the order; as many lines make it a
surjection (`ReplayedLines`). Without the hypothesis this is the finding `replay_mismatch`,
and `CommitTakes` is `repeated_line`. TLC has checked `NamedOnce` on the instance of
`checkout_refinement`.

*Deadlock.* In a cycle every call waits for a row: whoever holds a key that is waited for
has nothing left to wait for (`BlockedAtRow`). The row a call wants was reserved by an
earlier line of the order that holds it (`HolderIsAhead`, from `RowsOf`), so along the cycle the rank of
the wanted cabinet grows for ever, while a finite set of ranks has a greatest
one (`Greatest`).

*Outbox.* `Delivered` adds to the two delivery properties that start times of transactions
differ (the row the loop is at is unique), that batches hold committed rows only, and that
the row a worker is about to mark was published. Duplicates are counted with `Budget`: while an
event is unpublished, every publication is covered by a fault or by a worker about to mark
it, and a cancelled worker that will publish it again has paid with its cancellation; once it is
marked, only the workers that still hold it can publish it. TLC has checked `Accounted` on
the instance of the `outbox` run.

*Life.* `SeedInv` says what an open seed has written: only rows that are not there, by at
most one process at a time, and, if its transaction can commit, images for exactly the
cabinets that will have none. `SeedKeepsSales` then follows from the commit. `CallsInv` places
every open call at a process that is up (`CallsUp`), whose pool is open until `GracefulStop`
has returned (`PoolOpen`), and no call at one that is past it: this is what makes the order
of the stop's steps matter to `NoCallIsDropped`. `MigrationInv` has three parts: whoever is between
lock and clean holds the lock of its search path (`LockInv`); no version or dirty mark is
recorded but by its holder, and no clean version is ahead of the tables (`RecordInv`); and while
nothing has crashed and no other search path was used (`Calm`), tables and version move
together, which leaves nobody a reason to refuse (`InStep`).

*Gateway.* `KeyInv` follows one key: what the catalog was asked under a field is what the
field asks (`Asked`), the request on the wire has the client's key and the reply the id of the
order placed under it (`Carried`), so has what the client is shown (`Told`), and orders
differ in their keys (`Placed`). `Decision` is the step that needs the shop: a decision that is
"ok" places an order under the key or names the one that is there. The conversions
(`Int32Keeps`) are proved for every even width.

*Gateway, the truth of what is shown.* The invariant is `Truth`. To each reply, and to each
value shown, belongs a *source* (`Sources`): a set of orders that is the state of an instant and
an order of the cabinets, for a list; a quantity between now and the query, for a cabinet; an order
and an arrangement of its lines, for an order. `Outcome` says that reply and value are what the
conversions make of the source, so that each property becomes a statement about sources.
Around it, `Wire` says what is on the wire at each stage and whose row a `GetOrder` has read;
`Refusal` that what was refused is refused for a reason that stays, because the catalog only
sells; `Requested` that the catalog was asked what the field asks; `PostTruth` that what an
operation saw lies in the past and that its response is the values of its fields; `Turns` that a
field of a mutation has returned before the next is sent, and what this means for the stock they
compete for; `Ledger` that orders are finitely many, are what their fields asked for, and add up
with what is left to the shelf (`Remains`, a sum). `KeyInv` and `Formed` complete it. TLC has
checked `Truth` on the instance of `gateway_safety`. `GatewayTruth` proves that `Truth`
implies each property, `GatewayGuarantees` that every step keeps it: sources stay sources
(`SourcesStay`), each handler's reply has one (`ReadKeepsTruth`, `DecideKeepsTruth`), and
returning a reply shows it (`ReturnKeepsTruth`).

*Assumptions.* `CheckoutAssumption`: client keys and stock keys of orders do not collide
(`order:<uuid>:…` against what clients send), cabinet ids are finitely many
(`VARCHAR(36)`; used for deadlock only), `TrimSpace` maps users to users, and reservation
requests have one line. `OutboxAssumption`: finitely many events and workers, a listing of
at least one row. `LifeAssumption`: tools are not services, seeded quantities are natural
numbers. `MappingAssumption`: even widths, int32 no wider than int64. `GatewayAssumption`: an
operation has a user and between one and `MaxFields` root fields, order ids are the fields that
place them, `TrimSpace` leaves what is trimmed alone. `ShelfAssumption`: finitely many cabinets,
rows that fit their columns, quantities within int32 and not negative (the `CHECK` of the
schema). `DocumentAssumption`: what the schema validates, the fields of each type and the types
of arguments, and no more; quantities are any integers. `NullAssumption`, `ShownAssumption`
and `CallAssumption` only keep the placeholders `Null` and `Nobody` apart from messages, objects,
values and requests. TLC evaluates all of them on the instances of the runs.

*Only model-checked.* Liveness under fairness, which the prover does not do:
`EveryCallAnswered`, `CommittedIsPublished`, `StopEnds` and `EveryPostAnswered`. The statements
of section 4 are broken, and the runs show how. All invariants and action properties of the passing runs,
and the refinement, are proved.

*How far the two halves meet.* The theorems about the gateway are about a catalog that is
`Shop`. `CheckoutIsAtomic` justifies that for documents which name each cabinet once per order,
as those of the gateway's runs do; for others section 4 says what the code does instead.

## 6. Not modelled

- Order status (always `pending_payment` in this code), timestamps, tracing and logs.
- GraphQL introspection, query complexity, `@defer`: generated, and about the schema alone.
- The `ReserveStock` stub of the gateway's client, which nothing calls, and the cabinet in
  `ReserveStock`'s answer, which is mapped like the others.
- The down migrations: nothing in the repository runs them.
- The HTTP server of the gateway, payments, RabbitMQ and the release of stock: no code yet.
- The worker's use of pooled connections: it holds one for a single statement that waits for
  nobody.
- Orders that name a cabinet twice, beyond `Checkout`: what they do there (section 4) is all
  there is to say of them.
