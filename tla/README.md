# A TLA+ verification of WyStack's runtime

WyStack is a TypeScript framework for reactive applications: functions (`query`,
`mutation`, `action`) run on a server over a tracked PostgreSQL layer, clients
subscribe to queries over a socket, and a committed write invalidates the
subscriptions that read what it wrote. On top of the tracked layer sit
*drafts*: stored, reviewable batches of commands that are published, discarded
or rebased later. This directory models the parts of that runtime whose
correctness depends on the order of asynchronous steps, on what fails between
them, or on an algorithm with many cases; it model-checks them with TLC and
proves the central invariants with TLAPS.

Sources are named relative to the repository root, under `packages/`.

## 1. Inventory

### Server: the reactive tier
`server/src/engine/engine.ts`, `subscription-store.ts`,
`invalidation-router.ts`, `invalidation-source.ts`, and `create.ts` for the
write stream.

* **State.** Per connection: `closed`, `nextSubAttempt`, `pendingSubAttempts`
  (id → attempt), `mySubIds`. Shared: the store (id → entry), each entry's
  `tablesWatched`, and one promise chain (`tails`) per entry object.
* **Operations.** `subscribe` (two awaits: the context, then the query),
  `unsubscribe`, teardown on close or detach; the emit of a finished
  `app.call`; a link of an entry's chain (one await: the recompute).
* **Hard.** A continuation of an await must notice that its connection closed
  or that its id was cancelled or taken over; a write between a query's read
  and its registration; frames sent on behalf of an entry that was replaced.
* **Correct when** the store holds entries of open connections and of current
  attempts only, and a commit that changes a live subscription's result after
  its query ran ends in an `invalidate`. The code falls short of the second where
  the tags of a run are not in force yet (section 10).

### Server: the session and the gate
`engine/session.ts`, `engine/engine.ts` (handshake), the `PipeImpl` close codes
of the adapters.

* **State.** `authenticated` and `token`, the handshake timer, the closed guard.
* **Operations.** Auth frames (two suspensions: `resolveContext` in the session,
  one microtask more in the engine), calls, malformed frames, the timer, the
  socket's close, an acknowledgement whose send fails.
* **Hard.** Several auth frames in flight; decisions that are acted upon a
  microtask after they were made; the timer racing the commit.
* **Correct when** the identity is fixed once, nothing is answered across the
  gate, a terminal refusal has a cause, and no connection stays half open.

### Client: the engine
`client/src/engine.ts`, over a pipe of `client/src/transport/*`.

* **State.** `connectGeneration`, `connecting`, `connected`, `authenticated`,
  `authFailed`, the pipe, the reconnect and ack timers, `activeSubs` with a
  retry count each, pending calls and actions.
* **Operations.** `connect`, `disconnect`, the asynchronous connection run
  (token, pipe, readiness), `handleClose`, subscription replay and retry,
  calls.
* **Hard.** `disconnect()` and `connect()` during any suspension; a pipe that
  arrives after nobody wants it; a send that throws inside the handshake; late
  answers for an id that was reused.
* **Correct when** it never gives up on a wanted connection, leaks neither pipe
  nor promise, and the server's subscriptions end up as the application's.

### Client: React bindings and the web client
`client/src/react-provider.ts`, `hooks.ts`, `client.ts`, `subscription-ids.ts`.

* **State.** `clientLifecycles` (client → number of mounted providers, version
  of the disconnect), deferred disconnects; a `useQuery`'s subscription and the
  entry of TanStack's cache.
* **Operations.** Mount and unmount of a provider, the deferred disconnect;
  subscribe and unsubscribe effects; fetch, retry, refetch on `invalidate`.
* **Hard.** A remount between an unmount and the microtask that would
  disconnect; data fetched over HTTP and invalidated over the socket.
* **Correct when** the connection lives exactly as long as a provider is
  mounted, and a commit made while a screen shows data is shown.

### The Electron transport
`client/src/transport/electron.ts` in the page, `server/src/electron.ts` in the
main process, over two ordered IPC channels that all pipes of a window share.

* **State.** The page's pipe (its `__connect` pending or sent, its listener), the
  frames under way, the adapter's map from `webContents` to a connection with
  the engine attached to it.
* **Operations.** Build a pipe, flush its `__connect`, send, close; handle
  `__connect`, `__close` and data; a close by the engine; a reload, a destroyed
  `webContents`, `detach()`.
* **Hard.** Frames carry no connection, so those of an earlier pipe or page are
  told apart by their order only; a teardown echoes `__close` or does not.
* **Correct when** no engine outlives its connection, a frame is handled by the
  connection of its own pipe, and when all has arrived a pipe is open on both
  sides or on neither, with the exceptions section 10 names.

### Server: HTTP routes, dispatch, permissions, identity
`server/src/routes.ts`, `create.ts`, `functions.ts`, `validation.ts`,
`permissions`, `identity`, `identity-workos`, `identity-clerk`, and `client/src/client.ts`
for what it sends.

* **State.** One request: its context with a principal and a `can` closed over
  it, the stages of the procedure that ran.
* **Operations.** Route, resolve the context (extract a credential, verify it
  against a key endpoint), read the arguments, scope, middleware stages,
  validation, the handler.
* **Hard.** An outage of the key endpoint against a bad token; options of a
  provider as they come from an environment; a stage that replaces the
  principal; a check that answers something truthy or throws.
* **Correct when** a verdict is about the token, a handler runs only for whom
  every permission said `true`, and the status tells the caller what to do.

### Server: the Node entry point
`server/src/serve-node.ts`: `serve()`'s `ready` promise, `stop()`, the set of
upgraded sockets. Hard: `stop()` before the port is bound, stopping twice,
upgrades in between.

### Server: tracked transactions and batches
`server/src/create.ts` (`app.call`), `apply-commands.ts`,
`db/src/tracker-core.ts`.

* **State.** A stack of trackers (dirty tags, tenant scope), what is written,
  what is committed; the function registry, a public and mutable Map.
* **Operations.** Writes, transactions and savepoints of handlers and hosts with
  their failures caught or not, `applyCommands` as a commit, inside a host's
  transaction, or as a preview; emission.
* **Hard.** What rolls back must not be emitted nor reported, what committed
  must be, whatever is thrown and swallowed on the way.

### Server: drafts
`server/src/draft-lifecycle.ts`, `draft-store.ts`, `draft-command-log.ts`,
`draft-review-state.ts`, `draft-publication.ts`; `db/src/draft-mutations.ts`,
`draft-select-builder.ts`, `row-revisions.ts`, `sync.ts`.

* **State.** PostgreSQL rows: the draft (status, log revision, base version),
  its command log, its sparse row changes with their anchors, the canonical
  rows and the revision ledger of revisioned tables.
* **Operations.** `append`, `publish`, `discard`, `rebase`, each a sequence of
  statements at READ COMMITTED with row locks, optimistic retries and replayed
  transactions; reads through a draft; the order in which a publication writes.
* **Hard.** Interleavings of these statements, deadlocks, a conflict check made
  some statements before the write it protects, a log that is compacted after
  every append and replayed at the end; foreign keys PostgreSQL checks after
  each statement; a limited read over rows some of which the draft hides.
* **Correct when** no append is lost or left behind, publication applies
  exactly what was reviewed to rows nobody has touched since, a clean draft can
  always be published, and a read sees the table with the draft applied.

A draft also outlives processes, configurations and releases of the framework.
Its row keeps the tenant and the owner it was opened for, and the tables carry a
version that `ensureDraftStorage` raises. Operations: `open` and the
authorization in front of every other call; seven migrations, run by the first
draft call of a process. Hard: what was stored under another configuration is
judged under this one, and what an earlier release did not record is filled in
by a migration. Correct when a draft is reached only in its tenant and by its
owner or with the host's leave, and when a publication of an old draft still
notices every write to its rows.

### The secret vault
`secret-vault/src/vault.ts` with its mapping store and the 1Password backend.
State: the mapping (reference → backend and item), the backend's items.
Operations: `store`, `withSecret`, `has`, `delete`, over two stores that fail
apart. Correct when no secret is left that nobody can delete, and a reference
answers for one secret until it is removed.

### How they interact
A page's providers share one web client: queries go over HTTP through the
routes, the engine holds the socket. The client engine talks to one server
connection over a pipe. The connection's
session gates its frames; the frames reach the reactive tier or `app.call`.
`app.call` runs a handler with a tracker and, when it settles, emits the
committed tags into the write stream; the router turns tags into `invalidate`
frames, and the client refetches. Both the session and the routes ask the same
`resolveContext`, and through it the identity provider. Draft calls are handlers
like any other; what they share with the reactive tier is the emit.

## 2. Modules

| Module | Models | Checked by | Proved in |
|---|---|---|---|
| `ReactiveTier` | connections, store, router, emit of mutations | `MCReactiveTier` | `ReactiveTierProofs` |
| `ServerSession` | one connection's session, gate, timer, closes | `MCServerSession` | `ServerSessionProofs` |
| `ClientEngine` | the client's reactive engine over a faulty pipe | `MCClientEngine` | `ClientEngineProofs` |
| `ElectronTransport` | one window: its pipes, both channels, the adapter's entry | `MCElectronTransport` | `ElectronTransportProofs` |
| `Transactions` | one request through the tracked layer: a call or a batch | `MCTransactions` | `LayerProofs` |
| `DraftAccess` | `open` and the authorization of draft calls, over deployments | `MCTransactions` | `LayerProofs` |
| `DraftStorage` | the draft tables over the releases of the framework | `MCTransactions` | `LayerProofs` |
| `DraftOverlay` | operators: row changes, anchors, log, conflicts, publication of a row | (used by the next two) | `DraftLifecycleProofs` |
| `DraftLifecycle` | append, publish, discard, rebase, other writers | `MCDraftLifecycle` | `DraftLifecycleProofs` |
| `DraftLog` | one author's histories, compacted after each command | `MCStorage` | `StorageProofs` |
| `RowLocks` | the locks of the revision-aware statements | `MCStorage` | `StorageProofs` |
| `ReferenceOrder` | the order of a publication's statements, and of the schema's tables | `MCStorage` | `StorageProofs` |
| `BoundedRead` | the three plans of a read through a draft | `MCStorage` | `StorageProofs` |
| `SecretVault` | the vault's operations over mapping and backend | `MCStorage` | `StorageProofs` |
| `SecretStore` | what the vault promises: the abstract specification | implemented by `SecretVault` | `StorageProofs` |
| `Identity` | operators: session providers, credentials, verification, principals | (used by `DraftAccess` and the next two) | `WebProofs` |
| `HttpRoutes` | one HTTP request from route to status | `MCWeb` | `WebProofs` |
| `WebPage` | screens, the web client, TanStack's cache, and the server they talk to | `MCWeb` | `WebProofs` |
| `NodeServer` | `serve()`: bind, upgrade, `ready`, `stop()` | `MCWeb` | `WebProofs` |

`WebPage` is the composition: it takes of the client engine and of the reactive
tier what `ClientEngine` and `ReactiveTier` verify of them (a wanted connection
is retried unless it was refused, subscriptions are replayed, a commit leaves an
`invalidate` under way to every entry that reads it) and puts the provider, the
hooks, the identity provider and HTTP around it.

`MCTransactions`, `MCStorage` and `MCWeb` each hold several components that share no state. A
behaviour of theirs is one of a single component, named by `part`; the others
stay as they began, so the instance is the union of the components' instances
and not their product.

Operators whose comment starts with *Seeded fault* are variants of the operator
below them, with a plausible mistake in it; no specification uses them. Each
property is checked against one, to show that the property can fail
(`"mutants"` of `PROJECT.json`).

### ReactiveTier
JavaScript runs one callback at a time, so an action is the code between two
awaits. An entry object is named by the attempt that made it, `<<connection,
nextSubAttempt>>`; identity checks such as `store.get(entry.id) !== entry` are
`Live(a)`.

| Action | Code |
|---|---|
| `HandleSubscribe` | `startSubscribeAttempt` with its clean-up of the id, path lookup |
| `ContextResolved`, `QueryReads`, `Register`, `SubscribeFailed` | the continuations of `handleSubscribe` and its catch blocks |
| `HandleUnsubscribe`, `Teardown` | `unsubscribe` frame; `closeWith`/`detach` |
| `Commit`, `Emit` | a transaction of a handler; the `finally` of `app.call` and the router's synchronous fan-out |
| `LinkStart`, `RecomputeReads`, `RecomputeFails`, `LinkFinish` | `processOne` between its awaits |

A query's result is abstracted to the set of tags it reads; a commit of tables
`T` changes the result of every query reading one of `T`, and may change which
tags it reads. A run of a query reads at one instant. Two history variables
carry the properties. `owed[a]` says that the result of the attempt's query
changed since its run read, whether the entry was registered by then or not, and
that no `invalidate` was sent since. `missed[a]` says that the tags of the
attempt's last run were not in force when they were needed: a write they match
was emitted between the read and `subscriptionStore.add`, or between a
recompute's read and the assignment of `entry.tablesWatched`, or the last
recompute threw and left tags that are outdated. The next read of the query
clears it.

### ServerSession
`micro` is the queue of continuations of `await session.handleAuth()`; frames,
timers and socket events are macrotasks and wait until it is empty.
`resolveContext` settles at any time, in three ways (a context, a refusal, an
unavailable provider). `HandleAuth`, `SessionContinues` and `EngineContinues`
are the three stretches of code of one auth frame. `firstSent` and `violated`
are history variables.

### ClientEngine
Runs, pipes and ack timers are named by the `connectGeneration` they belong to,
0 for `null`. `TokenSettles`, `PipeCreated`, `PipeReady`/`RunReady`,
`RunRejected`, `RunSettles` are the continuations of one run of `connect()`.
The carrier may close with any code, reject a send later, or (adapters other
than the WebSocket's) throw on send. `requiresAuth` and `sendsThrow` are fixed in
`Init`, so a run covers the four kinds of configuration. The server is modelled
by what it holds once it has read what was sent (`held`), and by the answers it
still owes (`due`).

### DraftOverlay, DraftLifecycle, DraftLog
A row is a value and, in a revisioned table, a revision. `DraftOverlay` holds
what one statement computes: the coalesced read, the sparse upsert and its
anchor, `compactLog`, `Replay`, the conflict predicate, the comparison of the
replay with the reviewed changes, and the effect of publishing one row.

`DraftLifecycle` runs calls as processes whose steps are statements. A
transaction's own row changes are in `buffer` until it commits; `lock` and
`hold` are the locks of a row and of the draft's change of it, `publisher` the
publishers' advisory lock. A step of a process that waits for a lock is
disabled (`WaitsFor`); a cycle of waits is resolved by `Abort`, which replays the
transaction up to `TxAttempts` times. `HostWrite` is a committed write of
somebody else. The `wystack_drafts` row is the last one a transaction writes, so
taking its lock, the compare-and-set of its revision and the commit are one step.

`DraftLog` drives the same operators with one author and no races: every history
of inserts, updates and deletes, to compare compaction with the row changes.
All commands of a row carry a compaction key, or none does (`Keying`).

### RowLocks, ReferenceOrder, BoundedRead
`RowLocks` gives each revision-aware statement the groups of locks it takes, in
its order (`DraftWriteLocks` of `writeDraftRow`, `PublishLocks` of the locked
review, `DeleteLocks` of the three statements of a canonical delete,
`UpdateLocks`, `InsertLocks`, and `DiscardLocks` of `clearDerivedChanges`); a
connection takes them one at a time, waits for what another holds, and keeps
everything until it ends. Locks inside a group come in any order, as a scan or
the caller's array has them (`Scan`). `OrderedStatements` are those that keep the
lock order: draft writes, publications, updates and inserts of one row, deletes
whose statements find no row that was not a candidate. Updates and inserts of
several rows, deletes that find other rows, and discards are `LooseStatements`; a
connection that runs one is in `loose`. PostgreSQL aborts a transaction of a
circle of waits (`Abort`).

`ReferenceOrder` builds a database, a draft over it and its recreated rows with
steps of its own (`DraftPuts`, `DraftDrops`), and is the ordering algorithm of
`draft-publication.ts` (`Releases`, `Acquisitions`, `Ordered`) at every
state. The reference definition is a search for any order of the same
statements that passes PostgreSQL's checks (`SomeOrderPasses`). The order of
`sortByFkDeps` (`CreationOrder`) is checked beside it.

`BoundedRead` has a table and a draft's changes, an arbitrary pair of them at
every state, and the three plans of `draft-select-builder.ts` (`PointPlan`,
`BoundedPlan`, the full join) for every query of `Queries`, NULLs included. The
reference definition `Expected` applies the draft first and then filters,
orders and limits.

### SecretVault, SecretStore
Each await of the vault is a step of a caller: `StoreStart`, `BackendStores`,
`Bind`, `Rollback`; `LookUp`, `ReadItem`, `HasItem`; `DeleteFinds`,
`RemoveItem`, `Unbind`. Each call to a store may fail before or after it took
effect; `Crash` forgets the calls under way; `Outside` is somebody else in the
1Password vault, who edits an item (it loses the vault's owner tag) or removes
it. `SetClassDefault` changes where new secrets go.

`SecretStore` is the promise in three operations: a reference is added once for
one secret, removed once, and resolves to that secret while it is live.
`SecretVault` implements it (`KeepsPromise`) under the mapping *secretOf* ← what
a reference was minted for, *live* ← the references whose mapping record leads
to an item that is there.

### Transactions
A stack of trackers, from the request's own to the innermost transaction. A
handler is any program over its restricted surface: `Write`, `HandlerOpens`,
`HandlerCloses`, `Throw`, `HandlerUnwinds` (the exception leaves a transaction,
which rolls back), `HandlerReturns`. `CallEnds` is the `finally` of `app.call`,
`BatchCommits`, `BatchJoins`, `PreviewCommits` the three ends of
`applyCommands`, `HostOpens`, `HostCatches`, `HostEnds` the host around a batch
that was given its transaction. `Scan` is the pass over the commands before
anything runs, `Dispatch` the second look a command gets when its turn comes;
`ReplaceFunction` changes the registry in between. A COMMIT may fail, or take
effect and lose its answer (`ackLost`).

### DraftAccess, DraftStorage
`DraftAccess` is the life of drafts seen by their authorization. `Open` stores
the tenant (`ScopeTracked`, or none with `GlobalAuthority`) and the owner
(`OwnerKey`). A call is two steps, `Authorize` (`requireStored`,
`authorizeTracker`) and `Act`, its transaction, which compares the stored draft
with the one that was authorized and scopes its tracker from it. `Deploy`
changes which of tenancy, owner resolution and the two hooks are configured.
Both hooks give one answer in a call, which leaves out combinations that only
refuse more. `reached` is the last call of the current deployment that acted.

| Action of `DraftStorage` | Code |
|---|---|
| `Ensure` | `storageReady` of one process: `ensureDraftStorage`, with `Migration(v, ...)` for each version |
| `Deploy` | a release *k*, which has the migrations 1 to *k*; the schema may gain a revision column |
| `CanonicalWrite` | a tracked insert, update or delete, with `allocateRowRevision` and `preserveRowRevision` |
| `Append`, `Rebase`, `Discard` | the draft calls, with `lockRowRevision`, the anchor, the descriptor of the table and the hash |
| `Publish` | the checks of a publication on one row (`RowUnchanged`, `DescriptorCurrent`, `ReplayMatches`) and its write |

`Ensure` is one step because it is one transaction under an advisory lock. Of
the earlier releases only what the migrations and the comments on them say is
known, so only `Append` is theirs (as far as a migration shows what they
stored); `Publish` and `Rebase` are those of the current release. The seventh
migration makes two constraints deferrable and is a step without effect here.

### Identity, HttpRoutes
`Identity` has the two session providers as their constructors leave them:
options as an operator types them (blank, padded, with a slash too many, a key
endpoint that is not secure) and the provider they give or the refusal
(`Construct`); `Verify` for every token and every state of the key endpoint,
`Credential` and `GetSession` for the header. Clerk's issuer loses its slash,
WorkOS' is only trimmed: a deployment `Misspelt` so accepts no token.

`HttpRoutes` is one request: `Route`, `Resolve`, `ReadArgs`, `Scope`, `Stage`,
`Validate`, `Handle`, each the code up to the next await. `resolveContext` may
throw whatever the verdict on the credential was (401, or 503 for an outage of
its own), and `resolveTenant`, a stage and the handler may throw any of the errors
the routes tell apart (`Thrown`); `threw` remembers which of the host's two did.
What a step consults is chosen when it is consulted: the deployment, the state of the key endpoint, the
next stage of the procedure (`requireAuth`, `authorize`, or one of the host's
own that may patch the principal, refuse or throw). Permissions are `allOf` or
`anyOf` over checks that answer `true`, `false`, something truthy, or throw.

### WebPage, NodeServer
| Action | Code |
|---|---|
| `Mount`, `Unmount`, `DeferredDisconnect` | the effect of `WyStackProvider`, its clean-up, the microtask the clean-up queues |
| `SubscribeEffect`, `UnsubscribeEffect`, `Skip` | the effect of `useQuery` and what re-runs it |
| `HttpRead`, `HttpSettles`, `HttpLost`, `OnInvalidate` | a fetch of the query, with TanStack's retries; `invalidateQueries` |
| `Opens`, `Drops`, `Reconnects`, `ServerReceives` | the engine's connection and the adapter's events |
| `Commit`, `Invalidates` | a write elsewhere, and the `invalidate` frame of an entry |
| `Environment` | the token of `getToken()` goes bad or good, the key endpoint comes and goes |

`NodeServer`: `Bound`, `BindFails`, `Accept`, `Upgrade`, `SocketCloses` are the
listeners of `serve()`, `Stop(immediate)` is `stop()`.

### ElectronTransport
Pipes are numbered in the order they are built, connections in the order they
are opened. A frame is its type and, for the properties only, the pipe or
connection it comes from; no action of the adapter looks at that to decide
anything. `FlushConnect` is the microtask of `createElectronPipe`; frames that
arrive are macrotasks, so `ReceiveS2C` waits for it. `HandleConnect`,
`HandleClose` and `HandleData` are the three branches of `c2sListener`;
`Removed` is `teardown`, `Echo` the `__close` it sends or suppresses.
`Reload` drops the page's pipes without a word and what was under way to the
document that is gone, but not what that document had sent.

| Action | Code |
|---|---|
| `CreatePipe`, `FlushConnect`, `SendData`, `ClosePipe`, `ReceiveS2C` | `createElectronPipe`, `flushConnect`, `send`, `close`, `s2cListener` |
| `HandleConnect`, `HandleClose`, `HandleData`, `Unheard` | `c2sListener`, or none after `detach()` |
| `Push`, `EngineCloses` | `PipeImpl.send`; the `onClose` hook given to the engine |
| `Destroyed`, `Detach` | `destroyedListener`, `detach` |

## 3. Runs

| Run | Instance | What it shows |
|---|---|---|
| `reactive` | 1 connection, 2 attempts, 2 mutations over 2 tables, a read set that depends on data, fairness | no orphaned or superseded entry; from the read of a query on, a commit that changes its result or its read set is on its way to the client, unless it is `missed`; every other owed `invalidate` is sent |
| `reactive_reconnect` | 2 connections, 1 attempt each | *violation*: teardown of an old connection removes the entry of its successor |
| `session` | 3 auth frames, 2 tokens, 1 call, fairness | identity fixed once, nothing across the gate, closes with a cause, no half-open connection |
| `session_refused` | 2 auth frames | *violation*: an authenticated connection is closed as `auth-failed` |
| `client` | 4 generations, 2 subscriptions, 1 action, retry cap 1, 4 configurations | the engine never stalls, leaves nothing dangling, and agrees with the server |
| `draft_race` | 1 revisioned row, 3 calls (append; append or publish; publish, discard or rebase), foreign writes | no append lost or left behind, anchors are exact, publication is what was reviewed |
| `draft_cross` | 2 rows without revisions, crossing batches, the same menu of calls, fairness | deadlocks are resolved, every call ends |
| `draft_rebase` | as `draft_race`, rebase | *violation*: a rebase anchors at a write nobody confirmed |
| `electron` | 3 pipes, 1 close by the engine, channels of 2 before data | no leaked engine, frames meet their connection, a reload is silent; once settled an open pipe has its connection, and the connection that is kept is that of the last pipe that said anything: open, lost with its document, or ended by a crossed echo |
| `transactions` | one call or batch of 2 commands, 2 writes, 4 nested trackers, 2 tables, 2 tenants, 1 change of the registry; access (1 draft, 2 calls, 1 redeployment); draft tables (2 drafts, 2 processes, 3 canonical writes, 2 deployments) | what is emitted and reported is what committed, a batch is all or nothing, actions stay out of batches, tenants and owners stay apart, an upgrade overlooks no write |
| `storage` | the vault (2 references, items, backends and callers); the log (2 rows, 6 commands); locks (3 rows of 2 tables, 3 connections, 1 of them at a time without a lock order); reference order (3 rows, 3 tables); reads (3 rows, limits 0 and 1) | the vault orphans no secret and keeps its promise; compaction is faithful; statements that keep the lock order never wait in a circle; both foreign-key orders are safe; reads through a draft are exact |
| `web` | 2 screens, 2 commits, 4 effects, 1 retry; every request over two stages; 2 sockets, 2 stops; fairness | connections live as long as their owners; answers are just; what is committed while a screen shows data is shown |

**Why the bounds are enough.** The reactive races are between one pending or
registered attempt and one newer frame or close for the same id, so two attempts
reach every pair; two mutations suffice for a link that is queued while another
runs. What several connections that share ids do to each other is the subject
of `reactive_reconnect`, and the theorems hold for any number of them. Three auth frames are one more than any
check of the session compares. Four generations are two complete
connect–disconnect pairs, or one connection with three reconnects, which lets a
continuation of a first run meet a third one; a cap of one retry reaches both
sides of the cap. Three calls let a transaction be overtaken twice. Three
foreign writes (`MaxVersion = 4`) are delete, insert, and one more, the shortest
way to give a row the identity it had before. Six commands on two rows contain
every compaction case followed by one more command for the same row. The
attempts of appends and transactions are 2 in the runs instead of 5 and 3: one
attempt that fails and one that is the last. A pipe of a window can be disturbed
by frames of its predecessor, and through it by those of one pipe more, so three
pipes suffice; two data frames in a channel let one of them be the first after a
control frame and one not.

Two writes are one inside a nested transaction and one before or after it; a
stack of four is a request, a host, a batch and a handler's own transaction, or
a call with three transactions inside each other. Two commands are one that
commits its part and one that fails. Two callers of the vault on two references
and two items make every pair of operations on the same reference and on the
same item. Three rows are the smallest set on which three statements can wait in
a circle through two tables, and two statements beside a third that keeps no order
(`MaxLoose = 1`) are the smallest set that could be drawn into a circle of their own, and on which a publication can have a chain of
references with a change in the middle; three rows with a limit of one leave the
draft room to hide the row the limit stops at and the one after it. Two screens
have one provider mount while the other's disconnect is deferred; four effects
are two mounts, an unmount and a remount. Two stages of a procedure are one
that changes the principal and one that judges it. Two stops are a graceful one
and an immediate one, with an upgrade between them.

One redeployment separates the configuration a draft was opened under from the
one it is used under; of two calls one closes the draft the other was authorized
for. Two deployments are an upgrade, or two in a row, or an upgrade and a
rollback among the releases that keep the ledger. Three canonical writes are an
insert, a delete and an insert, which gave a row its earlier revision back before
there was a ledger; the lock of a second draft creates the ledger entry that
makes such a row comparable.

`CHECK_DEADLOCK FALSE` is said everywhere because every instance really stops:
connections close, frames, calls and commits run out, drafts end.

## 4. Fairness

* `ReactiveTier`: a mutation that committed settles, and the event loop runs the
  chain of a **live** entry. Nothing is assumed of a dead entry's recompute (it
  may hang forever, and must not matter) nor of contexts and queries of a
  subscribe.
* `ServerSession`: microtasks drain and an armed timer fires. Nothing is assumed
  of `resolveContext`, which may never settle; the timer is what ends the
  handshake.
* `DraftLifecycle`: a call that was made runs its next enabled step, and the
  database resolves a deadlock. Nobody has to make a call.
* `WebPage`: a request that was made settles, and an `invalidate` under way to
  an open connection arrives. Nothing is assumed of React, of who commits, nor
  of a connection that is down. A lost request (`HttpLost`) settles as an
  error, and TanStack stops retrying.

`ClientEngine` is checked for safety only: `NeverStalls` states as an invariant
that some pipe, run or timer will move it on, which needs no fairness.

## 5. Refinement

`SecretVault` implements `SecretStore` (`KeepsPromise`, a PROPERTY of the run
`storage`): minting, binding, failing, rolling back and crashing are stutters or
one `Add`; a removal by the owner or by another user of the provider is one
`Remove`; an answer, positive or negative, is a `Resolve` of that reference at
that moment. An interrupted `store` may have bound a reference nobody was
given; the abstract store allows it, because it says nothing of who knows a
reference. The run checks the refinement on its instance; `VaultKeepsPromise`
proves it for any number of references, items, backends and callers.

## 6. Proofs

The proof modules assume only what the component's module states about its
constants.

* **`ReactiveTierProofs`.** `IInv` = `TypeOK` ∧ `AttemptTokens` ∧
  `NoOrphanEntry` ∧ `NoSupersededEntry`; the last three are the parts of
  `EntriesAreCurrent`, theorem `EntriesCurrent`. The two store invariants are not
  inductive alone: `Register` stores an entry because `Bails` found the token
  current, and only `AttemptTokens` (a non-zero token is that of the newest
  attempt, made after the last cancellation, on an open connection) turns that
  into the newest attempt of an open connection. `NothingLost` needs more:
  `Covered` follows a debt through the three places where the tags of a run
  live. Before the registration it is covered by the emission to come
  (`BeforeEntry`), while a link holds fresh tags by what will still match those
  (`WhileFresh`), and for an entry by its chain or by an emission its tags match
  (`AsEntry`); `Staged` (only registered entries have a chain) keeps the places
  apart. Read sets may depend on data.
* **`ServerSessionProofs`.** `GateInv` adds to the four invariants `Settlement`
  (a handler's stage agrees with how its context settled), `Vouched` (the token
  in use is one the provider accepted), `AckComes` (between the commit and the
  acknowledgement the continuation is queued, so no macrotask can run) and
  `CallsFollowAck`. `AckComes` carries the argument: because frames and timers
  are macrotasks, none of them sees the connection authenticated and
  unacknowledged; `AckFirst` and `TimerSparesAuthenticated` follow. `GateIsKept`
  and `ClosesForCause` put them together into the properties the run checks.
* **`ElectronTransportProofs`.** `NoEngineLeaked` is inductive over `TypeOK`.
  `FramesOfOwnPipe` is not: a data frame may be dispatched to the entry only
  because the `__connect` of its pipe was ahead of it, or has arrived with
  nothing of a later pipe after it. `RouteInv` says so (`Routed`, for the frames
  under way and for what an open pipe may yet send) and adds what orders the
  frames: pipes are built one at a time (`OnePipe`), so frames are under way in
  the order of their pipes (`Ordered`). Channels are unbounded in the proof; the
  lemmas `TakeRouted`, `PutRouted` and `StayRouted` are the three ways a step
  can treat the channel. `EndsAgree` (theorem `BothEndsAgree`) is about the state
  in which nothing is under way, and its invariant `AgreeInv` accounts for
  everything that may be: only the newest pipe is alive (`NewestAlive`); a pipe
  that closed sent its `__close` last (`CloseFrames`); the entry is that of a pipe
  before which nothing is under way, and whose `__close` is, if it closed
  (`EntryKnown`); an open pipe has its `__connect` under way, or the entry, or
  lost it to a close by the engine (`Awaited`); a later pipe than the entry's
  that said anything has its `__connect` or its `__close` under way
  (`NewestHeard`); and every `__close` from the
  adapter was asked for by a pipe (`Echoed`). `ReloadsAreSilent` follows from the handlers.
* **`LayerProofs`**, requests. The invariant follows the stack. `Nesting` says which
  trackers are open in which phase; `Tagged` that a
  transaction's tags are those of what it wrote, and the request's those of what
  is committed; `Undone` that nothing is committed before a batch is over or
  emitted before a call is; `Numbered` that no write is in two transactions at
  once; `Gathered` that the writes of a batch are what its transactions hold while
  it runs, and what the host's got from it afterwards; `Scoped` that a handler
  writes for the tenant that was resolved; beside it `HandlersWrite` says that outside
a batch every write is a handler's, so that the tags of a call are of that tenant
too (`TagsApart`). `EmitsWhatCommitted` and
  `ReportsItsOwnWrites` are then read off at the bottom of the stack. The
  delicate steps are the two ends of a nested transaction: the merge copies tags
  downwards (`MergedParts`), the rollback takes writes and tags together
  (`RolledBackParts`).
* **`LayerProofs`**, drafts. `DraftAccess`: a call keeps in `Authorized` what it was
  authorized for (the stored draft and the context it read) and the configuration
  cannot change under it; `OwnerTells` says that a stored owner names the
  principal that opened the draft, unless owners were shared by configuration.
  `DraftStorage`: an upgrade overlooks a write if the replay of an open draft
  finds its anchor equal although the row changed in between. `AnchorGood`
  excludes it: an anchor with a real revision was recorded while the row's ledger
  entry was kept, or by a release whose upgrade will mark the draft (`Tells`);
  hence equal anchors mean that nothing was written. `PartsAgree` is about the
  columns migrations add, which a draft of an earlier release lacks until its
  upgrade has run.
* **`StorageProofs`**, vault. `RecordsLead` (a record leads to the item its reference
  was made for), `MintedOnce` (one reference per item, which loses its record only
  once the item is gone), `StoresOwnItem` (no two `store` calls work on one item)
  and `UsesOwnRecord` (any other call works on its reference's item, and unbinds
  only when that is gone) make `NothingOrphaned` inductive.
  `VaultKeepsPromise` is the refinement: each action maps to a step of
  `SecretStore` or to a stutter. A negative answer is given some steps after the
  record was read; the invariant says that the item it led to is gone for good.
* **`StorageProofs`**, locks. `InOrder` says of what a statement still has to lock
  that revisions come one by one and upwards, and anything else of a row after the
  row's revision. Each statement that is not loose is built in that order, whatever rows
  it is given (`DraftWriteInOrder`, `PublishInOrder`, `DeleteInOrder`; for a
  publication because the identity of a row begins with its table), or locks one
  canonical row (`InTurn`), and `LocksInv` keeps it while locks are taken, whatever
  the loose ones do. So who waits without being loose holds no lock that another needs under a
  revision both would have to hold (`WaitsUpwards`): a wait of a statement that is
  waited for is for the revision of a later row than it holds, and a circle would
  have no greatest one. A canonical update of one row takes one lock without the
  revision, and never waits while it holds it. Of loose statements nothing is said:
  every circle of waits has one in it.
* **`StorageProofs`**, reads. Nothing is inductive here: `ReadsAreExact` says that
  two ways to compute a result agree for every table, draft and query. A finite set in
  a linear order can be listed in one way only, by rank (`Listed`, `ListedByRank`;
  rows with distinct keys are in such an order by any column, `OrderIsLinear`).
  So leaving rows out of a table leaves the first k alone if each has k rows before it
  that stay (`TakeAgrees`). The join of any of the plans shows of each row it has what
  the reader should see (`EffectiveIsSeen`). A row the bounded plan misses is an
  unchanged one behind the first L + M matching rows of the canonical table
  (`TopReaches`); of these at most M are changed (`FewChanged`), and the other L
  stay before it in the result.
* **`StorageProofs`**, orders. `ReferencesComeFirst` starts from an order that passes
  every check of the database, if there is one (`SomePasses`), and has two halves.
  Every edge of the code is one such an order respects
  (`ReleaseRespected`, `AcquisitionRespected`, `RecreationRespected`): codes are unique, so
  the row a reference needs is the one whose code would change, and the check after
  that one statement would fail. Hence the edges have no cycle, and whatever has
  been applied, the first step of the passing order that has not been is ready
  (`FirstIsReady`): no cycle is reported. And the edges are enough (`ClosedHolds`):
  any set of steps that holds what its steps wait for meets every reference, also
  those for which the code adds no edge, since a child that keeps its reference
  throughout keeps its parent in place (`ParentStays`). Of the schema, each pass
  emits a table until none is ready (`EnoughGrows`); a table that is left then, and
  reaches no cycle, would lead to another that reaches fewer tables
  (`SaneEmitted`).
* **`StorageProofs`**, log. `CompactionLosesNothing` needs no race, but a history
  of any length. `LogInv` says that the stored log is the compaction of the
  history, that every command missing from it has its cause there (`Accounted`),
  and that each row's change is what the log's commands of that row leave
  (`FitsIn`). The operators are those of the drafts, so the lemmas about them are
  taken from `DraftLifecycleProofs` (`LogBegins`, `LogGrows`, `LogIsFaithful`, at its
  end), instantiated for no caller as `Drafts`; `DraftsAssume` discharges what
  that module assumes of its constants, and `SameCompaction`, `SameTouch`,
  `SameReplay` and `SameMatch` identify the two copies of the operators.
* **`ClientEngineProofs`.** `IInv` has a part for each thing a continuation may
  find changed: `Runs` (the current generation's run is under way while
  `connecting`), `Pipes` (a pipe in use is that of the current generation and its
  run got that far), `Links`, `Timers`, `Retrying`, `Server`. `NeverStalls` and
  `NothingDangles` are conjuncts of it. `SubscriptionsAgree` is carried along
  under `~ReuseIds`, with `Fresh` (an id not yet used is nowhere, and an active
  one was sent once); section 10 says what happens otherwise.
* **`DraftLifecycleProofs`.** First the laws of the log: compacting twice is
  compacting once (`CompactionSettles`), and a command appended to a compacted
  log gives the log one gets by compacting at the end (`CompactionForgets`). The
  code relies on both, since it compacts after every append. They are proved of
  the recursive definition itself, for logs of any length. `AppendsKept` and
  `AnchorsAreExact` need `Knows(p)`, what a call knows between two of its statements
  if the draft's revision is still the one it read (an append the log it read, a
  publication the rows it locked and found unchanged), and `Tracked`, that no
  anchor is ahead of its row. `PublishIsReviewed` is an
  action property of the same invariant, under `Revisioned`: the check of a table
  without revisions compares existence only.

  `CleanDraftsPublish` compares two replays: the stored changes are what the
  batches left one after the other, a publication replays the compacted log from
  the canonical rows. `RowRun` takes a replay apart by row (`RowsReplay`), since a
  command reads and writes its own row only. Of one row, `Fits` says that what its
  commands in the log leave is the stored change, but for the way in which the row
  is gone if it is gone (`Alike`): the next command finds the same either way.
  Compaction keeps it (`OneMoreFits`): what it drops comes before an insert, when
  the row was gone, or before a delete, after which it is. `FitInv` carries it
  through the calls: `Appending` relates what an append has run so far with the log
  it read and the part of its batch that is behind it, `Replaying` what a rebase
  has run with the log, for the rows nobody has written since the base. It is
  proved under `RowsAreKeyed`: the commands of a row all have a compaction key or
  none has. Without it the statement is false, and TLC finds it so: of a keyed
  insert, an unkeyed delete, an unkeyed insert and a keyed delete of one row,
  compaction drops the two keyed ones, and leaves a log that begins by deleting a
  row that is not there; the publication of such a draft is refused.
* **`WebProofs`.** Of a request, `HttpInv` says by how far it is what has been
  established: past the route, that the request may name its function (`Routed`);
  past the host's context, that no outage was met and a strict host saw a session
  (`Admitted`); from the first stage on, that `can` judges the principal of its
  own context (`Judged`). What a verdict says of a token rests on the lemmas:
  every verifier that a deployment can start with is for our own client, issuer
  and origin however its options were typed, or for an issuer that signs no token if
  it is misspelt (`DeployedFit`, `MisspeltFits`), `ErrorClasses` and
  `VerifiedFor` go through the order of the checks, and `CheckIsStrict` shows
  that a combinator says `true` on `true` only. Of the page, `PageInv` counts:
  the mounts of the lifecycle are the number of mounted providers, and once there
  is none the last microtask queued carries the current version, so it is the one
  that disconnects. A refused connection was refused for a bad token
  (`GenuineIsNotRefused`).

**Induction.** The induction theorems of the library take an operator as a
parameter, which the provers used here cannot instantiate. Where an induction was
needed (logs and the functions that walk them) it is made over a *set* of
numbers: `Induction` and `SeqInduction` are derived from `NatLessThanWellFounded`,
and `Recursion` shows that the recursive functions on logs exist. No module with a theorem reaches a `RECURSIVE` operator.

**Assumptions.** Each is named in the component's module and evaluated in every
run: bounds are natural numbers (`BoundsAssumption`, `AttemptsAssumption`,
`ResolvedAssumption`); a value that stands for *nothing* is none of the others
(`NoEntryAssumption`, `NullAssumption`, `NoneAssumption`, and `VaultAssumption`,
which also says that there is a backend); what a caller appends is a sequence of
commands (`BatchesAssumption`); a query reads one of a set of sets of tables
(`ReadSetsAssumption`), and a connection uses a set of ids (`SubIdsOfAssumption`);
tables with a tenant are tables, and no tenant is the absent one
(`TransactionsAssumption`); a permission's check answers `true`, something truthy,
`false`, or throws (`LeafAssumption`); rows are numbered as their identities sort,
table first, and a draft is not called as one of the names of `RowLocks`
(`LocksAssumption`); the keys and values of `BoundedRead` are numbers, finitely many, a
value is below NULL and an absent row is no value (`ReadAssumption`); the rows of
`ReferenceOrder` are finitely many numbers, and its tables are numbered from 1 on
(`OrderAssumption`); the rows of the log are numbers, and they have revisions or
not (`LogAssumption`). Four theorems have a hypothesis of their own:
`SubscriptionsStayAgreed` (`~ReuseIds`), `PublicationIsReviewed` (`Revisioned`),
`CleanDraftsPublish` (`RowsAreKeyed`) and `CompactionLosesNothing` (`KeysAgree`, the
same of one author). `OwnedAreRegistered` and `TeardownSparesOthers` assume `IdsApart`,
that no two connections may use the same subscription id. The run
`reactive_reconnect` violates `TeardownKeepsOthers` where ids are shared; by the
theorem, shared ids are the only way to that finding.

**Only model-checked.**
* Liveness (`EventuallyInvalidated`, `HandshakeEnds`, `CallsSettle`, `HookIsLive`),
  which is out of the prover's reach. Every other property of a passing run is
  stated by a theorem.

## 7. Plan

1. Read sets in `Transactions`: what a query that runs in a transaction is
   registered under.
2. The composition of `ClientEngine` with `ReactiveTier` over the loopback
   transport, for what `WebPage` now takes of both from their own runs.

## 8. Findings

Each is a violation run; the counterexample is the run's trace.

* **Teardown crosses connections** (`server/src/engine/engine.ts:190`). Ids are
  chosen by clients and keep their value across a reconnect, the store is
  shared, and teardown deletes by id. A late close of the first socket silently
  removes the live subscription of the second.
* **An authenticated connection refused** (`server/src/engine/session.ts:176`).
  A refused frame is decided while the gate is closed; the other frame commits
  in the microtask before the engine acts on it.
* **Rebase's unconfirmed window** (`server/src/draft-lifecycle.ts:582`). A
  canonical commit between the confirmation and the replay's row lock is
  anchored silently.

## 9. Not modelled

* **Transport protocol.** `transport/src/protocol.ts`, `typed.ts`: the parsing of
  frames has no state. A malformed frame is an action of `ServerSession`.
* **Loopback.** An in-process pair of pipes, used by tests: it delivers a
  microtask later and a close closes both ends.
* **Log.** Output. The ring buffer is a bounded array for development, and
  nothing reads it back to decide anything.
* **Versions and branded types.** Comparisons without state.
* **The exported subscription manager** (`server/src/subscriptions.ts`). The
  engine does not use it.
* **Lint rules.** A build-time tool.
* **SQL text, the query DSL, column codecs, DDL.** Conversions whose result is
  only as good as PostgreSQL's reading of it; what they decide (which rows, in
  which order, under which locks) is in `BoundedRead`, `RowLocks` and
  `DraftLifecycle`.
* **The Bun entry point**, which hands its options to `Bun.serve`, and
  `mountNodeRoutes`, a path filter in front of a host's server.
* **Naming of permissions** by their path in a tree, and the comparison of the
  names with a snapshot at start-up.
* **Typed references, the `api` proxy, `setup`, `useMutation`, `useAction`.** They
  forward to the client.
* **The outbound buffer of the WebSocket transport.** The engine sends nothing
  before the pipe is ready.
* **The read-only draft calls** (`getLog`, `detectConflict`, `inspect`). They decide
  by the operators the modelled calls use and change nothing. `DraftLifecycle` starts with an open draft its callers may use; how it
  came to be is `DraftAccess`, and its hash is `DraftStorage`.

## 10. Limits

### Engines and transports
* The reactive tier loses a write whose tags are emitted after a query read and
  before the tags of that run are in force. On a subscribe this is a mutation
  that commits **and** ends between the query's read and `subscriptionStore.add`
  (`server/src/engine/engine.ts:407-411`): its tags find no entry, and the
  client keeps the older result until the next matching write.
  `client/src/__tests__/ws.test.ts:123` knows the race ("a single mutation can
  race the registration") and mutates in a loop. On a recompute it takes a read
  set that depends on data: the write matches the fresh tags only, and is emitted
  before `entry.tablesWatched` holds them. A recompute that throws keeps tags
  which may be outdated as well (`invalidation-router.ts:108`). These are the
  runs `missed` marks; `NoLostInvalidation` and `EventuallyInvalidated` except
  them and nothing else.
* A query handler with several reads is one read of all its tags.
* `SubscriptionsAgree` is checked for ids that are never reused (`ReuseIds =
  FALSE`), as `createSubscriptionId` produces them; the application may pass its
  own generator, and a late error for an old subscription then removes the new
  one (`client/src/engine.ts:304`).
* The third part of `NothingDangles`, `AckTimerDone`, is stated for carriers
  whose `send` does not throw. If the auth frame's send throws, the ack timer is
  armed after the clean-up that would have cleared it
  (`client/src/engine.ts:436`); the WebSocket adapter never throws.
* One window is modelled, and one pipe at a time of its page, which is what the
  client engine builds. A page that closes its pipe has removed its listener, so
  the echoed `__close` is heard by the pipe it builds next, or by nobody, where
  the comment expects the client that closed to hear it
  (`server/src/electron.ts:317`). If the next pipe hears it, the page takes that
  pipe for closed, and the adapter keeps the connection it opened for it, with its
  engine attached, until the window's next `__connect` replaces it. The two ends
  do not agree then: `ClosedIsFreed` names the case (`Crossed`) and says that it
  is the only one, next to a document that went, in which a connection is kept
  for a pipe the page does not have open. A close by the engine is not told to the
  page (`server/src/electron.ts:269`): the hook suppresses the echo because the
  engine closes the wire itself, but has closed the pipe before the engine does.
  `EndsAgree` therefore excepts the pipes the engine closed.
* Reconnect delays and payloads are abstracted away.

### Web
* `HookIsLive` is about commits made while the screen's subscription is in the
  store and the cache has data. A write between the HTTP read and the
  registration of the subscription is in neither; an invalidation that arrives
  during the first fetch joins it; and a reconnect subscribes again without
  refetching. In these three cases the screen shows the older result until the
  next invalidation.
* In `WebPage` the engine retries an unauthenticated connection as it does any
  other that was not refused; backoff is left out.
* `HttpRoutes` is one request, and the registry does not change under it (the
  routes look up `fn.type` before they await the context; `Transactions` has the
  changing registry). Combinators are one level deep.
* The key endpoint of `Identity` has our keys whenever it serves. A key that is
  rotated within the JWT library's cool-down makes the library report that no
  key matches, which the code counts as the token's fault: until the cache is
  refreshed, a valid token is rejected. `VerdictIsAboutTheToken` does not cover
  that.
* A defect in `verify` is rethrown so that it "surfaces as a server fault"
  (`identity-workos/src/index.ts:244`), but both routes answer 401 to whatever
  `resolveContext` throws that is not an outage (`server/src/routes.ts:299`,
  `:366`): a caller with a good token is told to sign in because the host failed.
  `StatusIsJust` allows it, where `threw` says that the host did.
* WorkOS' issuer is only trimmed (`identity-workos/src/index.ts:121`): typed with a
  slash too many, the deployment starts and accepts no token.
* A clause of `StatusIsJust` (`answer = 401` for a deserving caller) names who may have
  thrown, not which of them did when more than one could have.

### Transactions and storage
* If a COMMIT takes effect and its answer is lost, the writes are there and
  nothing is emitted; `EmitsWhatCommitted` excepts that case (`ackLost`).
* In `Transactions` a handler does not swallow the error of a statement inside a
  transaction (PostgreSQL refuses every later one), and does not run two nested
  transactions beside each other (`Promise.all`). Read sets, which merge as
  the tags do, and the path on which a draft call supplies the outer
  transaction, are left out.
* In `DraftStorage` all processes restart together, so an old and a new release
  never run side by side on one database. No deployment goes back behind the
  release that keeps the ledger. A table may gain its revision column but not
  drop and declare it again, and its key keeps its type.
* "Every revision-aware path takes the ledger row before the canonical row"
  (`db/src/draft-mutations.ts:341`) is not so: a canonical insert of several rows
  takes the ledger in the caller's order, an update of several rows locks them in
  the order of the scan, a delete that meets a row which was not a candidate takes
  the row before its revision, and `discard` deletes changes in scan order. Such
  statements do wait in a circle, with each other or with one that keeps the order,
  and PostgreSQL aborts one of them; `NoWaitCycle` says that no circle comes about
  without one of them.
* `ReferenceOrder` orders by references. Codes that change hands between rows
  are not ordered by the code: such a publication may fail at a unique key.
* `NothingOrphaned` has three exceptions (`excused`): an answer of the provider
  that was lost, a rollback that failed as well, a crash between the two stores.
* `PublishIsReviewed` is checked for revisioned tables; without a revision the
  code compares existence only, and a foreign update goes unseen by design.
* `CompactionIsFaithful` is checked and proved for rows whose commands all carry a
  compaction key, or none. Mixed on one row, a dropped delete can leave an
  unkeyed insert without its predecessor (`draft-command-log.ts:38`).
