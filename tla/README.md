# js400: a verification project

js400 is a client for the host servers of IBM i: it opens TCP connections to
them, sends framed requests and reads framed replies, and builds database
access, file access, data queues, commands and record-level access on that.
Its host-facing code is `async` JavaScript: one thread, but every `await` is a point where
other calls run, sockets fail and timers fire. What is hard about it is
therefore not the bytes of a frame but who runs between two awaits, and that
is what these modules are about.

Paths below are relative to `src/src/` unless they say otherwise.

- [The system](#the-system)
- [Modules](#modules)
- [What the runs check](#what-the-runs-check)
- [Bounds](#bounds)
- [Fairness](#fairness)
- [What is proved](#what-is-proved)
- [What is only model-checked](#what-is-only-model-checked)
- [Disagreements found](#disagreements-found)
- [What is not modelled](#what-is-not-modelled)
- [Plan](#plan)
- [Running it](#running-it)

## The system

| component | code | state | operations |
|---|---|---|---|
| connection | `transport/Connection.js`, `transport/DataStream.js` | `#socket`, `#connected`, the promise chain `#lock`, the listeners of frame readers | `connect`, `send`, `receive`, `sendAndReceive`, `withLock`, `close`, `readFrame` |
| AS400 object | `core/AS400.js` | `connections` by service, `serverAttributes`, `#signedOn` | `signon`, `connectService`, `disconnectService`, `close`, `stat` |
| services | `command/RemoteCommandConnection.js`, `objects/data-queue.js`, `ifs/IFSFile.js`, `db/engine/DbConnection.js`, `record/protocol/DDMPool.js` | a state object, a flag or nothing, per AS400 object | `ensure...Connection()`: seed exchange, server start, attributes |
| database pool | `db/pool/ConnectionPool.js`, `db/api/DataSource.js` | idle list, active map, `#closed`, timers | `getConnection`, `release`, `warmup`, `close`, idle sweep |
| prepared statements | `db/api/PreparedStatement.js`, `PreparedStatementCache.js`, `ResultSet.js`, `Connection.js`; `db/engine/StatementManager.js`, `CursorManager.js` | handle cache, tables of statements and cursors, `stmt.closed`, `#cancelled`, `lastSentWidths`; on the host: RPBs, cursors, descriptors | `prepare`, `execute`, `executeForStream`, `executeBatch`, `cancel`, `close` |
| plain statements | `db/api/Statement.js`, `CallableStatement.js` | the active handle, the last result set, `#cancelled` | `query`, `execute`, `executeQuery`, `getMoreResults`, `executeBatch`, `cancel`, `close` |
| physical connection | `db/engine/DbConnection.js`, `PackageManager.js` | cancel channel, package flags | `connect`, `cancel`, `close` |
| transactions | `db/engine/TransactionManager.js`, `db/api/Connection.js` | the autoCommit flag, the names of savepoints; on the host: the transaction | `begin`, `commit`, `rollback`, `setSavepoint`, `rollback(savepoint)`, `setAutoCommit`, `setTransactionIsolation` |
| AS400 pool | `internal/pool/ConnectionPool.js`, `compat/AS400ConnectionPool.js` | an array of entries with an `inUse` flag, `#closed`, a reaper; pollers, no queue of them | `acquire`, `release`, `remove`, `close` |
| data queues | `objects/data-queue.js` | the connection in the state object of an AS400 object; on the host: the queue | `create`, `write`, `read`, `peek`, `clear`, `delete`, `getAttributes`, keyed or not |
| file streams | `ifs/IFSFile*Stream.js`, `IFSRandomAccessFile.js` | host handle, position, buffer | `open`, `read`, `write`, `seek`, `close` |
| record files | `record/SequentialFile.js`, `KeyedFile.js` | DDM connection, file state, cursor | `open`, `read...`, `write`, `update`, `close` |
| conversions | `datatypes/`, `ccsid/`, `db/types/`, `db/compression/rle.js`, `db/protocol/` | none | encode, decode, compress |

They interact in layers. A database connection, a data queue or a file asks the
AS400 object for the connection of its service (`connectService()`, a cache in a
map), does the handshake on it, and then makes calls of `sendAndReceive()`. The
connection queues those on a promise chain, since replies carry nothing that
would tell which request they belong to. On a database connection, statements
share the engine's tables and the numbered RPBs of the host job; the statement
cache passes their handles from one owner to the next. All statements of a
connection are in one transaction. Pools pass whole connections, or whole AS400
objects.

Which behaviours are hard, and what makes each component correct:

- **connection**: failures of the socket at every point of an exchange, close()
  under a reader, calls that bypass the lock. Correct if no reply reaches
  another caller, the lock is passed on exactly once however a call ends, and
  every call settles.
- **AS400 object and services**: two first users of a service dial and shake
  hands at once; a drop or close() in the middle of it. Correct if nothing is
  sent before the handshake is complete and no open connection is forgotten.
- **database pool**: requests, validation, connects, polls, the 30s timeout,
  the sweep and close() interleave over one list. Correct if a connection has
  one user, is open when handed out, is closed by close(), and a request
  settles.
- **prepared statements**: eviction from the cache, closing while something is
  in flight, timeouts that overtake a reply, the wrap of the RPB counter.
  Correct if a handle has one owner, a cached one is ready to run, no RPB leaks
  and the client's tables agree with the host.
- **batches**: requests nested in chunks nested in calls, with an error, a
  cancel or a lost connection anywhere. Correct if the update counts are what
  the host did, and the host reads rows in the format they were written in.

- **plain statements**: one `#activeHandle` for executions, result sets and
  `close()` that all close "the active handle", whichever it is by then. Correct
  if no handle stays on the host and a result set keeps its cursor.
- **transactions**: a flag on the client and a transaction on the host that must
  say the same. Correct if what a mode promises of a change is what the host does.
- **AS400 pool**: factory, polls, the reaper's splices by index, `remove()` and a
  `close()` that awaits while it iterates, over one array. Correct if nobody loses
  what it holds, the limit is kept, `close()` reaches everything and waiters are
  served.
- **data queues**: reads that wait on the host hold the lock of a connection that
  writes need too; a connection lost around a destructive read. Correct if no
  entry is lost or doubled, writes keep their order and calls settle.

`PROJECT.json` lists every component, modelled or not, and every hazard at the
line where it bites.

## Modules

| module | models | properties in |
|---|---|---|
| `SerialExchange` | what a connection promises: calls served one at a time, in order, each with its own answer or a failure | used by `HostConnection` |
| `HostConnection` | `Connection.js` and the frame reader of `DataStream.js` | itself, `MCHostConnection` |
| `DbPool` | `ConnectionPool.js` of the database and the wrapper that releases | itself |
| `HandleLease` | what the statement cache promises: unborn, owned, idle or retired for ever | used by `PreparedStatements` |
| `PreparedStatements` | prepare, execute, fetch, close, cache, engine tables and the RPBs of the host | itself |
| `ServiceConnections` | the service map of `AS400.js` and the handshakes over it | itself |
| `BatchExecution` | `execute()` and `executeBatch()` of one statement | itself |
| `AS400Pool` | `internal/pool/ConnectionPool.js`, the pool of AS400 objects | itself |
| `QueryStatements` | the calls and result sets of one plain `Statement` | itself |
| `Transactions` | the transactions of one `Connection` with several callers | itself |
| `DataQueues` | `DataQueue` and `KeyedDataQueue` of several AS400 objects over one queue of the host | itself |
| `MC...` | instances for TLC: symmetry, inputs, and the histories `overlap` (`MCHostConnection`) and `ahead` (`MCDbPool`) | `MCHostConnection`, `MCDbPool` |
| `..._proof` | the theorems about a module, and first the facts about lists without duplicates they need | |

How state and actions correspond to the code, module by module:

**HostConnection.** `lock` is the chain of promises behind `#lock`: its head is
the call whose `prev` has resolved. A call goes through `pc`: `queued` in
`withLock()`, `writing` until the write callback, `header` and `body` in the two
awaits of `readFrame()`. `readers` are the registered `readable` listeners, in
order, since the first one takes what has arrived. The stream is `wire`
(requests), `net` (replies on their way) and `inbox` (the read buffer). `os`
tells the socket's states as Node reports them, `fin` and `ended` included:
`'end'` is emitted only when the buffer has been read. While a dial is `pending`
its `'connect'` event, its failure, its timer and the abort signal race for
`done()`; each is an action of its own, and the one that comes late finds the
promise settled. Locked calls use the lock; raw calls write and read twice
without it, as `IFSFile.listFiles()` does.

**DbPool.** A request is one call of `getConnection()`, between whose awaits
(`validating`, `connecting`, `waiting`) everything else runs. `told` are the
requests whose promise the timer has rejected, and a request is `lost` when it
obtains a connection after that: nobody receives it. The sweep
removes one connection per step, which in the code are the iterations of one
synchronous loop: nothing can come between them that would see a difference,
and a step that stops short is a sweep that found fewer expired ones. `release`
is taken once per checkout, which is what `DataSource` and the `finally` blocks
of `query()` and `execute()` do; `Connection.release()` itself has no guard.

**PreparedStatements.** A handle is named after the statement that prepared it.
Every request is a `sendAndReceive()`, so the effect on the host and the code up
to the next await are one step; which waiting request is served next is left
open, a superset of the order of the lock. `phase` and `plan` are `close()` of
the connection: drain the cache, then the statements, then the cursors, then the
socket. `server` is the host: an RPB is absent, present, prepared, or has a
cursor. Switches say what clients do: `CloseEarly` (close a statement
while a request of it is out, executing or given up by a timeout), `LeaveOpen`
(close it before its result set), `Timeouts`, `ConnEnds`. A handle is in use
(`InUse`) while a statement holds it, executes it or has a result set open on it,
even if the statement was closed.
`Clashing` are texts that `normalizeKey()` folds into one key; `HandleRunsOwnSql`
excepts them, since for those a statement does get the handle of the other text.

**ServiceConnections.** A caller asks for a service (`idle`), waits for the dial
(`dialling`), continues with the connection (`found`) and makes the exchanges
`seed`, `start`, `attributes`, `request`. `connections`, `flags` and `state` are
the three places the code remembers a connection in. `queue[c]` is
`HostConnection` seen through `SerialExchange`: exchanges of one connection in
the order of the calls. On the host, `seed` says whose seeds the session holds
and `session` how far it got. The file and the record-level services fail in
their handshake, as the code does (see below).

**BatchExecution.** A row is the width of its widest value, `format` the width
the host has registered, `lastSentWidths` what the client remembers of it. A
call is `single` (`execute()`), `atomic`, `chunked` (`opts.chunkSize`) or `each`
(`atomic: false`, row by row). `from` and `at` are the start of the engine call
and of its request. `Failed` and `Finished` are the replies, `EndsInterrupted`
a reply that comes after the query timeout or `cancel()`, `Drop` and `Lost` the
end of the connection with requests under way. Statements without parameters
execute a batch once and are left out; counts of 1 and -2 are both "done".

**AS400Pool.** A borrower makes one call of `acquire()` at a time: `creating` in
the await of the factory, `waiting` while `check()` polls. `entries` is the array,
`used` its `inUse` flags. An idle entry is handed out whatever host or user was
asked for, and a waiter never makes a resource, even when `remove()` has made
room, because the code does so. `Reap` splices one idle entry; a reap of several
is a series of these steps, as nothing runs between its splices. `cursor` is the
index of the loop in `close()`, between whose awaits everything else goes on;
`close()` calls that overlap each other are left out. What the AS400 objects do is
`ServiceConnections`.

**QueryStatements.** A handle and a result set are named after the call that made
them. `executeQuery()` puts its handle into `active`; `query()`, and `execute()`
with generated keys, have their own (`own`); the other calls send SQL without one
(`immediate`). `awaits` is the handle, or the result set, whose end a call or
`close()` of the statement (`Closer`) waits for. `ResultsClosed` is the `onClose`
hook, which closes whatever handle is active by then. Exchanges are served in the
order they were sent, so the close of a handle is answered after the execution
sent before it. Rows are not modelled, only cursors.

**Transactions.** `begin()` and `setAutoCommit()` change a flag and send nothing;
every other call is one exchange. Nothing in the code tells the host which mode
is meant, so `hostAuto`, whether its job commits by itself, is left open at the
start and is changed by `setTransactionIsolation()` only. `marks` are the
savepoints of the host; the client's map keeps names that no longer exist there.
The transactions of the host are not under `src/` and are modelled as SQL defines
them.

**DataQueues.** A call is `connecting` in `ensureDQConnection()`, then `queued` in
the `line` of its connection, which is `HostConnection` seen through
`SerialExchange`. The host's queue is external: it answers what each method's
request asks for. `orphans` are requests at work on the host whose client is gone;
they may still be carried out. `silent` are connections that `close()` destroyed
under a reader, which `HostConnection` shows to be told nothing. Calls with an
unknown search type, or keyed ones without a key length, throw before anything
and are left out.

## What the runs check

| run | module | shows |
|---|---|---|
| `connection_locked` | `HostConnection` | With every caller using the lock the connection implements `SerialExchange`: one call talks at a time and returns its own reply. Calls settle unless a read was orphaned (its socket destroyed by `close()`, or `'end'` emitted before it listened). Whatever wins the race of a dial, no socket is alive that `close()` could not reach. |
| `connection_shared` | `MCHostConnection` | With raw calls beside a locked one, replies are confused only if two calls ever talked at the same time. |
| `pool_validate` | `MCDbPool` | A pool of one that validates, with three requests: no sharing, usable connections, an exact active set, an excess over the limit bounded by the connections that were on their way at once, a complete `close()`, and requests that settle within the timeout. |
| `statements_disciplined` | `MCPreparedStatements` | Clients that close what they opened: statements keep their RPB, run their own SQL, cached handles are ready, nothing leaks, books and host agree. |
| `statements_closing` | `PreparedStatements` | Clients that close at rest, with query timeouts and the end of the connection: handles are leased as `HandleLease` says, with one user, executions and result sets included, in one entry of the cache, or retired for ever; and closing comes to its end. |
| `statements_timeout` | `PreparedStatements` | Violation: a timeout leaves a cursor open in a cached handle. |
| `services` | `ServiceConnections` | Two callers on a command, a file and a record-level service with drops, disconnects and `close()`: no request before its handshake, no forgotten connection without overlapping dials, stale seeds only by crossed handshakes, calls that settle, no deadlock. |
| `batches` | `MCBatchExecution` | Two calls at once in every mode: true update counts, rows in order, agreeing formats, calls that end. |
| `as400_pool` | `AS400Pool` | Three borrowers, the reaper, broken objects and a `close()` that runs while all of it goes on: held resources are safe, the limit is exceeded by less than the factories that were under way at once, `close()` misses only what `remove()` shifts under it, a waiter starves only in races, no deadlock. |
| `queries` | `MCQueryStatements` | Three calls of any kind on one statement, cancels, timeouts, result sets closed late and `close()`: without overlap no handle is forgotten, and the newest result set keeps its cursor unless an older one is closed after it. |
| `data_queues` | `MCDataQueues` | Calls of every operation on two AS400 objects over one queue, with late dials, drops and disconnects: entries are neither lost nor doubled but with a connection, writes keep their order, a call stays for ever only behind a read that nothing can end. |
| `transactions_mode` | `Transactions` | Violation: autoCommit is a flag of the client that the host is not told of. |

The conditions in property names are part of what is claimed. For example
`FormatsAgreeUnlessMixed` excludes overlapping calls and single executions
between batches, because with them the formats do not agree;
`TrackedUnlessOverlapped` excludes services with two dials at once. History
variables record those conditions and influence nothing: `overlap`, `ahead`,
`peak`, `crossed` (`ServiceConnections`), `overlapped`, `singles`, `blind`,
`skipped`, `late`, `newest`, `stale`, `cleared`, and `answered` and `asked` of the
changes of a transaction.

Three of the properties say what a client can rely on where the code leaves a gap:

- `ExcessIsOverlap` of `AS400Pool` and of `MCDbPool`: both pools test their limit
  before an await, so overlapping calls exceed it. The property holds in every
  history and says by how much: in the database pool by no more than there were
  connections on their way (validated, opened or warmed up) when it set out to open
  another, in the AS400 pool by fewer than its factory calls ever ran at once. So
  a pool whose requests come one at a time keeps its limit, and timeouts, failed
  validations, removals and the reaper never add to the excess.
- `ResultsUsableUnlessStale`: the `onClose` hook of a result set closes the active
  handle, even if that is the handle of a newer `executeQuery()`.
- `StuckBehindRead`: a `read()` with a negative wait holds the connection, and the
  `write()` of the same AS400 object that would end it waits behind it.

## Bounds

| constant | value | why it is enough |
|---|---|---|
| `LockedCalls`, `RawCalls` | 3 calls in all | the one that fails, the one that inherits the lock, and one behind it; each call of its own name, so a reply has one owner |
| `Requests`, `Conns` | 3 and 3, `MaxSize` 1 | one holds, one waits, one comes late; replacing a connection that failed validation, twice |
| `Stmts`, `Sqls`, `Capacity` | 4, 2, 1 (2, 2, 1 for the leases) | a handle in use, one cached, one that displaces it, one uncached; a duplicate of a text. Two statements of two texts are enough for an eviction, or a displaced duplicate, while the connection ends |
| `RpbIds` | as many as statements | with fewer ids than live statements the counter wraps onto one in use, after 32767 of them in the code |
| `Callers`, `MaxConns` | 2 and 2 | two first users, and a second dial after a drop, a disconnect or an overlap |
| `Calls`, `Batches` of `BatchExecution` | 2 calls of up to 3 rows | two chunks of two requests; an overlap |
| `ChunkSize`, `MaxBlock`, `FullWidth` | 2, 1, 2 | a chunk of more than one request (32000 rows in the code); two different widths |
| `Borrowers`, `Resources`, `MaxSize` of `AS400Pool` | 3, 4, 2 | two that hold and one that waits; overlapping factories; a removed or reaped resource and its successor; two entries for `close()` to step over |
| `Calls` of `QueryStatements` | 3, interchangeable | an older result set, a newer handle, and a call beside them |
| `Calls`, `SystemOf`, `Requests`, `MaxConns` of `DataQueues` | 3 calls, two on one AS400 object, 2 connections | a read that waits, the write behind it, and one from elsewhere; a connection that is ready, and one dialled late or after a drop. `MCRequests` gives each call a choice in which every operation, both kinds of queue and every kind of wait occur, and a keyed clear that leaves an entry; longer queues and more calls are what the theorems are for |
| `Callers`, `Changes`, `Names` of `Transactions` | 2, 2, 1 | one change, or two around a savepoint; a caller that ends the other's transaction |

`CHECK_DEADLOCK FALSE` stands in most configurations because their clients stop:
each name makes one call, and a finished or closed system is at rest. `services`
and `as400_pool` have clients that may always go on, and check for deadlock.

## Fairness

JavaScript runs every callback that is due, so steps that are the continuation
of a settled promise or a fired timer get weak fairness: `HostConnection` for a
call's own steps, the dial's end (`connect()` has a timer), the server's answer,
delivery and the socket's events; `DbPool` for validation, connect, poll and
timeout; `PreparedStatements` for replies and the phases of `close()`;
`ServiceConnections` and `BatchExecution` for what a caller waits for.
Fairness for the host's answer is the assumption that it answers or the socket
fails: the code has no timer on a reply. Nothing forces a failure, and nothing
forces a client to make a call, release a connection or close a statement.
`AS400Pool` is fair to the factory, the polls and the destroyer, not to the
borrowers: a poll that is beaten to every idle entry is exactly what
`WaitersLoseOnlyRaces` is about. `DataQueues` is fair to what the host can answer
and to replies; a handshake ends unless the connection it shares is held by a call.
`ServiceConnections` gives no fairness to a failing exchange on a connection
that was closed on this side, since such a reader may wait for ever; its
liveness property excepts it.

## What is proved

For all values of the constants that satisfy the modules' assumptions (named
`...Assumption`: finite or disjoint sets, positive sizes):

| module | theorem | property |
|---|---|---|
| `HostConnection_proof` | `TypeCorrect` | `TypeOK`, raw calls included |
| | `MutualExclusion` | `OneLockedCallTalks`, raw calls included |
| | `NoReplyDesync` | `RepliesMatch`, when `RawCalls = {}` |
| | `LockPassedOnClean` | `NothingLeftBehind`, when `RawCalls = {}` |
| | `Refinement` | `ImplementsExchange`, when `RawCalls = {}` |
| | `NoDesyncWithoutOverlap` | `DesyncNeedsOverlap`, raw calls included |
| | `SocketsHeld` | `NoSocketForgotten`, raw calls included |
| `DbPool_proof` | `PoolTypeCorrect` | `TypeOK` |
| | `ConnectionsNotShared` | `NoSharing` |
| | `ConnectionsUsable` | `UsableUntilClosed` |
| | `ActiveIsExact` | `ActiveIsCheckedOut` |
| | `CloseFindsAll` | `CloseReachesAll` |
| | `LimitHolds` | `ExcessIsOverlap` |
| `ServiceConnections_proof` | `TypeCorrect` | `TypeOK` |
| | `StateObjectsReady` | `StateIsReady` |
| | `RequestsAfterHandshake` | `NoEarlyRequest` |
| | `LeaksNeedOverlap` | `TrackedUnlessOverlapped` |
| | `SeedsAreFresh` | `StaleOnlyWhenCrossed` |
| `AS400Pool_proof` | `PoolTypeCorrect` | `TypeOK` |
| | `HeldStaysSafe` | `HeldIsSafe` |
| | `CloseFindsAll` | `CloseReachesAll` |
| | `MaxKept` | `ExcessIsOverlap` |
| `PreparedStatements_proof` | `TypeCorrect` | `TypeOK` |
| | `OwnSqlRuns` | `HandleRunsOwnSql` |
| | `OnlyIdleCached` | `CacheHoldsOnlyIdle`, with no `CloseEarly` or `LeaveOpen` |
| | `LeaseIsKept` | `ImplementsLease`, with no `CloseEarly` or `LeaveOpen` |
| | `NothingLeaks` | `NoRpbLeaks` |
| | `RpbKept` | `OpenStatementsKeepTheirRpb`, with `EnoughIds` |
| | `BooksAgree` | `BooksMatchHost`, with `EnoughIds` and no `CloseEarly` |
| | `CachedReady` | `CachedHandlesAreReady`, with `EnoughIds` and no `CloseEarly`, `LeaveOpen` or `Timeouts` |
| `BatchExecution_proof` | `TypeCorrect` | `TypeOK` |
| | `CountsHold` | `CountsAreTrue` |
| | `OrderHolds` | `RowsInOrder` |
| | `FormatsAgree` | `FormatsAgreeUnlessMixed` |
| `QueryStatements_proof` | `TypeCorrect` | `TypeOK` |
| | `NoHandleForgotten` | `HandlesAccounted` |
| | `ResultsKeepCursor` | `ResultsUsableUnlessStale` |
| `DataQueues_proof` | `TypeCorrect` | `TypeOK` |
| | `EntriesKept` | `EntriesAccounted` |
| | `WritesInOrder` | `WritesKeepOrder` |

Five of them state invariants that no run lists, because a property of a run says
more: `OneLockedCallTalks`, `RepliesMatch` and `NothingLeftBehind` are what
`ImplementsExchange` rests on, `StateIsReady` is what `NoEarlyRequest` needs, and
`CacheHoldsOnlyIdle` is the part of `ImplementsLease` that the cache's own comment
states. The
type invariants of `AS400Pool` and `QueryStatements` are proved only.

The arguments:

- **HostConnection.** `LockInv` adds to the types that a locked call talks only
  at the head of the chain (`HeadTalks`); mutual exclusion is then immediate, and
  does not depend on what raw callers do. For the stream this is not enough:
  `StreamInv` says exactly what is in `wire`, `net` and `inbox` in each stage of
  a call that talks, and that there is nothing when none does (`StreamMatches`),
  what a call has read (`FramesMatch`), who may be listening (`ReadersTalk`) and
  that a socket that is not up carries nothing (`DeadSocketQuiet`, `DialInv`).
  `DialInv` also ties the state of the dial to that of the socket whichever event
  settled it, from which `NoSocketForgotten` follows.
  The lock is not in it: a step keeps `StreamInv`, locked or raw, as long as it
  does not make a second call talk. That is `DesyncNeedsOverlap`, where the history
  `overlap` is what says so; and it is what the three theorems for `RawCalls = {}`
  follow from, since the lock is then one way to see to it. From both invariants,
  each step is a step or a stutter of `SerialExchange`.
- **DbPool.** `PoolInv` strengthens `NoSharing` to `Places`: a connection with
  a request or in the idle list has been opened before, so that a new one is
  nowhere yet. `NoneForgotten` (until the pool is closed an open connection is
  idle or with a request) is what `CloseReachesAll` needs before the step. The common part of
  `getConnection()`, a failed validation and a poll, the loop over the idle list,
  is one lemma (`AcquireStep`). `LimitHolds` counts: idle and active
  connections and those on their way to one are moved from one of these to
  another by most steps, so their sum (`Size` and `OnTheWay`) grows only when a
  request or `warmup()` sets out to open a connection. It then finds `Size` below the limit, so
  the sum exceeds the limit by no more than there were others on their way, which
  `ahead` remembers (`AheadGrows`). Timeouts, failed validations, lost handovers
  and the sweep need no exception.
- **ServiceConnections.** `TypesInv` and `QueuesInv` place each caller in the
  queue of its connection exactly once. `SessionInv` shows that sessions never
  fall back, so what was true when a state object was stored stays true.
  `TrackedInv` needs to know who owns a dialling connection (`OwnersInv`) and
  that a dial without a rival found no live connection in the map and finds none
  when it ends (`NoRivals`). `SeedsInv` adds to `StaleOnlyWhenCrossed` that two
  callers between the exchange of seeds and the start of the server on one
  connection have crossed there (`OneShakes`).
- **AS400Pool.** Until the pool is closed the entries are exactly the open
  resources (`EntriesAreOpen`), so a reaped or removed one, spliced out by index,
  is nobody's. While `close()` runs, what is open is at its index or beyond
  (`AheadOfClose`), unless `remove()` has shifted entries; what a factory adds
  meanwhile is appended, and is reached. `MaxKept` counts: the array and the calls
  of the factory together grow only when a factory is called, which finds the array
  shorter than the limit; so they exceed it by the other calls then under way at
  most, and `peak` is at least one more than these.
- **PreparedStatements.** `StatementsInv` says that a handle is in one place, with
  one statement that prepares or is open or in one entry of the cache
  (`OnePlace`), that a statement past `prepare()` has a handle with an RPB id
  (`Handles`), and that an entry is filed under the key of what its handle runs
  (`OwnSqls`). `close()` is the hard step: it may evict by key, then evict by size,
  then append, so the cache it leaves is some sequence without repetition of
  entries that were there, followed by at most one new one (`CloseCases`). From
  `OnePlace` the lessee of a handle is determined (`LeaseValues`), and each step is
  a `Lease`, `GiveBack` or `Retire` of `HandleLease`, or a stutter. A closed
  statement that still executes would use a handle it no longer holds;
  `Rested` says that clients which close at rest never get there (`RestingClients`),
  so whoever uses a handle holds it (`UsedIsHeld`), and the lessee is the user.
  `LeaseAssumption` only keeps the four marks apart from the statements.

  What the host has comes on top of this, in layers. `Places` says who has each
  handle: the statement that holds it, that prepares it or was refused, the cache, or a
  close that is under way; so an RPB that nobody will delete does not
  exist, whatever the clients do and even when the counter has wrapped
  (`NothingLeaks`). The rest needs to know that two handles do not have one RPB.
  `nextRpbId` goes round after 32767 ids, in use or not, and the hypothesis
  `EnoughIds` (no more statements than ids) excludes that; then ids are handed out
  in order (`IdsInv`) and the RPB of a handle in use is there (`HostInv`). From there
  the books agree about statements, and about cursors (`CursorsInv`), provided no
  client closes a statement that executes; and `ReadyInv`, that a handle in the
  cache is prepared, has no cursor and is known to the engine as such, provided
  that no client leaves a result set open and no timeout overtakes an OPEN. No
  hypothesis is there for convenience: TLC finds a counterexample to the property
  when any one of them is dropped (two ids for three statements, or the switch set;
  `statements_timeout` is the one of `Timeouts`).
- **BatchExecution.** `BatchInv` accounts for every row of a running call: those
  of earlier requests are done, those of earlier chunks counted, the rest
  untouched, except for what a `blind` call cannot know (`Accounts`), with the
  place in the rows that the loops are at (`Shape`). The queue of the connection
  holds whoever waits, once (`QueueInv`); replies come to its head, so no two calls
  take each other's counts, and overlap is no obstacle. `FormatInv` ties the
  widths remembered on the client to the format of the host. `TypeCorrect` needs
  that a chunk has a widest row, hence the well-foundedness of the naturals.
- **QueryStatements.** `Births` says, however calls overlap, which calls can have a
  handle or a result set. `Sequential` is conditional, as the properties are: while
  calls do not overlap there is one in flight at most and none once `close()` has
  begun (`OneCall`); a handle on the host is active or with an execution that closes
  it, and none is active when `executeQuery()` is about to make its own, so nothing is
  overwritten (`Accounted`); the call in flight is the newest, and has its handle
  before it has its cursor (`NewestReady`).
- **DataQueues.** What a request does to the queue of the host is one of four
  things (`ServeDoes`): it appends the write (`Puts`), hands out an entry and takes
  it unless it peeks (`Hands`), removes entries and leaves the others in order
  (`Thins`), or leaves the queue alone (`Spares`). What is left is always a
  subsequence, given by increasing places (`Pick`), so the queue needs no
  induction. `EntriesInv` strengthens `EntriesAccounted` to what each step
  keeps: every entry, taken, cleared or queued, is of a write that was answered
  well, so a call that is answered now has no entry yet and can have been given
  none. That it is answered now for the first time is the point where
  disconnects matter: the host may still carry out the request of a call that
  has failed or waits for ever, and `ServedInv` says that such an orphan has no
  answer, that its connection is not up, and that it is the head of its line if
  its reader was not told. For the order, `LinesOrdered` says that a call stands
  before an earlier one only if that one had to wait for its connection, and
  `ServedAfter` carries it to the answers: while a call waits, no later call of
  its connection is answered. Both need `CalledInOrder` when a call joins, and
  the position of orphans when a silent connection's request is carried out.
  `Ordered` is then kept by appending, since nothing in the queue had to come
  after the new entry, and by taking subsequences.

Each of these modules that handles lists begins with the same few facts about
them: what appending, taking the head, the last or an indexed element does to a
list without duplicates.

## What is only model-checked

- Liveness (`CallsSettleUnlessOrphaned`, `RequestsSettle`, `CloseCompletes`,
  `CallsSettle`, `CallsEnd`, `WaitersLoseOnlyRaces`, `StuckBehindRead`): temporal
  reasoning under fairness is out of the prover's reach.
- Of `Transactions` only a disagreement is checked. What the host has of a handle
  once RPB ids wrap onto ones in use is neither checked nor claimed, except that
  none leaks.
- Conversely, the database's kind of service (`Plain`) is not in the run
  `services`, whose state space it would more than triple; the safety theorems
  cover it.

## Disagreements found

Two are runs that TLC ends with a counterexample; `PROJECT.json` quotes the lines
that say otherwise.

1. `statements_timeout`: a query timeout while OPEN is out throws before any
   result set exists; nobody closes the cursor, and `close()` caches the handle.
2. `transactions_mode`: `begin()` and `setAutoCommit()` only set a flag of the
   client, and `autoCommitIfNeeded()` has no caller. If the host's job commits by
   itself, changes after `begin()` are durable at once; if it does not, changes
   made with autoCommit set are not durable.

Others met while modelling are excepted, or measured, by a property that passes:

- `getConnection()` compares `size` with `max` before the await of the connect
  function, and connections on their way are not counted; the same holds
  of the factory of the AS400 pool (`ExcessIsOverlap` of both), which may
  also push an entry into a pool whose `close()` has ended (`CloseReachesAll`).
- "The cache holds ONLY idle (not-in-use) handles" (`PreparedStatementCache.js:5`),
  but `close()` of a statement puts its handle there while an execution of it is in
  flight, and the next `prepare()` of that text is given it
  (`CacheHoldsOnlyIdle` fails when `CloseEarly` is set).
- `normalizeKey()` folds the case and spacing of literals, so different
  statements share one cache entry (`HandleRunsOwnSql`).
- `execute()` changes the descriptor on the host without updating
  `lastSentWidths`; a later batch with the widths of an earlier one then skips a
  registration it needs (`FormatsAgreeUnlessMixed`).
- Overlapping `executeQuery()` calls forget a handle (`HandlesAccounted`), and a
  late `close()` of an older result set closes the handle of a newer one
  (`ResultsUsableUnlessStale`).
- A `write()` waits behind the `read()` it would end (`StuckBehindRead`).
- `ensureConnection()` of the file service builds its server start without the
  authentication bytes, a `TypeError` on a healthy connection
  (`ifs/IFSFile.js:41`), and `DDMPool` calls a method its connection does not
  have: in `ServiceConnections` the handshake of `Files` and `Records` always fails.

Three more are outside the models and are hazards without a property: an entry of
no bytes at the end of a data queue reply is returned as `null`; `relative()` to before
the first row counts from the end; the async iterator of a result set steps over
rows that a `next()` in its body fetched.

## What is not modelled

Tracing, metadata tables, URL parsing, cryptographic primitives and the
generated conversion tables have no behaviour that a state machine would show.
The byte layout of requests and replies is abstracted to what they do, and the
conversions (RLE, packed and zoned decimals, CCSIDs, record formats, PCML) are left out.
Within the modelled components: correlation counters, LOBs, generated keys, row
navigation of result sets, `executeBatch()` of a plain statement (it sends
its texts one after the other, without a handle, and leaves the last result set
alone), the `null` that a data queue read returns for an entry of no bytes,
callable statements, SQL packages, library list and sort sequence,
`DataSource`'s property bag, `signon()` and `stat()` of the AS400 object.
Overlapping `executeBatch()` calls are modelled, but nothing is claimed
about their formats.

File streams, random-access files and record files are left out for another
reason: in this code none of them gets past the handshake of its service (see above),
so every state of theirs behind `open()` is one the program cannot reach.

Commands, program calls, spooled files, user spaces and message queues are one
exchange each on a connection that `ServiceConnections` provides.

## Plan

What is built, most important behaviour first: `HostConnection`, `DbPool`,
`ServiceConnections`, `AS400Pool`, `PreparedStatements` with `HandleLease`,
`BatchExecution`, `QueryStatements` and `DataQueues` with proofs; `Transactions`
model-checked. Every invariant that a run checks is proved, some under the
hypotheses the table names.

What is left, in this order:

1. `ResultRows`: the row buffer of `ResultSet.js`, `next()`, `absolute()`,
   `relative()` and the async iterator over fetches that overlap.
2. `Packages`: creation of the SQL package across an await.
3. The cancel channel of `DbConnection`, which asks for a second connection and is
   given the first, and `signon()`.
4. `Conversions`: RLE, packed and zoned decimals, LL/CP parsing, object path
   names, as functions against a reference definition.
5. Handshakes: port mapper, SOCKS5, sign-on, password change.

`HostConnection` (through `SerialExchange`) is the layer the others assume;
`DataQueues` takes its connections from what `ServiceConnections` shows.

## Running it

    tlc -workers 2 -config HostConnectionLocked.cfg HostConnection.tla
    tlapm HostConnection_proof.tla

Each configuration names its properties; `PROJECT.json` pairs it with its module,
and lists for each property a mutant of the code that violates it (the operators
marked "Mutant" in the modules). The longest run takes about two minutes; a
proof module takes a few minutes.
