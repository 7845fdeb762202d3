# A TLA+ model of psycopg

This directory is a verification development for psycopg 3, the PostgreSQL
adapter for Python, for its C implementation, psycopg_c, and for its connection
pool, psycopg_pool. It holds TLA+ modules that model the parts of the program with
state, concurrency or delicate arithmetic, TLC configurations that model-check
them on small instances, and proofs that TLAPS checks for every value of the
constants.

`PROJECT.json` says, for every definition that models code, which lines it
models; it also lists the runs, the mutants that show that each property can
fail, the hazards of the code and the theorems.

The sync code of the repository is generated from the async code
(`tools/async_to_sync.py`): where the two have the same behaviour, one model
stands for both and its definitions name the lines of either twin. Where an await
makes them differ (the pools) there are two models.

## 1. Inventory

### psycopg_pool

| Component | State | Operations | Interacts with |
|---|---|---|---|
| `ConnectionPool` (`pool.py`, `base.py`) | `_pool` and `_waiting` deques, `_nconns`, `_nconns_min`, `_growing`, `_closed`, `_opened`, `_drained_at`, the sizes, `_pool_full_event` | `open`, `wait`, `getconn`, `putconn`, `close`, `drain`, `resize`, `check`, the shrink task | client threads, worker threads (through a task queue), the scheduler |
| `WaitingClient` (`pool.py`) | `conn`, `error`, a condition | `wait`, `set`, `fail` | passed from `getconn` to whoever calls `_add_to_pool` or `close` |
| workers and tasks (`pool.py`) | the `_tasks` queue | `AddConnection`, `ReturnConnection`, `ShrinkPool`, `Schedule`, `StopWorker` | the pool, the scheduler |
| `Scheduler` (`sched.py`) | `_queue` heap, `_event` | `enter`, `enterabs`, `run` | the delayed tasks of the pool |
| `AttemptWithBackoff` (`base.py`) | `delay`, `give_up_at` | `update_delay`, `time_to_give_up` | reconnection, the check loop of `getconn` |
| `AsyncConnectionPool` (`pool_async.py`) | as the pool, in an event loop | same, with cancellation | tasks, the loop |
| `NullConnectionPool` (`null_pool.py`, `null_pool_async.py`) | as the pool, with `_pool` always empty | overrides of `getconn`, `putconn`, `wait`, `resize` | same |

Hard: three kinds of threads share the pool; several flags are tested outside
the lock; a client may time out, or be cancelled, while a connection is being
given to it; connections break while idle; attempts fail, are retried by the
scheduler or given up; `close()` overtakes everything. Correct means: a
connection has one owner, the counter `_nconns` is the truth, nobody waits in
vain, the size stays within the limits, and `close()` ends.

### psycopg

| Component | State | Operations | Interacts with |
|---|---|---|---|
| Connection (`_connection_base.py`, `connection.py`) | `pgconn`, the lock, `_autocommit` and the transaction parameters, `_num_transactions`, `_tpc`, `_pipeline`, `_prepared`, handlers, backlog of notifications | `connect`, `close`, `commit`, `rollback`, setters, `cancel`, `notifies`, `tpc_*` | everything below |
| Transaction blocks (`transaction.py`) | `status`, `_outer_transaction`, `_stack_index`, `_savepoint_name` | `__enter__`, `__exit__`, `Rollback` | `_num_transactions` of the connection, the transaction of the server |
| Two-phase commit (`_connection_base.py`, `_tpc.py`) | `_tpc` | `tpc_begin`, `tpc_prepare`, `tpc_commit`, `tpc_rollback`, `tpc_recover` | the transaction and the prepared ones of the server |
| Notifications (`connection.py`) | `_notifies_backlog`, handlers | `notifies`, `add_notify_handler` | generators, queries |
| Prepared statements (`_preparing.py`) | `_names`, `_counts`, `_to_flush`, `_prepared_idx` | `get`, `maybe_add_to_cache`, `validate`, `clear`, `maintain_gen` | cursors, the pipeline, the statements on the server |
| Pipeline (`_pipeline_base.py`, `_pipeline.py`) | `command_queue`, `result_queue`, `level` | enter, `sync`, exit, `_communicate_gen`, `_fetch_gen` | cursors, `generators.py`, the server |
| Cursors (`_cursor_base.py`, `cursor.py`) | `_results`, the current one and the position in it, the last query | `execute`, `executemany`, `stream`, `fetch*`, `nextset`, `set_result`, `scroll` | the prepared statements, the pipeline |
| Server cursors (`_server_cursor_base.py`, `_server_cursor.py`) | `_described`, `_pos`, `_iter_rows`, `_page_pos` | `execute`, `fetch*`, iteration, `scroll`, `close` | a portal on the server |
| Copy (`_copy_base.py`, `_copy.py`) | direction, `_finished`, the formatter's buffer, the queue and the worker of `QueuedLibpqWriter` | `read`, `read_row`, `write`, `write_row`, `finish` | generators, a worker thread |
| Generators and waiting (`generators.py`, `waiting.py`, `generators.pyx`, `waiting.pyx`) | none between calls | connect, execute, fetch, pipeline, copy, notifies; loops on the socket | libpq, the operating system |
| Connection attempts (`_conninfo_attempts.py`, `conninfo.py`) | none | a connection string into a list of attempts | DNS |
| Adaptation (`_adapters_map.py`, `_py_transformer.py`, `transform.pyx`) | maps shared until written, caches of dumpers and loaders | registration, lookup | cursors |
| Types (`types/`, `psycopg_c/types/`) | none | dump and load | the server's formats |
| Queries, SQL composition, rows | none | conversions | cursors |
| libpq wrapper (`pq/pq_ctypes.py`, `psycopg_c/pq/`) | wrapped C structures | one call of libpq each | libpq, the garbage collector, fork |

Hard: an error aborts a transaction or a pipeline and the client's bookkeeping
(stacks, queues, caches, positions) must follow what the server really did;
results come late and are matched by position; cleanup commands are skipped when
something raises; blocks are entered and left in unexpected orders; a worker
thread dies; a wait is interrupted; values lie at the edge of what a format or
Python can hold. Correct means: a block's work is permanent with it or not at
all, a result reaches the query it answers, what the client believes about the
server is so, a value comes back as it was sent.

## 2. Modules

| Module | Models | Composed by | Proofs |
|---|---|---|---|
| `Scheduler` | `psycopg_pool/sched.py` | `MCScheduler` | `SchedulerAndGeneratorsProofs` |
| `Pool` | `psycopg_pool/pool.py`, `base.py` | `MCPool` | `PoolProofs`, `Counting` |
| `Leases` | what a pool promises (abstract) | `AsyncPool`, as a refinement | `AsyncLeasesProofs` |
| `AsyncPool` | `pool_async.py`, `null_pool_async.py` | `MCAsyncPool` | `AsyncPoolProofs`, `AsyncLeasesProofs`, `Counting` |
| `Prepared` | the cache of `psycopg/_preparing.py`, as operators | `Session` | in `SessionProofs` |
| `Session` | a connection executing queries in and out of pipelines, with the cache of `Prepared` and a server | `MCSession` | `SessionProofs` |
| `Transaction` | `psycopg/transaction.py`, `commit()`, `rollback()`, with the transaction of the server | `MCTransaction` | `TransactionProofs` |
| `Connection` | settings, context manager, two-phase commit and recovery, loss and reconnection | `MCClient` | `ClientProofs` |
| `Notifies` | `notifies()`, handlers, backlog | `MCClient` | `SessionProofs` |
| `Copy` | both directions of COPY, formatters, both writers | `MCClient` | `ClientProofs` |
| `Cursor` | the result sets of a cursor, `executemany()`, `stream()`, pipeline results | `MCClient` | `ClientProofs`, `Counting` |
| `ServerCursor` | server-side cursors and their portal | `MCClient` | `ClientProofs` |
| `Generators` | execute, pipeline and copy generators, every wait function, the interrupted wait | `MCClient` | `SchedulerAndGeneratorsProofs`, `Counting` |
| `Adapters` | adapters maps and transformers | `MCClient` | `ClientProofs` |
| `Pq` | ownership of libpq's memory in ctypes and Cython, threads, notices, fork | `MCClient` | `ClientProofs` |
| `Connect` | connection attempts and `cancel_safe()` | `MCClient` | `SessionProofs`, `Counting` |
| `Numerics`, `Datetimes`, `Containers` | the adapters of numbers, dates and times, arrays, records, ranges, hstore, and the rows of COPY, in Python and C | `MCCodecs` | |

### Scheduler

The heap is the set of its tasks, ordered by `time`. The push of a task under
the lock (`EnterAbs`) and the `event.set()` after it (`SetEvent`) are two steps
of the entering thread. The runner pops a task that is due (`RunnerPop`) or
computes its delay and clears the event (`RunnerDelay`), runs the action
(`RunnerAct`), or sleeps until the event is set or its deadline passes
(`RunnerWake`). Time advances by a step of its own up to `MaxTime`.

### Pool

Each block under `_lock` is one step, and so is each test of a flag outside it
and each exchange with the server. Threads are clients, workers and callers
(those who open, close, drain, resize, check the pool or wait for it), each with
a program counter `pc` and a local connection `conn`. The scheduler is what
`Scheduler` shows of it: a delayed task is sooner or later put on the queue
(`delayed`, `Tick`). The time of `_drained_at` and `_created_at` is the number of
`drain()` calls so far. A `WaitingClient` is its client in `waiting`, replaced by
`Gone` when its `wait()` has failed, with `got` and `failed` for what `set()` and
`fail()` stored. The loss of an idle connection is the action `Break`. The counts
of statistics, the log and the warnings are left out. `open(wait=True)`,
`__enter__` and `__exit__` are sequences of modelled methods.

### Leases and AsyncPool

`Leases` says what a client of any pool may rely on: a connection is leased to
one client at a time, it is not in a transaction left by another one, no more
than `capacity` are leased. `AsyncPool` is the pool of the event loop, as it is and
as the null pool (`null`): a step is what a task does between two places where it
really suspends, so that several critical sections of `Pool` are one step here,
and at each such place the task can be cancelled. The null pool, which connects for
the client while it holds the lock, is the only one in which a task waits for the
lock. `AsyncPool` implements `Leases` under the mapping in its last definition:
a client leases the connection that it uses, or that it is giving back.

### Prepared and Session

The two ordered dictionaries of `PrepareManager` are sequences of keys and
values; names are numbers. `Session` keeps the command queue, the result queue,
what is on the wire in both directions, the statements prepared on the server and
whether its pipeline is aborted. Out of a pipeline an execution is one step
(the connection's lock is held), with every outcome of the server: success,
error, error of PREPARE, several results, a result that drops something, the result
of an empty query. In a
pipeline, sending (`Send`), receiving any number of results (`Communicated`),
processing each one (`Process`, with its exception), and fetching the rest
(`Fetch`, `FetchEnd`) are steps between which the server executes commands
(`Serve`). An entry of the result queue remembers the command it was queued
for; only the properties look at it. Three history variables serve them as well:
`trouble`, whether anything failed, `missed`, how many queries failed, or were empty,
after they were evicted, and `forgotten`, the statements of the empty queries that
`validate()` dropped from the cache.

### Transaction and Connection

In `Transaction` blocks are entered once; `open` is the list of those entered and
not left, and `raising` the exception that propagates, which leaves the innermost
block or is handled there (`Handle`). Without exception any open block may be
left, as two threads can do. Each command of a block is sent to a model of the
server's transaction: its status, its stack of savepoints with the work at each,
its work and what is committed. A command answers with a set of outcomes; COMMIT
may fail, and of an aborted transaction it is a silent rollback. Four history
variables serve the properties: in which blocks a write was made, whether blocks
were left out of order, whether a name was used again inside itself, and which
writes a failed commit or `rollback()` has undone.

`Connection` has the rest of what a program does to its transactions: the
settings and the BEGIN made of them, which is kept until one changes, `commit()`,
`rollback()`, `with connection`, `close()`, one `transaction()` block, the two-phase
methods, and `tpc_recover()`, which alone takes the lock more than once. The server
has prepared transactions that survive the session, another session may finish
them, and each command may succeed, fail, or be lost with the connection, executed
or not; the program then connects again and recovers.

### Notifies, Copy, Cursor, ServerCursor

`Notifies` follows each notification from the server through `PGconn`, the
backlog, the generator and the handlers. A generator is suspended at a yield
(`GenResume`, `GenClose`) or in a wait (`GenReceive`, `GenInterrupted`).

`Copy` has the program, the formatter with its buffer, the writer (direct, or with
a bounded queue and a worker thread), and the operation on the server. Data are
numbers in the order of the calls, so that the stream received can be compared
with what was written. The formats of rows are in `Containers`.

`Cursor` has the result sets, the position in them, `rowcount`, and in a pipeline the
results that are processed by whatever communicates next; `stream()` is suspended at
each row and may be closed there. A `stream()` that is given a COPY leaves the
connection in it (`Copying`), where further calls are refused. `ServerCursor` puts the attributes of the cursor
beside the portal on the server, whose position counts rows, through fetches,
pages, scrolls, errors, ends of transactions and portals declared by others.

### Generators and Connect

The generators yield what they wait for, and the wait functions answer. The
socket has two buffers of `Cap` units; a server that cannot write does not read. Each
wait function (selector, select, epoll, poll, the one in C, asyncio) has its
own registration and its own answer to errors, timeouts and a closed file. Both
implementations of `execute` and `fetch_many` are compared. `Connection.wait()` may be
interrupted at any time, also twice. `Connect` makes the list of attempts out of
hosts, addresses and ports, runs each with its deadline over `wait_conn()`, and does
the same for a cancellation, whose timeout is taken as it is given (zero is none); the servers are down, silent, endless, primary or
standby.

### Adapters and Pq

`Adapters` keeps, beside the dictionaries that contexts share until they write, the
maps as if each had always had its own; the properties compare them. A lookup by a
thread is several steps. `Pq` follows each pointer of libpq: which call allocates
it, which Python object owns it, who frees it, in ctypes and in Cython; a call has
two steps, between which another thread may run, a notice may arrive, or the
process may fork.

### Numerics, Datetimes, Containers

A value is dumped by the Python or the C code, stored by the server, and loaded
by one of the two; the arithmetic is that of the code, with integers of a few
bits, days of a few seconds and years of a few days in the place of the large units
(the constants are the parameters, also for the widths of the C fields, of the C `int`
and of the mantissa of a float), and texts are short sequences over the
characters that mean something. The reference definition is the value itself, in
the form the server has for it.

## 3. Runs

| Run | Instance | Shows |
|---|---|---|
| `sched` | 2 threads, 2 tasks and a stop, 4 instants | `NoLostWakeup`, `EveryTaskRuns` |
| `pool_safety` | sizes (0, 2), 2 clients that time out, 1 worker, attempts that fail, `close()`, broken connections, `check` callback, `max_waiting` | `Bookkeeping` (ownership, accounting, growth), `NoMissedHandoff`, `WithinMaxSize`, `ShrinkForever`, `ClosedPoolEmpty` |
| `pool_maintenance` | sizes (0, 2), 2 clients, `drain()`, `check()`, one `resize()` to (1, 2), `reset` callback | `Bookkeeping` under maintenance; `WaitersGrowPool`: no client waits while the pool could grow |
| `pool_live` | 1 connection, 2 clients, 2 workers, 2 callers of `close()` and `wait()` | `WaitersServed`, `CloseStopsWorkers` |
| `pool_async` | an async pool and a null pool of 1 connection, 2 clients, `check` callback, timeouts, one cancellation, two different methods out of five | `Bookkeeping`, `LateClients`, `DrainedStayOut`, `ImplementsLeases` |
| `session_safety` | 4 queries, one a DROP and one empty, of which a program executes two plain ones and one of these, or these two; nesting 2; 2 names, 3 results pending, 1 error; threshold 1, `prepared_max` 1 | `ResultMatching`, `PipelineDrained`, `CacheCorrect` (consistent, bounded, in agreement with the server), no deadlock |
| `transaction_safety` | 3 blocks, 2 successful writes, any number of failures, 1 explicit name, both autocommit modes | `BlocksAtomic`, `CommittedKept`, `AssertionsHold`, `ServerFollows` (matching savepoints, state left as found) |
| `client` | the nine parts of `MCClient`, one at a time (`focus`) | one conjunction per part, and the liveness of three of them: below |
| `codecs` | the three modules of conversions | `NumbersKept`, `TimesKept`, `ContainersKept` |
| `pool_late_client`, `session_stale`, `wait_selector` | smallest instances | three findings, section 4 |

Most properties are conjunctions of named parts, each with its own comment in the
module: `Bookkeeping`, for instance, is the type invariant, `ExclusiveOwnership`,
`Accounting` and `GrowOneAtATime`. TLC names the invariant; the part is found by
checking the parts.

| Part of `client` | Property | What it says |
|---|---|---|
| `Connection` | `TransactionsKept` | a transaction runs with the settings shown; a two-phase one is committed by `tpc_commit()` only; `_tpc` agrees with the server; `tpc_recover()` undoes nothing older than its call |
| `Notifies` | `NotifiedOnce` | nothing lost, nothing twice, in order |
| `Copy` | `CopyFaithful`, `WriterEnds` | what succeeds has copied what was written, once, in order; what fails has sent a prefix; `write()` and `finish()` end unless the worker died |
| `Cursor` | `ResultsOfCall` | rows once and in order, results of the last call, `rowcount` the sum, nothing left by `stream()`, unless it was given a COPY |
| `ServerCursor` | `PortalFollowed` | `rownumber` agrees with the portal, iteration gives every row, `close()` leaves no portal |
| `Generators` | `AnswersKept`, `Completes` | every answer in order, the error before the loss, nothing left after an interrupt; every operation ends, unless the number of a closed descriptor is used again |
| `Adapters` | `AdaptersCurrent`, `NewQueryCurrent` | shared maps behave as independent ones; caches are not stale |
| `Pq` | `PointersSafe` | NULL only where libpq accepts it; no pointer used after its release, but by a call in course that another thread's release overtakes; none freed twice; what nobody owns is freed; a fork does not end the parent's session |
| `Connect` | `AttemptsHonest`, `ConnectEnds` | a failure means that each address of each host was tried on its port, a primary is taken only after all were tried as a standby, time is bounded; it ends, a cancellation without a timeout excepted |

Every property of a passing run has a mutant: a definition changed the way a
bug would change the code, for which TLC finds the property violated.

Bounds, and why they are enough. Two clients and two connections let one client
wait while the other returns, breaks or keeps its connection; a third connection
in `pool_maintenance` is needed for one that is being replaced while `drain()`
has another in its hands. One attempt before giving up gives the three outcomes
(success, retry, given up). A queue of 3 holds both clients and one `Gone`. In
`pool_async` one connection and two clients make one of them wait always, two
methods run at the same time are what can race, and one cancellation may hit any
suspension. In `Session` a threshold and a cache of one make counting, promotion
and eviction happen with two queries; a nesting of 2 distinguishes inner and outer
exit; 3 pending results hold a command, its preparation and a sync; with 2 names
one statement is evicted while another is prepared, and a third name, which makes the
run too long, is left to the proof, as are programs with all four queries. In
`Transaction` three blocks give an outer block, an inner one and one in between
or after them; two writes tell a block's work from the work around it. In
`Connection` two ids let a recovery meet another transaction than the one
prepared, two settings make one stale; one write is enough for each conjunct, as
each speaks of one write (with two the invariant was checked as well, and it is
proved for any number). In `Copy` a queue of 2, a buffer of 1 and 5 calls fill
the queue with the worker behind. Four notifications make two batches of two. Three
rows with pages of 1, 2 and 3 have the number of rows a multiple of the page, not a
multiple, and equal to it. In `Connect` two hosts, or two addresses of one, make an
order and a second attempt; the timeouts are one that has passed, none, and one below
the minimum of `connect()`. In `Generators` buffers of one unit make both sides block
with 3 commands. Clients, connections and blocks are symmetric sets; symmetry is
not used where liveness is checked. In `codecs`, 5 digits with exponents around 0
and around the default precision of 28 meet every alignment to base 10000; with 5 bits
for the number of digits, the scale and the weight, numbers of up to 36 digits are
on both sides of what the fields hold, and those of the dates do the same for floats
of 11 bits and an `int` of 12; texts of two characters every pair of special characters.

Deadlock is checked in `session_safety`, `pool_safety` and `pool_maintenance`; in
`pool_live` and `pool_async` a closed pool may stop, in `sched` the runner stops, in
`transaction_safety` every block may have been used, in `client` and `codecs` a
bounded history ends.

Fairness. `Scheduler` assumes that the clock advances and that the runner and
the threads between push and `event.set()` go on: they are threads of the
operating system that hold no lock meanwhile. `Pool` assumes weak fairness of
each thread's next step once it has started an operation, of each worker and of
each delayed task (which `Scheduler` justifies); a client that uses a connection
returns it at last. Nobody has to start an operation. `pool_live` also assumes
that attempts to connect succeed and that clients do not time out: otherwise
being served is not promised. `Copy` assumes that the worker and the caller
inside `write()` or `finish()` go on, and that the block is left at last.
`Generators` assumes that a wait function answers when it can (the socket is ready,
an interval has passed, the file is bad) and that a server that is alive reads and
writes when it can; nobody has to interrupt, to close the connection or to die.
`Connect` assumes only that intervals pass. The composed run states the same
fairness, each part's for its own steps. The other modules have none, and no
liveness is claimed of them.

## 4. Findings

1. `pool_late_client`: a client that tested `_closed` before `close()` queues
   itself afterwards and nobody fails it (`pool.py:248`).
2. `session_stale`: after a failed query string with a DROP, `DEALLOCATE ALL` is
   executed after the next query was prepared, whose name the cache keeps
   (`_preparing.py:67`).
3. `wait_selector`: `wait_selector()` registers the socket a second time and raises
   `KeyError` whenever the generator waits twice (`waiting.py:85`).

### Deviations without a run

Some modules state, after the properties that hold, what a doc or a comment
promises and the model does not do, or mention an exception in the comment of a
property. They are not run, because the number of runs is limited to what the
core asks. Those marked with a name can be checked by giving that name as an
invariant of the module's instance.

Pools:

* `DrainedStayOut` (`Pool`): `_return_connection()` compares with `_drained_at`
  outside the lock, so an old connection can enter the pool after `drain()`
  (`pool.py:729`); also `check()` puts back what `drain()` should have closed.
* `MaxSizeRespected` (`Pool`): `resize()` adds the difference of `min_size` to a pool
  that has grown already, beyond `max_size` (`pool.py:508`).
* After `reconnect_timeout` the pool does not "just start a new connection attempt"
  (`docs/advanced/pool.rst:254`) but stays below `min_size` until a client waits or
  `check()` is called.
* `wait()` keeps one event for all callers: a second thread, or a `wait()` after
  one that timed out, uses the event of the other. `check()` and `resize()` of a
  pool not opened yet raise `AttributeError`.
* Async: a client that slept after a failed check asks again without testing
  `_closed` (`pool_async.py:263`); a cancelled check counts as a failed one
  (`:266`); a cancelled `close()` leaves waiting clients behind (`:523`).
* Null pool: a `putconn()` cancelled at the lock leaks a slot
  (`null_pool_async.py:124`); the connection that `wait()` makes is not counted
  (`:89`).

Statements and transactions:

* `NoMoreThanMax` (`Session`): a counted query that is promoted evicts nothing, so
  that more than `prepared_max` statements stay prepared; a DROP or ROLLBACK
  clears the cache only the first time it is executed (`_preparing.py:133`).
* In a pipeline a query can be evicted before its result has come. If it fails then,
  `validate()` finds nothing to remove and evicts nothing else: the cache has one
  query more than its limits, and this can happen again (`_preparing.py:153-167`).
  `CacheBounded` counts these queries in the history variable `missed`; the proof
  of the bound did not succeed without it, and TLC then found the case with
  `prepared_max` 0 and a threshold of 5.
* The result of an empty query is neither a good one nor an error to `validate()`
  (`_preparing.py:102`): `execute('', prepare=True)` prepares a statement, which is then
  dropped from the cache without a DEALLOCATE and stays on the server; the next such
  call prepares another one. `CacheAgrees` exempts these statements (`forgotten`).
* `NestingUnrelated` (`Transaction`): a block whose SAVEPOINT fails stays counted; the
  block around it raises `OutOfOrderTransactionNesting`, does not send ROLLBACK, and
  `rollback()` is forbidden afterwards (`transaction.py:226`).
* A failed COMMIT, or one of an aborted transaction, leaves the block's status
  COMMITTED. A savepoint name used again inside itself hides the outer one.
* `tpc_prepare()` of an aborted transaction succeeds and prepares nothing; a
  `tpc_commit()` in a block forgets the transaction before `commit()` is refused.

Cursors, copy, generators:

* `PipelineLastCall` (`Cursor`): in a pipeline a cursor used again before its results
  have come takes them for those of the last call.
* A COPY given to `stream()` is refused (`_cursor_base.py:370`,
  `tests/test_cursor_common.py:802`), but libpq answers with the COPY again and again
  (`generators.py:201`), both attempts to empty the connection (`cursor.py:185-196`) raise,
  and it stays ACTIVE: nothing else can be executed on it. `StreamReleased` exempts it.
* Server cursors: a relative scroll after `fetchall()` is off by one; raising
  `itersize` in the middle of an iteration stops it early; closing a cursor
  without hold in a later transaction fails; a hold cursor whose second `execute()`
  fails is not closed.
* `WorkerErrorRaised` (`Copy`): if the worker dies with the queue full, `write()` or
  `finish()` waits for ever (`_copy.py:278`).
* If another thread closes the connection and the number of its descriptor is at once given
  to another file, `_check_fd_closed()` (`waiting.py:40`) sees nothing: `wait_epoll()` and
  `wait_selector()` may wait for ever ("BUG: if the connection FD is closed,
  epoll.poll() hangs", `waiting.py:310`; `test_concurrent_close` in
  `tests/test_concurrency.py` opens no such file), the others look at that other file.
  `Completes` exempts a number used again. The checks made on Windows are not modelled.
* `cancel_safe(timeout=...)` uses the timeout as given (`connection.py:331`,
  `generators.py:114`), without the default and the minimum of `connect()`: with 0 there
  is no deadline, and a cancellation sent to a silent server never ends; with a negative
  one it expires at once. `ConnectEnds` exempts the first.
* `generators.pyx:189` looks for an error before a loss only in the last result.

Adaptation, types, libpq:

* `LookupFinds` (`Adapters`, with `Racing = TRUE`): two threads that look up a dumper
  registered by name race, and one gets `KeyError` or a superclass's
  (`_adapters_map.py:224`). A registration by name after the class was used is
  ignored; a dumper registered between two executions of the same query object is not
  used.
* The float -0.0 is quoted without the space (`numeric.py:75`), so that after a minus it
  starts a comment: `NoComment` exempts it. In C, `Int2BinaryDumper` and its like cut a
  number that does not fit.
* A Decimal whose number of digits, scale or weight has no room in the 16 bits of
  its field is refused by Python (`struct.error`); C cuts the field (`numeric.pyx:659`,
  `666`, `699`), and the server gets another number or refuses it. `DecimalTrip` states the
  first and promises nothing of the second. An int with more than 2^16 groups
  of 4 digits is outside of the model, as it is of what the server can store.
* An interval in text with more than 2^33 seconds in its time is parsed by Python as a
  float (`datetime.py:616-626`): the last microseconds may be lost, less than a second, as
  `IntervalKept` states. In C the days are an `int` (`datetime.pyx:886`, `990-1003`): where
  years, months and days together overflow it, as in '12000000 years', they wrap and the
  interval may be loaded as another one, where Python raises. `IntervalKept` exempts these.
* `InstantKeptC` (`Datetimes`): if the timezone of the connection has changed since the
  loader was created, a `timestamptz` that the C loader has to write in a fixed
  offset is another instant (`datetime.pyx:785`).
* An array item that starts with a comma loses it under another delimiter; a list
  that appears twice in an array is refused as recursive; a composite of one NULL
  field loads as `()`.
* `finish()` in one thread while another is inside libpq with the same connection;
  `change_password()` leaks a result (`pq_ctypes.py:742`); an error between
  allocations leaks arguments (`pgconn.pyx:969`).

## 5. Proofs

All theorems hold for any sets and numbers given to the constants, from the
assumptions on them named in the modules (`SchedulerAssumption`,
`PoolAssumption`, `AsyncAssumption`, `PreparedAssumption`, `SessionAssumption`,
`TransactionAssumption`, `ConnectionAssumption`, `NotifiesAssumption`,
`CursorAssumption`, `ServerCursorAssumption`, `CopyAssumption`, `PqAssumption`,
`ConnectAssumption`, `GeneratorsAssumption`), which TLC evaluates in every run.

* `SchedulerAndGeneratorsProofs`, about `Scheduler`: `TypeCorrect`; `WakeupCorrect` (`NoLostWakeup` is inductive on
  top of the types: a push that does not set the event is behind another task,
  for which the runner already wakes).
* `SchedulerAndGeneratorsProofs`, about `Generators`: `AnswersCorrect`, for all of
  `AnswersKept`, any sizes of the buffers, of a pipeline and of a copy, and every wait
  function. Two sequences carry it, each cut in pieces that a step moves: what is asked
  (in the socket and in libpq, `Asked`) and the answer (received, in libpq, in the socket
  and still to be written, `Stream`). `GenIInv` says, while the server lives, that the
  last unit asked, and no other, is what the end of the answer waits for (`Asks`); that
  the answer ends with its end, in nobody's hands before the server has read that unit
  (`Answering`); and that what the server has written is what was received and what is
  on its way. `Received` holds with the server gone too: an error is followed by errors
  and the end only, so that a generator that meets the loss has either received the
  error or never will. The lemmas that come first say what taking a beginning,
  moving the cut and leaving out the parts of a result do to these sequences; leaving
  out is a recursive function (`Sift`), treated as `FlattenSeq` is (see `Connect`).
* `PoolProofs`: every invariant that the runs check of `Pool`, for any sets of
  clients, callers and connections and any finite set of workers. Six invariants
  follow each other, each inductive given the ones before it:
  * `TypeCorrect`, which includes that a thread holds a connection exactly between
    two of its program points; `QueuesCorrect`, for `NoMissedHandoff` and
    `ClosedPoolEmpty`, which together are inductive on top of the types (the second
    alone is `ClosedCorrect`); `SizeCorrect`, where `ResizeCounted` (a thread is
    inside `resize()` only if the call was counted) carries `WithinMaxSize`.
  * `FreshCorrect`: a pool that was not opened is as the constructor made it. The
    books of `open()` start from this state.
  * `AnswersCorrect`: a client that is queued was not answered, one that `close()`
    still has to fail was given no connection, and whoever was answered is still
    waiting. It is what makes a hand-off give a connection to somebody.
  * `OwnedCorrect`: no place holds a connection twice (`Singles`), no two places hold
    the same one (`Apart`), and the live connections are those the places hold.
    `TakenOutCorrect` says when a caller has connections taken out. From `Owned`
    follows `OwnershipCorrect`, for `ExclusiveOwnership`.
  * `BooksCorrect`: in an open pool `nconns` is the sum of seven counts, the growing
    tasks and workers are one or none as `growing` says, and there is one shrink
    task; all that is counted is finite. `Errands` says why a worker that gives a
    connection back never makes the pool grow. `BookkeepingCorrect` and
    `ShrinkCorrect` follow, and with them `WaitersCorrect`: a client that had to wait
    found the pool full or made it grow.

  Each of the last two has a lemma per group of actions, after lemmas on what moving one
  connection, one task or one thread does to a place or a count.
* `AsyncPoolProofs` and, from `WashedCorrect` on, `AsyncLeasesProofs`: every property
  that the run checks of `AsyncPool`, its refinement of `Leases` included, for any
  sets of clients and callers and any finite sets of workers and connections. Seven invariants, in the order in which they are needed:
  * `OwnersCorrect`: `Shape` is the types and, for each task, what its role lets it
    do (`Fits`), who has the lock (`Locked`) and that a client in the queue or in the
    list of a `close()` waits, in that one place (`Queued`). `Owned` says that a
    connection is open exactly when it is in the pool, in a queued task, in the
    hands of a task or in the list of a `check()`, and in one of these only. They go
    together: that a worker never finds a closed connection in its task
    (`TasksOpen`) follows from the second and is needed for the first. `TypeCorrect`
    and `OwnershipCorrect` follow.
  * `LateCorrect`, for `LateClients`: `NotMissed` (while the pool is open, who waits
    is in the queue) is what `close()` finds when it makes its list.
  * `AgedCorrect`: the connections older than the last `drain()` are open, and until
    the first `check()` they are not in the pool. A connection is compared with the
    time of the drain in the step that puts it back. `DrainedCorrect` follows.
  * `BooksCorrect`: `nconns` is the number of open connections, of attempts queued,
    running or to be retried, and of those that a cancelled `putconn()` dropped
    (`Load`); a closed pool counts at least these. Each action changes `Load` and
    `nconns` alike (`Kept`), so the cases are few. That `Load` is the sum of
    `Accounting`, which counts by place, follows from `Owned` (`SlotsLoad`).
    `BookkeepingCorrect` follows.
  * `WashedCorrect`: a connection in a transaction, or busy, is in a queued task or
    waits for its reset, so that no client has it.
  * `WithinCorrect`: a pool that was not resized counts no more than `max_size`
    connections, one less while a client of a null pool connects: it has tested the
    limit before it suspended, and holds the lock.
  * `LeasesCorrect`: `Leasing`, which follows from the others, says in the terms of
    `Leases` that no two clients share a connection, none has a dirty one, and no
    more than `capacity` are leased. Where `getconn()` returns the step is a `Grant`,
    whose guards are `Leasing` after the step; where the client lets the connection
    go, a `GiveBack`; `resize()` and `wait()` are `Resize`; all others are `Maintain`.
    In a pool that was resized, or a null pool with `wait()`, `capacity` is the number
    of connections there are: the theorem says nothing there about the limit.

  First come lemmas on what `_add_to_pool()`, `_return_connection()` and each action do
  (`...Effect`), which all the invariants use.
* `Counting`: how the number of the elements of a sequence with a property, of the
  pairs of a family of sets, of a bag or of the images of a function changes when one
  element is added, moved or taken away; what moving an element does to two joined
  sequences. It does not mention the pools.
* `SessionProofs`: `TypeCorrect`, `MatchingCorrect`, `DrainedCorrect`, from
  the inductive invariant `IInv`: the types, the match of the queues, the drained
  state out of pipelines, and `Busy`: an operation under way is inside a pipeline, one
  that nests has room, and results are processed as soon as they are fetched. The
  match is an equality of sequences; lemmas on moving an element from the head of
  one to the end of another carry it.

  `ConsistentCorrect`, `BoundedCorrect` and `CacheKept` (all of `CacheCorrect`) are
  about the cache, in two more invariants:
  * `CacheInv`: the dictionaries are `Sound` (no key twice, no name twice, no key in
    both, all names below the counter), and so are the names on the server and in the
    commands (`Given`); the size is within `CacheBounded`. Each operator of `Prepared`
    has a lemma for what it does to keys, names, size and list to flush
    (`MaybeAddDoes`, `RotateDoes`, `PopDoes`, `ClearDoes`, `ValidateDoes`).
  * `Agree`: as long as nothing failed and no error is under way, the names of the
    cache are those that will be on the server when the commands queued and sent are
    executed and the list to flush is deallocated, but for those `forgotten` (`Known`);
    no command uses a
    statement after it is closed (`Ordered`), or before it is prepared (`Served`).
    An error that was not processed yet would be followed by a sync (`ErrorEnds`),
    which is the last command until its results are fetched (`SyncLast`): so the
    server never executes a query behind an error the client has not seen.
* `TransactionProofs`: every invariant that the run checks of `Transaction`, for any
  numbers of blocks, names and statements. Four invariants follow each other:
  * `IInv`, for `TypeCorrect` (the count of blocks is never negative) and
    `AssertionsCorrect`: the outer block has index 0 and there are at least as many
    blocks counted as open. Both are needed: the first for the step that ends the
    transaction, the second because leaving a block that is not counted would make
    the count negative.
  * `StackCorrect`, when blocks are left in order: the block open at place `i` has
    index `i - 1`, the blocks open are the ones counted (`NoneLeaked`), and an open
    transaction belongs to somebody (`Owned`). `_enter_gen()` counts the block
    before its SAVEPOINT is answered, and nothing takes it back when that fails: such a
    block remains counted, but only in an aborted transaction, which then stays so: no
    block is the last of the stack any more, and each is refused as out of order
    before its ROLLBACK. `LeavesCorrect` follows.
  * `SavedCorrect`: the savepoints of the server begin with those of the open
    blocks, in their order, and no two have the same name. In an aborted
    transaction there may be more, of blocks whose RELEASE failed, which the
    ROLLBACK TO of a block around them removes. Different names are why the most recent
    savepoint of a name is the right one. `FollowsCorrect`, for `ServerFollows`,
    follows.
  * `WrittenCorrect`: a savepoint keeps exactly the work that was not done in its
    block (`WorkSaved`), so that ROLLBACK TO undoes the block and no more; the work of
    the transaction is of blocks that were committed or still may be (`WorkSafe`);
    what is written in a block is written in those around it (`Nested`), and all
    of it in the outer one (`OuterWork`), so that its ROLLBACK undoes everything.
    `AtomicCorrect` and `KeptCorrect`, for `BlocksAtomic` and `CommittedKept`,
    follow.

  First come lemmas on what each command of the server does to each field, and on what
  entering and leaving a block does to the stack.
* `ClientProofs`, about `Connection`: `TransactionsCorrect`, for all of
  `TransactionsKept`: any number of transaction ids, settings and statements.
  `ConnIInv` adds six facts.
  `BeginKept` (the BEGIN kept is that of the present settings) carries
  `StartedAsSet`. `BlockKnown` (the outer block has an open transaction, and no
  two-phase one) and `WorkAsked` (outside of a two-phase transaction no work of one
  is open, unless a `tpc_commit()` has asked for it) carry `CommittedByTpc`:
  whatever a COMMIT makes permanent was asked for. `WorkNumbered` makes a new
  statement different from the old ones, and `WorkOpen` and `WorkBetween` (the
  transaction that `tpc_recover()` found or started holds no older work) carry
  `RecoverHarmless`. First come lemmas on the outcomes of each command of the
  server, then one lemma per group of actions.
* `ClientProofs`, about `ServerCursor`: `PortalCorrect`, for all of `PortalFollowed`,
  any number of rows and any itersizes. In `PortalIInv`, `PositionKept` relates the
  position the client counts, the rows of its page it has not given yet and the
  position of the portal; it holds while there is a portal, which `PortalLives`
  relates to the transaction and to `withhold`. `RowsKept` makes "every row once"
  inductive: what an iteration has given, its page, and what the portal has still to
  send follow each other, and a page shorter than the itersize is the last one. The
  lemmas that come first say what a FETCH and a MOVE give and where they leave the
  portal, for any count.
* `ClientProofs`, about `Cursor`: `ResultsCorrect`, for all of `ResultsOfCall`, any number
  of calls and of rows. `CursorIInv` is about the results the cursor holds and those
  still to come together: unless the last call was made before the answers to another
  one had come, both are of that call, and the rows counted so far with those still to
  come are its sum (`Expecting`). So it does not matter how many of the answers each
  method finds: one lemma says that processing any number of them keeps it
  (`Processed`), and every step that waits for results uses it. The position is the
  next row the program expects as long as a result is selected; a cursor that still
  expects the result of an `execute()` has none, which is why a result that comes late
  does not move it. `StreamLeft` says what a `stream()` has still to receive, which the
  two attempts of the code to read it, after an error too, leave empty, or with a COPY that
  never ends. Sums and the
  processing of a list are recursive functions; what one more element does to them is
  shown as for `FlattenSeq` (see `Connect`).
* `ClientProofs`, about `Adapters`: `AdaptersStayCurrent`, for `AdaptersCurrent`, and
  `NewQueriesCurrent`, an action property, for any tree of contexts. The first has two
  hypotheses on the program, that the code does not enforce and without which TLC finds
  it violated: it does not register by name (`~ByName`) and registers no dumper while
  another thread looks for one (`~Racing`). In `AdaptIInv`, `MapsOwned` (a dictionary
  that is owned is of one context only) makes a write of one context invisible to the
  others; `Stands` relates a shared dictionary to the one the context would have
  alone, up to the lazy move of a dumper from its name to its class, and `LooksHold`
  says that what a thread between two steps of that move has read still holds.
  `NewQueriesCurrent` needs neither hypothesis.
* `ClientProofs`, about `Copy`: `CopyCorrect`, for all of `CopyFaithful`, any sizes of the
  buffers and of the queue and any number of rows. `CopyIInv` follows the data through
  the writer. `DataKept` says that something was handed over to the writer which is what
  the server got, what the worker holds, what is queued and what is still to be queued,
  joined in this order, where a lost connection may only cut the end off; and that what
  was handed over, with the formatter's buffer, is what the program wrote, with the
  signature first and the trailer last in the binary format. `CopyPhases` and
  `QueuePhases` say where each of the pieces is empty: the end marker comes after all
  the data, and the worker is over when it is joined. `CopiedExactly` is then a fact of
  a copy that ended well. The first lemmas are on sequences: what splitting in chunks and
  joining them gives, for any chunk size.
* `ClientProofs`, about `Pq`: `PointersCorrect`, for all of `PointersSafe`, any callers
  and any number of memory cells and objects. `Sound` is a fact of each process, since
  a fork copies all memory: what an object points to is allocated and no other object
  points to it (`Owned`); the array of a call is of that call only (`ArraysHeld`); the
  pointer that a call in course was given is still what its object points to, unless
  another thread released it meanwhile, which marks the call as `raced`, and a function
  that cannot stand NULL was not given it (`PointersHeld`); and what is allocated is owned, or of a call in course
  (`NoneLeaked`). `NoBadPointer` follows from the third when the call goes on, and from
  the first when something is freed. A raced call is exempt from it but for NULL: that use
  is as unsafe in the code. Nor is anything said of the leaks that the model does not
  follow (section 4). Only calls, notices and the other thread change
  a process, one at a time, so that each step has to show `Sound` of one process.
* `SessionProofs`, about `Connect`: `AttemptsCorrect`, for all of `AttemptsHonest`, any
  lists of hosts, addresses, ports and timeouts, of whatever length. The attempts made,
  the one in course and those left are always, joined, the list that was prepared
  (`Planned`); of that list, `Foreseen` says that it reaches each address of each host
  on its own port and, with `prefer-standby`, that it is a list as standby followed by
  the same list as any; what it is compared with, `Everywhere`, is made of the parameters
  alone. Then a failure, with nothing left, has made all of it; and a
  session on a primary is past the first half. `EndedSo` says how an attempt to each
  kind of server can end, and `InTime` when. The lemmas before show that `Foreseen`
  survives splitting, resolving, shuffling and doubling. That `FlattenSeq` keeps all
  elements is an induction, made without the library's theorems: the least length for
  which it fails, if there is one, is not the least (`LeastNat` of `Counting`).
* `SessionProofs`, about `Notifies`: `NotificationsCorrect`, for all of
  `NotifiedOnce`. `NotifyIInv` says where a notification can be, and that these places follow each other: all that
  was yielded is before all that is kept (`backlog`, `d` or the batch, each of them
  increasing), which is before all that is still to come (`Apart`); and that only
  one of the places has anything in each phase of the generator (`Phases`). The
  second is what makes the first inductive: a notification received while the
  generator runs cannot enter a backlog that is to be yielded before the batch.
  `Shared` counts what is kept too, since a batch passed to the handlers is yielded
  later. The lemmas that come first say what splitting and joining increasing
  sequences gives.

Only model-checked: liveness (`EveryTaskRuns`, `WaitersServed`,
`CloseStopsWorkers`, `WriterEnds`, `Completes`, `ConnectEnds`), which is out of the
prover's reach, and the conversions of `codecs` (`NumbersKept`, `TimesKept`,
`ContainersKept`). These are written with RECURSIVE operators, which the
prover cannot expand.

## 6. Not modelled

* Query conversion and SQL composition (`_queries.py`, `sql.py`, `_tstrings.py`):
  parsing of unbounded text without state. Rows (`rows.py`): stateless.
* Types whose conversion is one call of a library, or the identity (`bool`, `enum`,
  `json`, `net`, `numpy`, `shapely`, `string`, `uuid`), floats, and the text forms of
  dates beyond the order of their fields. The registration of types by `TypeInfo`.
* Errors: classes, most of them generated. CockroachDB: another type map. Tools:
  generators of code.
* Connection: notice handlers, `ConnectionInfo`, the parsing of connection strings
  (libpq's), SRV records (`_dns.py`).
* In the modelled parts: `prepare_threshold=None`; COPY and a lost connection in a
  pipeline; blocks in a pipeline; the clearing of the cache of prepared statements
  by a rollback (`Session` has it for a ROLLBACK executed as a query, which is
  handled by the same code). In `AsyncPool`, cancellation of a worker, which the
  library does not do. The parts of `client` share no variable: their interaction
  is in the modules that model both sides (`Session` for cursors, pipelines and
  statements; `Cursor` for cursors and pipeline results; `Generators` for
  generators, waits and the server).

## 7. Plan

1. `Pool` as a refinement of `Leases`, with the threads' null pool.
2. `Session` with COPY and a lost connection in a pipeline, blocks in a pipeline.
3. `TypeInfo.fetch()` and the registration of types; the cache of `_queries.py`.
