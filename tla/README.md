# Verification of refmatrix

refmatrix (`rmx`) keeps a catalog of a project's code, documents and memories:
relational rows in DuckDB (or SQLite), compressed bitmaps beside them, vectors
in Lance. One daemon per store owns the only writer connection; command-line
calls, editor hooks, a file watcher and agents talk to it over a socket or leave
work for it in queue files. What is hard in this program is not a single
function: it is a dozen threads that share one writer `Store` with mutable
state in it, read copies that lag it, queue files appended to by other
processes, and a daemon that is stopped, killed and restarted in the middle of
all that. These modules model that core. All paths below are under
`src/refmatrix/` of the repository.

## 1. The system

| Part | State it keeps | Operations | Talks to |
|---|---|---|---|
| Writer lock, `daemon.py _FairLock` | `_held`, deque of waiting Events | acquire (blocking, timeout), release | every thread that touches the writer |
| Writer `Store`, `store.py` | DuckDB rows; in-memory bitmap fragments and their dirty set; `_in_transaction`; link buffer; bound partition | transaction, deferred_links, with_partition, link, purge, flush_fragments, facts.log | all ops, under the writer lock |
| Socket server, `daemon.py` | three thread pools, shutdown event, job table | about 100 `_op_*` handlers | clients; the parts below |
| Cooperative ingests, `ingest.py`, `ingest_gmd.py` | commit window, job record, the partition they bind | yield the lock between units of work | writer lock, Store, snapshot requests |
| Snapshot tier, `daemon.py` | dirty flag, event, snapshot file, in-memory mirror, its locks | request, tick, RPC, boot copy, mirror refresh, `_read_with_fallback` | writer lock, readers |
| Change queue and sync, `sync.py` | `dirty.queue`, pending mark, tracked mtimes | enqueue, drain, flush, sync | hooks, Store |
| Learn queue, `learn_queue.py`, `learn_switch.py` | `learn.queue.jsonl`, rotated files, marker files | enqueue, rotate, coalesce, drain, requeue | `rmx grep`, periodic tick, Store |
| File watcher, `watch.py` | debounced set of paths | flush into `sync_files` | Store |
| Embedding, `embedder.py`, `vectors.py` | Lance datasets of vectors, one per partition; per row the time it was embedded | three-phase embed op, purge, gc | Store, model processes |
| Model processes, `modelsrv.py`, `subproc.py`, `daemon.py` | the hub's client per role, a daemon's own, each with a process, a pipe, a lock and a cached header | call, retry, timeout, drop, idle eviction, warm-up, adoption, retirement | hub, daemons |
| Lifecycle, `daemon.py`, `launchctl.py`, `hub.py` | heartbeat, socket, pid, shutdown marker, daemon.lock, launchd job | adopt, reap predecessor, boot, drain, exit, watchdog | launchd, hub |
| Event bus, `bus.py`, `hub.py` | SQLite tables of messages and cursors, subscriber queues, refinement file | publish, stream, read, mark, delete, archive, purge, review | hub threads, the daemon that writes a memory |
| Rotation slots, `replica_merge.py`, `daemon.py` | two catalog files A and B, the marker of the writer's, facts.log | merge both into one and install it, repair a missing slot, boot, compact the log | Store, readers |
| Catalog connections, `backend.py` | registries of write connections and of shared read-only instances, with their files | read-only open and close, statements, write open with its sweep, release | every Store, DuckDB, whoever replaces a file |
| Query, ranking, recall | none of their own | boolean queries, search of neighbors, other read-only functions | read tier |
| Pointer errors, `stm.py` | one log for the machine, watermarks of owners and roots | record, halve, surface at SessionStart, prune, migrate | every hook, by files |
| Sessions and memory | STM log, memory rows | append, consolidate | Store, files |
| Command line, hooks, UI, MCP | none that lasts | parse, call, format | daemon |

What makes each correct:

* *Writer lock*: one owner; ownership is handed over in arrival order; a timeout
  that races a hand-over loses nothing; nobody starves.
* *Partition binding*: rows go into the partition the request means, although
  the binding is one mutable field and ingests release the lock in the middle.
* *Snapshot tier*: readers see every committed write after a bounded chain of
  steps, never go back in time, and never read another partition's rows.
* *Queues*: what was put in is applied once, still queued, or lost at a place
  that can be named; a file that looks unchanged to a sync has current facts, or
  the flush that left it without them was cancelled or skipped the Python pass.
* *Store*: rows, bitmaps and log agree after a commit, a rollback or a kill.
* *Catalog connections*: no database is closed under a statement or left open for
  nobody, and a connection is to the file it is taken for, although files are
  replaced at any moment and DuckDB shares databases by path.
* *Query*: an answer is what the grammar, or the links and the depth, say.
* *Lifecycle*: the daemon that serves is the one that pid file and socket lead
  to, one that works is not killed, and some daemon comes back.
* *Vectors*: a row that no embed would look at again has a vector of the text it
  has now, and a vector without a row has a known cause.
* *Model processes*: an answer goes to its request, a cached header describes the
  process that is there, and a live process has an owner that will end it.
* *Event bus*: what an agent has not read and nothing excuses is still shown to
  it, once; a stream has no gap; a candidate is promoted once.
* *Pointer errors*: an error of a hook is told once, to its owner or to the store
  root after the owner's end, or is counted.
* *Rotation slots*: a merge is the union of both slots by key, and no row is lost
  whatever step of its installation fails or is killed.

`PROJECT.json` lists the components with their files, and the hazards (what can
go wrong and is hard to test) each at its line.

## 2. The modules

| Module | Models | Role |
|---|---|---|
| `FifoMutex` | what the docstring of `_FairLock` promises | abstract specification |
| `FairLock` | `_FairLock` | implements `FifoMutex` |
| `FairLockProofs` | | four theorems about `FairLock` |
| `PartitionBinding` | `with_partition`, `_partition_keeping_yield`, ingest jobs, single ops | uses `FifoMutex` as the store lock |
| `PartitionBindingProofs` | | five theorems about `PartitionBinding` |
| `SnapshotTier` | snapshot requests, tick, copy, mirror, reads | |
| `CatalogHandles` | `open_duckdb` and `release_duckdb` for one path: shared read-only instances, their handles and statements, write opens, replaced files | |
| `QueryNeighbors` | `QueryEngine.neighbors` | |
| `QueryDsl` | `_Parser` and `QueryEngine._eval`, with the grammar as reference | |
| `ReadPathProofs` | | sixteen theorems about `SnapshotTier`, `CatalogHandles`, `QueryNeighbors` and `QueryDsl`, in a section each, and about their composition `MCReadPath` |
| `SyncQueue` | hooks, `drain_queue`, `_sync_paths`, flush ops, stop, crash, restart | |
| `SyncQueueProofs` | | three theorems about `SyncQueue` |
| `LearnQueue` | greps, rotate, coalesce, drain, requeue, stop, crash, restart | |
| `LearnQueueProofs` | | two theorems about `LearnQueue` |
| `WriterStore` | the rows, the bitmap fragments in memory and on disk, transactions, ingest windows, flush, repair, kill | uses the writer lock as one holder at a time |
| `WriterStoreProofs` | | six theorems about `WriterStore` |
| `DaemonLifecycle` | start, adoption, reap, boot, heartbeat, drain and exit of daemons, launchd's KeepAlive, the hub's watchdog | |
| `DaemonLifecycleProofs` | | three theorems about `DaemonLifecycle` |
| `EventBus` | the table, the cursors, the subscribers, maintenance, kills of the hub | |
| `RefineQueue` | the file of candidates for memory and its reviews | checked beside `EventBus` |
| `VectorStore` | rows and their vectors: the embed op, edits, purges, transactions, `gc_vectors` | checked beside `EventBus` |
| `PointerErrors` | the log of session-pointer errors, its halvings and who has been told what | checked beside `EventBus` |
| `RotationSlots` | `merge_slots`, the op that installs its result, slot repair, boot, the rows that facts.log would rebuild | checked beside `EventBus` |
| `ModelWorkers` | `WorkerClient`, the hub's table of clients and its idle tick, a daemon's private client and its change to the hub's | checked beside `EventBus` |
| `SeparatePartsProofs` | | sixteen theorems about `EventBus`, `RefineQueue`, `ModelWorkers`, `VectorStore`, `RotationSlots` and `PointerErrors`, in a section each, and about their composition `MCSeparateParts` |
| `MC*` | constants of the instances | model checking |

Because `FairLock` is shown to implement `FifoMutex`, `PartitionBinding`
composes with the abstract mutex and not with the lock's own code: the proofs
and the state space stay small and nothing is lost.

Operators that follow the comment "Mutated form" are altered copies of the
operator below them, each with a plausible mistake (a dropped guard, a wrong
order, a missing reset). No behaviour specification uses them. They document,
per property, a mistake in the code that the property would catch; the pairs are
under `mutants` in `PROJECT.json`.

### FairLock

Each critical section of the inner mutex `_mu` is one action; a thread blocked
in `Event.wait` holds nothing. `held` is `_held`, `waiters` the deque (a thread
has at most one Event in it, so the thread stands for its Event), `signalled`
the set Events that their threads have not seen yet. `Expire` is the return of
`wait(timeout)` with False; between it and `Withdraw` or `Refused` the lock may
be handed to the expired thread, which is the race the code handles by passing
the lock on. A non-blocking acquire of a busy lock changes nothing and is a
stuttering step. The one assumption about callers is that only a thread that
holds the lock releases it (every use is a `with` block or a try/finally).

### PartitionBinding

`bound` is `_partition_name`/`_partition_id` of the shared Store. A request picks
a partition in one of three ways, which the code really has: `set_flag`,
`forget`, `untrack` and the GMD job read the Store's field *before* they hold
the lock if the caller names none; `memory_add` reads it under the lock; code
sync, the watcher, `vacuum`, `prune_noise` and `upsert_entity` bind nothing.
`Binds` and `Restores` are the two halves of `with_partition`, `Yield`,
`Rerequest` and `Resume` the three moments of `_partition_keeping_yield`. The
job slot refuses a second registered job; the blocking `ingest_path` op does not
register, so two ingests can overlap, and the model lets them.

### SnapshotTier

A catalog is a version number and the set of partitions it holds. What runs
under the store lock is one step. The three threads that take snapshots (boot,
tick, RPC) share the actions `Copy`, `CopyFails`, `Load`, `NoLoad` and `Swap`;
the boot thread refreshes the mirror outside `_snapshot_lock`, the others inside
it, as in the code. The tick starts before the boot snapshot is taken and the
mirror is made, and may run beside it; ops come only after the socket is bound.
`FlagDirty` and `SetEvent` are the two statements of `_request_snapshot`, and
`TickWakes` and `TickChecks` the tick's `clear` and its test of the flag, so
every interleaving of the flag and the event is there. A read walks the tiers as
`_read_with_fallback` does, with the mirror it has borrowed possibly swapped
under it.

### CatalogHandles

One path, whose files are numbered in the order in which they come to it;
`inode` is the one there now. An `_ROInstance` has its `base` (the file it has
ATTACHed), the file it is `filed` under, the handles it counts (`refs`, a set
where the code has a number) and the statements that run (`inflight`). An open of
a handle is a chain of steps between which the file may be replaced: `LookUp`,
`Share` (under `_HOLDERS_LOCK`), `Attach`, `CheckAttached`, `FileInstance` (under
the lock again) and `DiscardLost`. `Drop` and `CloseLast` are `_drop_handle`
before and after it releases the lock; a handle may be dropped while a statement
of it runs in another thread, and `Leave` then does the close that was put off.

`opener` is the write open under way: `TakeStale` takes stale holders out of the
registries under the lock, `CloseStaleWriter`, `ShutStale` and `Drain` close them
one by one outside it, `StatBefore`, `Connect` or `Refused`, `CheckConnected` and
`RegisterWriter` are the loop of `_open_write`. `Drain` may come while statements
still run: that is a wait that timed out.

Assumed: DuckDB does what the comments and tests of `backend.py` say was measured
(a connect shares the database of an open write connection of the process; it is
refused beside an ATTACH, and an ATTACH beside it); an inode number is not
given to a new file while a holder of the old one is registered; write opens and
releases of one path come one at a time, since the Store's are under the store
lock or before the socket is bound. The API does not ask that who opens for
writing has closed its own connection first; the daemon does (`daemon.py:1536`,
after `_force_close_store` or `close`, and 5605-5714 in a merge). `beside` is
history: the connections that were made while another one was open. Left out: a
path without a file, a stale writer that cannot be closed, a cursor that cannot be
made, a garbage collection inside a critical section.

### QueryNeighbors, QueryDsl

`links` is the union of an id's rows over the linkages asked for. `Round` is one
turn of the loop of `neighbors`, `Return` its end or its `break`. What the answer
ought to be is stated by walks, without any order of search (`Within`).

In `QueryDsl` the recursive descent has an explicit `stack` of the calls that hold
something, and each action is the next step of the method that is on top. A node
is evaluated when it is built, which is the same as after the parse, since
evaluation follows the tree and a parse that fails answers nothing. The
reference is the grammar in the docstring of `_Parser`: `Meaning` says by
recursion what the tokens from one place to another mean as a phrase of a rule.
Left out: the tokenizer, and which rows a name resolves to.

### SyncQueue

A file's content and mtime are one version number. Its catalog entry has the
version that is *tracked* and the version its *facts* come from; the first loop
of `_sync_paths` sets the one and clears the other, the second pass sets the
facts from a second read of the file. `work` is the catalog as the open
transaction sees it. Which facts a flush extracts depends on its request: those of
documents and pseudo-code always (`Extract`), those of the files in `Python` only
if it was asked with `semantic`, a choice of every `Ask`, since the flag is off by
default and the hooks do not give it (`cli.py:8603`, `hooks.py:161`,
`sync.py:314`). The Python pass builds a record per file (`Build`) and applies all
of them at its end (`Apply`); a cancel before that drops every record. `Init` is
what `rmx ingest` leaves, whose own `--semantic` is on by default
(`cli.py:8185`). `cut` and `plain` are history, per file: the flush that last
committed a new entry of it was cancelled before it had the facts, or did so
without the Python pass. A flush that extracts the file clears them.

`Read` and `Unlink` are the two calls of `drain_queue`: a
hook may append in between. `Stop` sets the shutdown event; `Exit` ends the
process wherever its threads are, after a stop (the drain budgets are finite) or
without one (a crash).

### LearnQueue

A record is its pattern and the greps whose hits it carries. A grep's open file
handle follows the file through the rename, and writes into nothing after the
unlink. `Parse` keeps the newest lines and coalesces by pattern; `Apply` is one
entry under one hold of the store lock (`_learn_grep_hits` is one transaction);
`StopDrain` is the shutdown check, the end of the batch, or an entry that finds
the store invalid; `Requeue` appends one entry per step.

### WriterStore

An edge stands for a link: its row in `entity_links` and its bit in a fragment,
the fragment being that of its linkage in its entity's partition (that an edge
is linked under that partition is what `PartitionBinding` is about). `disk` is
what is committed, `view` what the writer's connection sees; they differ only
while a transaction is `open`. `bits` is the table `bitmap_fragments`, and
`loaded`, `cache` and `dirty` are `_fragment_cache` and `_dirty_by_binding`.

The holder of the writer lock runs an op statement by statement, one
transaction, or one window of a cooperative ingest (`mode`). `Change` is what a
statement does to memory before it touches a row, as in the code: load the
fragment, change bits, mark it dirty if a bit changed. Every statement may raise
after that and before its rows (`Failed`). `CloseScope` is the `finally` of
`deferred_links`, which links the buffer also when the body raised. `Commit`
covers both `transaction()` and `_CommitWindow.boundary`/`close`, the latter
committing even when the ingest raised; `Rollback` restores rows and nothing
else. A flush writes one fragment per step and may raise between two. A window
that yields keeps `ids`, what it has resolved, and may link them later although
an op purged them meanwhile. `Purged` runs the first `n` of the statements of
`purge_entity`. `Repair` is `repair_fragments` after its flush: links and bits of
living entities, united.

`suspect`, `touched` and `late` are history. An edge is suspect when its last
change was rolled back, failed halfway or was lost with the process; a later
change of it that succeeds clears it. They say which disagreements between rows
and bitmaps are known to be possible, and the properties say that there is no
other.

Assumed: ids are never reused (a sequence); a COMMIT that raises ends the
process, as the daemon does when DuckDB reports an invalidated database; a
statement that raises leaves its transaction usable; no caller purges inside a
`deferred_links` scope that has links in its buffer (none does). A kill inside a
statement equals one before or after it, since bits change only in memory.

### DaemonLifecycle

A process is a member of `Procs`; `phase` is where it is in `_adopt_unsupervised`
(`adopt`, `asked`), `serve_foreground` (`lock`), `_reap_predecessor` (`reap`,
`kill`), `serve_forever` (`gate` to `serve`) and its end (`drain`, `close`).
What processes know of each other is in files: `pidfile`, `sock`, `beat` (the
age of the heartbeat file), `marker` (`shutdown.started`), and two locks, derived
from the phases: `LockHeld` is the flock on daemon.lock, `DatabaseHeld` DuckDB's
own. `Terminate` is SIGTERM or the stop op: it ends a process at once unless
that has bound its socket, which is when the handlers are installed. A daemon
that is stopped unlinks pid file and socket whoever they name by then
(`Unlink`). `Tick`, `HubStops`, `GraceEnds`, `AwaitEnds`, `Kick` are
`Watchdog._check`, `graceful_stop`, the wait for a drain and `kickstart -k`;
`StartJob` and the first lines of `Go` are launchd (external): a job is started
again when its process ended with another status than 0.

Faults are crashes in any phase, serving processes that hang (`Wedge`, and may
`Recover`), stops by a user, and starts by hand beside launchd's.

Time is in the guards, and these are the assumptions: a heartbeat goes stale
only while no process that should beat is well; a grace runs out only for a
process that hangs or is draining (a drain may outlast the 20 s of an adoption
and the 3 s of a reap); what a process does before its first heartbeat takes
less than two ticks of the watchdog, the grace of an adoption aside; launchd's
ThrottleInterval (10 s) is shorter than the interval of the ticks (15 s); the
child of `rmx daemon start` writes its pid before its parent gives up; a drain
ends within `SHUTDOWN_BUDGET_S` and launchd's ExitTimeOut. A pid is not given
anew while something names it. Only a process that serves can hang: one that
hangs in its boot keeps beating, and nothing restarts it.

### EventBus

A message stands for its publish, which is an insert (`Insert`), a look at the
subscribers, and one `put_nowait` per subscriber. `seq` is the `INTEGER PRIMARY
KEY` of the table; without AUTOINCREMENT SQLite takes the largest plus one, so
the number of a purged row can come again. A read is a query for the channels,
one query per channel, then the move of the cursors and only then the answer;
the four are separate steps, since `_lock` covers writes only. `mark_read`
without a number is a query and a later write. A stream registers, asks for
its history, sends it, and follows its queue. `HubDies` keeps the table and the
cursors and loses every thread, connection and queue.

History variables say what is known to hide or repeat a message: `excused` (an
empty answer that moved the cursors, an answer that never arrived, a mark
forward, a number given twice), `rewound`, `restored`, `dropped`.

### RefineQueue

`file` gives each candidate the status of its line. A publish opens the file
and then writes; a review reads it all, may have the daemon write a memory, and
writes it all back through `temp`, one name for all reviews. `mixed` are the
candidates touched while a review of another hand was open, `cut` those whose
review ended between memory and mark.

### VectorStore

A vector is the version of the text it was made from, so it is stale when that
version is not the row's `text`. `clock` counts the moves of `updated_at` and
`stamp` is `vectors_updated_at`; comparing them is all that
`_pending_embeddings_where` does (`Pending`). `time.time()` is taken to go
forward between a stamp and the next edit. `row`, `text`, `clock` and `stamp`
are in the database and go back with a transaction (`saved`); `vec` is in Lance
and does not.

There is one embed op at a time (`_embed_serial`). `Select` is its first phase
under the lock, `StoreBegins` with `PutVectors`, `StampRows` and `EmbedEnds` the
third, and between the two anything may happen. The kinds of rows are left out:
the third phase stores the batch kind by kind, and here any part of the batch
may be one kind. `EditBody` and `EditClock` are the two statements of
`add_memory`, which may be outside any transaction; `DropVectors` and
`DeleteRow` the two halves of a purge; `Collect` is `gc_vectors`, whose deletion
in Lance may fail after the stamps are committed. An exception inside a
transaction ends it. Ids are never reused.

`reworded`, `bereft` and `astray` are history: rows whose text changed with no
later move of their clock, rows that stayed although a purge had dropped their
vector, rows purged without it.

### PointerErrors

A hold of the log's lock is one step. A row is its name, its owner and its time,
and `surfaced` and `consumed` are the watermarks, which are times too: a halving
moves every place in the file. `Stamp` is `record_pointer_error` before the lock
and `AppendRow` the rest, so a SessionStart may move a watermark between them.
`KeptLog` is the log as an append finds it: over `MaxLog` rows (the code's limit
is in bytes) its older half becomes a `Truncation` row that counts, per owner,
what it had not seen. A run of the SessionStart hook (`start`) claims and copies
the store's old log, picks its owner's rows, picks those of ended owners, prunes,
and prints last; it may be killed at every step. One store root is modelled,
and the window of a day in which ended owners' rows are picked does not close.

`known`, `muted`, `ended`, `late` and the rest are history: what was printed to
whom, what was picked by a run that was killed before it printed, and which rows
came in with a time that had been shown already.

### RotationSlots

A catalog is what a merge looks at: `row`, from an id to a key and the time of
its `updated_at`; `text`, from an id to the time of its `memory_content`; and
`links`. A key stands for (partition, kind, name), the unique index of
`entities`. Each slot has ids of its own sequence, so `LosersA` and `LosersB` are
the collisions of one key with two ids, `Remap` the tables `remap_a` and
`remap_b`, and `MergedRows`, `TextsOf` with `MergedTexts`, and `MergedLinks` the
inserts and updates of `_merge_into` in the order of the code: thus an update
of shared ids also reads rows that lost. `Build` needs `KeysAreUnique` because
the target has that index; without it the build raises, which is
`NothingInstalled`.

`slots` are the files, `active` the marker, `writer` the slot the daemon has
open. `MergeBegins` to `Promote` are the statements of `_op_replica_merge`,
`InstallFails` its exit after A was replaced, `CloneBegins`, `CloneEnds`,
`CloneFails` and `Reopen` are `_repair_missing_slot_locked`, for a merge and for
a boot, and `Boot` is `_bootstrap_rotation_if_needed` and the opening of the
marked slot. `copy2` and `cp` write in place: between begin and end the file is
`Torn`. `AddKey` is any write that is logged. `Dies` is a kill at any step, and
`_writer_lost`, the end of a daemon that cannot reopen its writer. For a merge this
is what the code does; a reopen that fails after the clone of a boot is only logged
(`daemon.py:3056`): the boot goes on, binds the marked slot if it can, and serves
the legacy file if it cannot (`daemon.py:1890`). That outcome is not in the model.

Assumed: one partition identity (a clash is refused before anything is written);
the marker is written in one step; a partial file can be unlinked; a `cp` ends
with its daemon; a text and a link name a row of their slot. Left out: the drain
of readers before a merge; the offsets of the slots, from which nothing is
replayed any more; stale WAL files; a second merge before the log is compacted
after the first.

`everKnown`, `clashed` and `owed` are history: every key a slot ever had, keys
that shared an id with another key in a merge, rows that a merge installed and
was cut or failed before it could log them.

### ModelWorkers

One role is modelled, since roles share nothing but short critical sections. A
client (`worker`) is its process, the frames sent and not yet answered, whether
a header is kept, its lock and whether it is retired. A call takes the client it
finds (`AskHub`, `AskPrivate`) and enters it later (`Enter`); what it does
between getting the lock and releasing it are the tries of `call`: the first,
the second on a new process, and the extra frame for the header (`Refill`). A new
client of the hub is asked for its version first, so its maker has two requests
to make (`todo`). A worker answers frames in order and may answer any of them at
any time, or die, or not answer in time (`Expire`, which is a death that the
client causes). What happens between the list, the eviction and the `del` of the
idle tick, between the pop and the close of a drop, and between the probe, the
swap and the retirement of an adoption are separate steps, as no lock covers
them together.

Left out: the version check's exit, the start and stop of the server, the queue
depth it reports, the sockets between a daemon and the hub, reservations with a
budget, and a spawn that fails. A request that only reads the kept header changes
nothing.

`strays` is history: hub clients that got a process when they were out of the
table or evicted from it, and a daemon's client that was made during a shutdown
and overwritten by an adoption that had begun before. `crossed` says that a call
read what answers another frame.

## 3. The runs

| Run | Instance | States | Shows |
|---|---|---|---|
| `fair_lock` | 4 threads | 3.6 thousand | ownership accounted for (with it, exclusion), refinement of `FifoMutex`, no starvation |
| `partition_binding` | 2 ingests, 1 op, 2 partitions | 433 thousand | rows land where named; one request, one partition; the binding comes back; ops are served |
| `partition_binding_sync` | 1 ingest, 1 op | violation | a sync writes into a yielded ingest's partition |
| `read_path` | tiers: 2 readers, 2 partitions, 1 commit after boot, 1 failure; connections: 3 instances and 2 write connections, with 2 handles and 1 replaced file or 1 handle and 2; neighbors: any graph of 3 ids, depth to 3; queries: 6 tokens over 2 terms | 1.34 million | no lost request, monotone tiers, right answers, requested writes arrive; no base closes under a statement or leaks, readers share and read the file they looked up, writers are listed under theirs (`ConnectionsAccounted`); the search finds what walks lead to; queries mean what their grammar says, or are refused |
| `snapshot_watcher` | no readers | violation | a watcher's commit may never reach readers |
| `sync_queue` | a document, a Python file, 2 edits, 1 outage, 1 failure | 104 thousand | edits accounted for; unchanged means current, or a cancel or a flush without the Python pass is the cause; flushes end |
| `sync_cancel` | as above, 2 documents, no failure | violation | a cancelled flush commits a mark without facts |
| `learn_queue` | 3 greps, 2 patterns, cap 2 | 96 thousand | nothing dropped quietly and nothing applied twice (`TeachingsAccounted`), the queue drains |
| `writer_store` | 2 entities in 2 partitions, 2 edges, 1 failure or kill | 404 thousand | drift accounted for; a clean fragment is persisted; memory is what the connection sees; rows name the living; missing bits arrive |
| `writer_rollback` | transactions only | violation | a flush writes the bit of a rolled-back row |
| `daemon_lifecycle` | 3 processes, 3 faults | 905 thousand | the server is the one that is named; work is not killed; the root is served again |
| `separate_parts` | 3 messages in 2 channels, 1 agent with 2 reads, 1 stream, 2 upkeep requests; 2 candidates, 2 reviews, 1 fault; 2 rows, 2 partitions, 4 changes, 2 failures or kills; 3 hooks of 2 owners, 2 SessionStarts, 1 fault, and 5 hooks without faults; any 2 slots of 2 keys with 3 ids, and 18 pairs of slots with 2 merges, 2 failures or kills and a new key; 2 calls, 2 model clients, 2 deaths or timeouts | 832 thousand | what is hidden has a cause and what is shown is shown once and streams have no gap (`BusAccounted`); enqueued candidates stay; promotions accounted for; no stale vector is taken for current; orphan vectors have a cause; pointer errors are told once or counted; a merge is a union; its installation loses nothing; model answers are not mixed up and live processes are known |

The properties by name, each beside its comment in the module that states it; the
runs of the `MC` modules of the same names check them:

* `FairLock`: `OwnershipAccounted`, `NoStarvation`, `RefinesFifoMutex`.
* `PartitionBinding`: `WritesKeepTheirPartition` (`NamedWritesLand`,
  `OneRequestOnePartition`), `RestoredAfterLoneJob`, `OpsAreServed`; refuted:
  `CodeSyncWritesHome`.
* Through `MCReadPath`, for its kinds of behaviour: `TypesOK` and those
  of the next four modules.
* `SnapshotTier`: `RequestsAreKept`, `AnswersAreRight`, `TiersNeverGoBack`,
  `RequestedWritesReachReaders`; refuted: `WritesReachReaders`.
* `CatalogHandles`: `ConnectionsAccounted` (`StatementsHaveABase`,
  `BasesAreAccountedFor`, `OneInstancePerFile`, `ReadersSeeTheFileTheyLookedUp`,
  `WritersAreListedUnderTheirFile`).
* `QueryNeighbors`: `NeighborsAreWithinDepth`; `QueryDsl`:
  `QueriesMeanTheirGrammar`.
* `SyncQueue`: `EditsAreAccounted`, `FactsAreAccounted`, `FlushesEnd`;
  refuted: `UnchangedMeansCurrent`.
* `LearnQueue`: `TeachingsAccounted`, `QueueDrains`.
* `WriterStore`: `DriftIsAccounted`, `MemoryIsFaithful`
  (`CleanFragmentIsPersisted`, `MemoryIsView`),
  `RowsNameTheLiving`, `BitsCatchUp`; refuted: `FlushFollowsCommit`.
* `DaemonLifecycle`: `ServingIsNamed`, `WorkIsNotKilled`, `ServedAgain`.
* Through `MCSeparateParts`, for its kinds of behaviour: `TypesOK`, `BusAccounted`
  (`EventBus`), `CandidatesAccounted` (`RefineQueue`), `VectorsAccounted`
  (`VectorStore`: `CurrentUnlessReworded`, `OrphansForACause`), `ErrorRowsAccounted` (`PointerErrors`),
  `MergeIsUnion` and `InstallAccounted` (`RotationSlots`), `WorkersAccounted`
  (`ModelWorkers`).

Why the bounds are enough:

* Four threads give an owner, one waiter that times out, one that is handed the
  lock meanwhile, and one more behind it to whom it is passed; three would not
  show the order of the last two.
* Two ingests and an op are the shape of the known bug (bug-098): A yields, B
  binds and yields, A writes. Ingests may yield any number of times. Two
  partitions are the home partition and another; more only rename.
* One commit beyond the version of the boot, beside the boot copy, the tick and
  an RPC, makes the file, the mirror and the writer three different versions;
  an older snapshot file may be left over from an earlier daemon.
* One replaced file makes an open wrong before, between and after its look-ups;
  with two, beside one handle, and two tries a write open gives up. Two
  handles are a statement and a close that race, or two opens of one file; three
  instances are the ones they make and one a write open is closing. Write
  connections beside one another are left to one handle.
* Three ids have cycles, links back to a seed, and noise between two others; a
  depth of 3 is beyond any shortest walk. The seeds are one set of each size, as ids
  are interchangeable. Six tokens hold two operators with a NOT
  or a pair of parentheses; two terms tell union, intersection and complement
  apart by the rows they have, each with an entity of another partition. The theorems
  speak of all graphs, depths and lengths.
* Two files let a flush be cut between two files and between its two passes; two
  edits let one land between the mark and the extraction of the same file.
* Each of the two edges joins the two entities, one in either direction, so
  either purge meets an edge on its entity side and one on its concept side, in
  different partitions. One fault at a time; with two (a rollback, then a kill)
  the same properties hold in a larger run of the same instance.
* Three greps over two patterns with a cap of two reach overflow, coalescing and
  a remainder that is requeued.

* Three processes are one that serves or stops, a newcomer, and a second
  newcomer; three faults are, for instance, a wedge, a start by hand and a
  crash, while each is being dealt with.
* Three messages of which two share a channel give an answer that is cut, one
  that leaves a channel out, and a number given twice. Two reads of one agent
  overlap. A queue of one is full at the second message. `MCSeparateParts`
  checks reads (one at a time; messages and upkeep requests are four in all),
  overlapping reads (two messages, one request), streams, reviews, vectors,
  pointer errors, merges, installations, the hub's model client and a daemon's
  as kinds of behaviour of their own, because none changes what another looks at;
  its head says why. `BusLosesNothing` says the same for any numbers of them.
* Two rows of one partition are a batch of which one row is stored and the other
  left out; the second partition is one that a purge by ids may be bound to. Four
  changes are, for instance, an insert, a transaction, a purge in it and an
  edit. The theorems say the same for any rows, partitions and changes.
* Three hooks and a log of one row are a halving with a SessionStart before,
  between and after; five are a halving that removes the row which counts an
  earlier one. The old log is there in a behaviour of two hooks, where nobody
  slips, and three hooks meet either a slip or an owner that has ended.

* Two keys with ids from 1 to 3 in either slot are every way in which one key has
  two ids, one id two keys, or both at once. Two failures let a boot's repair
  fail after a merge that was cut; a new key is one that a merge did not see.
  The theorems say the same for any ids, keys, merges and failures.

* Two calls are one that holds a client and one that finds its successor; two
  clients are those; two deaths are a call that fails with its retry, which is
  what drops a client. `WorkersAreAccounted` says the same for any calls, clients
  and deaths, and for both kinds of client in one behaviour.

`CHECK_DEADLOCK FALSE` stands where the system may stop: when every request of
the instance has been served, or no commit is left to make.

## 4. Fairness

Nothing forces a client to come: edits, greps, reads, RPCs, commits and stops
are never fair. What is assumed is that threads which can run do.

* `FairLock`: weak fairness of release (every hold is a `with` or try/finally)
  and of waking, withdrawing and refusing, per thread.
* `PartitionBinding`: weak fairness of asking, entering, and of ending a unit of
  work by *either* a yield or the end; an ingest need never end, so `OpsAreServed`
  holds against an ingest that yields for ever.
* `SnapshotTier`: weak fairness of the handler's tail, the tick, and the
  snapshot threads; strong fairness of `Swap`, since readers may take the use
  lock again and again, and a thread blocked on it gets it at some release; the
  holder of the use lock returns.
* `CatalogHandles`, `QueryNeighbors`, `QueryDsl`: none, only safety is stated.
* `SyncQueue`: weak fairness of a flush's next step; strong fairness of getting
  the store lock (it is FIFO); a stopping daemon exits and launchd starts another.
* `WriterStore`: an op ends (by `End`, `Commit` or `Rollback`), and the tick gets
  the FIFO lock: both strongly fair. Flushes, repairs and the close of a scope go
  on once begun: weakly fair.
* `DaemonLifecycle`: weak fairness of each process's next step (of a drain only
  while it does not hang), of its heartbeat, of launchd's start and kill, of the
  passing of time and of the watchdog. Nothing is fair about faults, recoveries,
  starts and stops by users, so `ServedAgain` holds although a hung process
  may hang for ever.
* `EventBus`, `RefineQueue`, `VectorStore`, `PointerErrors`, `RotationSlots` and
  `ModelWorkers`: none, only safety is stated.
* `LearnQueue`: as `SyncQueue`; strong fairness of the tick, which comes every 30 s
  and finds the switch on if it is on again and again.

## 5. What is proved

`FairLockProofs`, for every set of threads:

* `TypeCorrect`, `OwnershipNeverLost`, `LockExcludes`. The invariant is
  `TypeOK` with `OwnershipAccounted`, and it is inductive as it stands. Exclusion
  alone is not: one must know that a set Event belongs to the owner, that the
  owner has no ticket, and that tickets are distinct, or a hand-over could make
  a second owner. The lemmas on appending, taking and removing a ticket carry
  the sequence reasoning.
* `ImplementsFifoMutex`: the owner of the abstract mutex is the one thread that
  holds the lock or whose Event is set, so the hand-over is the step that
  changes it, and waking up, expiring and refusing map to stutters or hand-overs.

`PartitionBindingProofs`, for every set of ingests, ops and partitions:

* `TypeCorrect`, `RowsLandWhereNamed`, `RowsAreNotSpread` (together
  `WritesStayTogether`), `BindingComesBack`. The invariant adds two
  facts to the types. `InsideOwns`: a thread inside its critical section owns the
  store lock, so there is one. `Carries(t)`: while t is inside, what it has
  written is within the partition bound now; while it has yielded, within the
  one it recorded; and where it was given a partition, that is the one. Only the
  owner changes the binding, so the others' parts are framed by one lemma. That
  the binding comes back needs `RestoresHome`: while at most one ingest has been
  through the lock, whoever is inside restores the home partition when it leaves,
  unless that ingest is away, and then the ingest still remembers it. The
  property counts the ingests that are done, so the set of them must be known to
  be finite.

`ReadPathProofs` has a section for each of four parts that share no state, and one
for the four side by side.

The tiers, for every set of readers and of partitions and any number
of commits and failures:

* `TypeCorrect`, `NoRequestIsLost`, `ReadsAreRight`, `TiersOnlyGoForward` (an
  action property). All rest on one order: mirror, what a refresh has loaded,
  file, writer (`Ordered`). It says that a copy answers every request made before
  it (`NothingForgotten`) and that a lower tier is no older than the mirror a
  read began at (`ReadsLookAhead`). Two refreshes at once would break it, which
  `RefreshesTakeTurns` excludes, although the boot thread refreshes outside
  `_snapshot_lock`.

The catalog's connections, for every set of handles, instances and write
connections, any number of tries and of replaced files:

* `HandlesTypeCorrect`, `NoStatementLosesItsBase`, `NoBaseLeaks`,
  `InstancesAreShared`, `ReadersAreCurrent`. The invariant `ReadersInv` follows an
  instance through the places it can be in: in the hands of the open that made it
  (`NewIsPrivate`), in the registry (`ListedIsOpen`), taken out of it by a write
  open (`OpenIsFound`, `SweepAgrees`), or closed, with somebody left to close its
  base (`ClosedCloses`). `StepsAgree` and `RefsAgree` tie the steps of handles to
  the instances that count them. The second property says who will close a base,
  the first that nobody else does.
* `WritersAreCurrent`. A connection that was made beside no other opens the file at
  the path; an unchanged inode after it means that this is the one looked up
  before, under which it is listed. `WritersInv` says so from the connect on. A
  connection made beside another may have its old database (6.), and the
  statement is false of those.
* `ConnectionsAreAccounted`: the five together.

The search of neighbors, for every set of ids, graph, seeds, noise and depth:

* `NeighborsTypeCorrect`, `SearchFindsWhatIsNear`. After each round what was found is
  what as many hops lead to, and only from the frontier may a link lead further
  (`SearchInv`). A search that breaks off has found a set that no link leaves; a
  walk out of it would have a first step out of it (`ClosedHoldsAll`).

The query language, for queries of any length, any terms and any rows:

* `DslTypeCorrect`, `AnswersAreDerived`. A *reading* gives each phrase of the
  query a set of meanings and is closed under the rules of the grammar; an answer
  is a meaning of the whole query in every reading, so in the least, which is the
  grammar's. That needs no recursion. Calls that wait have their tokens
  one after the other in the query (`Frames`), and the value at hand means
  everything behind the last of them (`AtHand`).

Side by side: a behaviour of `MCReadPath` is one of each part, since the others rest
(`EachPartKeepsItsSpec`), so that what is proved of the parts holds of what the run
checks; `PartsTypeCorrect` states this for `TypesOK`. `SeparatePartsProofs` ends
with the same for `MCSeparateParts`.

`SyncQueueProofs`, for every set of files, any of them Python, and any number of
edits, outages and failures:

* `TypeCorrect`, `NoEditIsLost`, `FactsAreMissedForACause`. The properties speak of
  the committed catalog, and what a flush will make of it is in its open
  transaction. So the invariant says of the transaction what holds of the catalog,
  except for the files marked and not yet extracted, and those it has left as an
  earlier flush committed them (`WorkIsAccounted`, `WorkIsCurrent`); of the records
  built and not applied, that each is as new as the mark or older than an edit
  (`RecordsAreCurrent`); of the marks left at the commit, that they are those of a
  pass that was not asked for (`OnlySkimmed`); and `HoldersOwn` that nobody changes
  the catalog under it.
  What `drain_queue` has read stays queued until the unlink (`ReadIsQueued`).

`LearnQueueProofs`, for every set of greps and of patterns, every cap and any
number of stops, crashes and failures:

* `TypeCorrect`, `NoTeachingIsLost`. A teaching is in one line of one file
  (`EachInOnePlace`), the rotated file counting only until it has been parsed.
  What a drain applies is `Coalesce` of that file, a recursive function over its
  lines; that this keeps the teachings and mixes none is `CoalesceIs`, which is an
  induction: were it to fail, there would be a least number of lines at which
  it does.

`DaemonLifecycleProofs`, for every set of processes, every grace of the watchdog
and any number of faults:

* `TypeCorrect`, `TheServerKeepsItsFiles`, `NoWorkIsKilled`. That a serving daemon
  is the one that is named is a relay: the one holder of daemon.lock looks for a
  predecessor before it writes its pid (`OneHolder`, `NoRival`), a predecessor that
  still owns the root is the one it waits for (`OwnerIsVictim`), and past that the
  owner is the holder itself (`OwnerIsNamed`, `ServerIsBound`). That nothing at
  work is killed is the heartbeat: who is well keeps it fresh (`WellBeats`), so
  that whom a holder waits for was stuck or is stopping (`VictimIsOverdue`).

`WriterStoreProofs`, for every set of edges, entities and partitions and any
number of faults:

* `TypeCorrect`, `FragmentsAccounted`, `CleanMeansPersisted`,
  `WriterReadsItsRows` (these two together: `MemoryStaysFaithful`),
  `OnlyLateRowsNameTheDead`. None of the properties is
  inductive alone. `FragmentsAccounted` speaks of the persisted bits of a dirty
  fragment, which a flush will take from memory: so one must know that memory is
  what the connection sees (`MemoryIsView`), where that differs from the
  committed rows (`TouchedInv`: only at edges the open transaction touched), and
  what holds without a flush (`PersistedInv`). A fragment that is loaded later
  starts from the persisted bits, so `MemoryIsView` in turn needs `PersistedInv`;
  and a dirty mark that is missed would break both, hence
  `CleanFragmentIsPersisted`. `UsedInv` (rows and buffers name only ids already
  taken) lets a new entity change nothing for old edges. One lemma,
  `StatementKeeps`, carries link, bulk link, unlink, purge and load.

`SeparatePartsProofs` has a section for each of six parts that share no state:

* The bus, for every set of messages, channels, agents, readers and subscribers and
  any number of upkeep requests: `BusTypeCorrect`, `BusLosesNothing`. A
  read works on copies, of the cursors it found, of its rows, of what its agent
  had seen when it began; so each conjunct of `ReadInv` says of a copy what
  `BusAccounted` says of the agent. `QueriedAreFound` is about the rows a cap
  leaves out: up to the largest number found in a channel, none is missing. A
  number may be given twice, after a purge; `Twins` says that whoever had passed
  the first owner has an excuse for the second. The numbers themselves are the
  largest of a set, and that there is one is proved by a least bound
  (`LargestIs`). `StreamInv` follows a message from its insert to its last put
  (`OnItsWay`), since a connection may replay its history in between.
* The refinement queue, for every set of candidates and of reviews:
  `RefineTypeCorrect`, `CandidatesAreAccounted`. A review replaces the file by the
  copy it has read, so what holds of the file is said of every copy (`Held`,
  `ReviewsHold`), and of the shared temporary file (`TempIsOwn`).
* The model processes, for every set of calls and any number of clients, deaths and
  timeouts: `WorkerTypeCorrect`, `WorkersAreAccounted`. In a pipe is what the
  holder of the lock still expects and nothing else (`ServesOne`), because who
  gives up ends the process and its pipe. `HubsAreKnown` and `DaemonsAreKnown`
  follow a client through the moments in which it is in no table: evicted and not
  yet forgotten, dropped and not yet closed, replaced and not yet retired.
* Vectors, for every set of rows and of partitions and any number of writes,
  failures and kills: `VectorTypeCorrect`, `FreshRowsAreCurrent`,
  `OrphansAreExplained`, and both as `VectorsAreAccounted`. An embed
  stores what it took long ago, and a rollback brings back rows as they were and
  leaves the vectors. So `TextTaken` says that where the clock an embed saw is
  still the row's, so is the text it took; and everything is said twice, of the
  table the writer sees (`ViewInv`) and of the one a rollback restores
  (`SavedInv`). `BereftInv` is the converse for rows without a vector: a purge is
  under way there, or was undone. `EmbedInv` says that while vectors are stored,
  under the lock, the batch's rows are as its first phase saw them.

* The rotation slots, for every set of ids, of keys and of slots to begin with,
  and any number of merges and failures: `SlotsTypeCorrect`, `MergeKeepsBothSlots`, `InstallLosesNothing`. That a merge
  is a union is a fact about the operators, `MergeMakesUnion`, and needs only
  that both slots are catalogs. It rests on `KeyHome`: a key that shares no id
  has one id h in the merge, and the remaps send to h the ids of that key *and no
  other*. The second half is what texts and links need, and it is proved by
  cases: the key is in one slot, has one id in both, or loses in A or in B.
  The rest follows the files through the op: from `ReplaceA` on A holds
  everything (`CoverInv`), whatever B is; the marker may still name B, but then B
  is the file of before, torn, or a copy of A (`FilesInv`); and what facts.log
  lacks is in A only (`LogInv`), which is what a kill adds to `owed`. `KnownInv`
  lets a new key change nothing for old ones.
* The error log, for every set of hooks, owners, SessionStarts and old rows, any
  `MaxLog` and any number of faults: `ErrorTypeCorrect`, `ErrorsAreAccounted`.
  The property adds up the entries of a log that is cut in the middle. A sum is
  defined as the number of a function's units (`Tally`), so two sums are equal
  when their units pair off (`TallyMoves`), and what a sequence in two parts comes
  to needs no induction (`TallyOfTwo`, `TotalOfHalves`). What a halving leaves weighs
  what it removed, for the log and for each owner (`KeptIs`), because an owner's
  mark is always in the past (`TimesInv`). `OwnersInv` then says
  where the rows are that an owner was not told of: counted to it, carried by one
  of its runs, or weighing in the log above its mark. A start splits the last into
  rows that wait and rows dropped (`UnseenSplits`) and takes both. `EntriesInv`
  ties each entry to the hook that wrote it, and `MovesInv` and `EndedInv` are what
  `LegacyMovesOnce` and `EndedAreShownOnce` need besides.

The assumptions are those named in the modules, and TLC evaluates each on the
instances: bounds are numbers, and those of a queue, a batch, a grace are not 0;
values that stand for nobody or nothing (`NoOwner`, `NoCall`, `NoVector`, `Unset`
and their like) are none of the things they stand beside; ops and ingests, and
readers and snapshot threads, are different threads; the home partition is a
partition; a row has a partition, a message a channel, a reader an agent; edges join
entities; ids are numbers and the slots to begin with are catalogs, missing or
torn; messages, processes, hooks, SessionStarts and old rows are finitely many; an
old row is not a hook's.

Only model-checked:

* All liveness (`NoStarvation`, `OpsAreServed`, `RequestedWritesReachReaders`,
  `FlushesEnd`, `QueueDrains`, `BitsCatchUp`, `ServedAgain`): fairness and
  ENABLED are beyond this prover.
* `QueriesMeanTheirGrammar` beyond `AnswersAreDerived`: that a query has no second
  meaning, and one that is refused none. `Meaning` is recursive over the length of a
  phrase, and both are inductions over it.

The induction theorems of the library take an operator as a parameter, which the
installed provers cannot instantiate; the few inductions here go by the least
counterexample instead, from `WFMin` and `NatLessThanWellFounded`.

One thing about the prover has to be known to trust the proofs. In the SMT
encoding of tlapm 1.4.5 every value has a length: `Len(s) = n` is taken to be
equivalent to `DOMAIN s = 1..n`, for any s. That is true of sequences only; a
function over `0..n` beside it gives a contradiction. The proofs that use
lengths (`FairLockProofs`, `LearnQueueProofs`, `PartitionBindingProofs`,
`SeparatePartsProofs` and the query language) therefore have no such function,
and their obligations were put to Z3 a second time with the implication
that holds of all values. Nearly all are proved that way too; for the few that are
not (taking a ticket out of the middle of a queue, and six about streams and logs)
Z3 does not refute the hypotheses either.

## 6. Where the code and its own words disagree

Four runs are expected to find a violation; `PROJECT.json` quotes the lines.

1. *A sync writes into the wrong partition.* `_partition_keeping_yield` restores
   an ingest's binding when it comes back but leaves it in place while it is
   away; ops that bind nothing then write under it.
2. *The watcher asks for no snapshot*, so a saved file can stay invisible to
   readers until some other write.
3. *A cancelled flush commits files as tracked whose facts it has not
   extracted*; the next sync takes them for unchanged. (The run has documents only,
   so that no other cause is in it.)
4. *A rollback leaves the bitmaps as they are*: rows go back, the fragments in
   memory and their dirty marks do not, and the next flush writes bits whose
   rows were never committed.

Met by reading, and within the behaviours of the models, without a run of their own:

* A restart does not drain `dirty.queue`, though the CLI says so
  (`cli.py:8690`): `Restart` of `SyncQueue` leaves the queue to the next flush.
* A flush without `semantic`, the default and what the hooks send, purges a changed
  `.py` file with the facts of the last ingest, marks it as tracked (`sync.py:241-244`)
  and commits without new ones (`sync.py:314`), nothing cancelled. To the next sync
  it is unchanged, even to one with `--semantic` ("Re-run Python semantic enrichment
  for touched files", `cli.py:8603`), although "the previous ingest's output is still
  current" (`sync.py:215`). These are the files in `plain`; `FactsAreAccounted` says
  that they and those of a cancelled flush are the only ones.
* A drain of the learn queue does not survive a restart: the rotated file is
  deleted before its entries are applied (`learn_queue.py:140`).
* "launchd retries in 10 s" (`daemon.py:1734`) is said of an exit with status 0,
  which launchd's rule does not restart. In `DaemonLifecycle` it is the hub
  that makes it good.
* "Never a kill from this path" (`daemon.py:1317`): the SIGTERM that is sent
  instead ends a daemon that is still booting, since the handlers are installed
  after the bind (`daemon.py:1982`).
* The reap does not look at `shutdown.started`: a daemon that drains stops
  beating, and a newcomer kills it three seconds after it went stale. This is
  the one case that `WorkIsNotKilled` leaves out.
* The sequence of the bus is called monotonic (`bus.py:34`); a number is reused
  after a purge of the newest row, and a cursor may then hide its new owner.
* A read with `n = 0` answers nothing and marks all as read; cursors are
  committed before the answer is sent.
* Nothing locks the refinement file, and rejecting ignores the status of a line,
  so a line that was accepted can be rejected.
* `retag_memory` and `reclassify_memories` (`store.py:2912`, `2952`) change what
  is embedded and move only the sidecar's time, not `entities.updated_at`, which
  is the one `add_memory` says the embedding looks at (`store.py:2464`). The row
  keeps its old vector: these are the `reworded` rows.
* A purge inside a transaction that is rolled back, or cut after it dropped the
  vectors, leaves rows stamped without one; only `rmx embed --gc` finds them.
* A purge by ids looks for the vectors in the dataset of the bound partition
  (`store.py:3711`), although ids are "global; partition-agnostic"
  (`daemon.py:5268`).
* `rmx embed --rebuild` passes the flag with its first batch only
  (`cli.py:11006`), although its help says that every row is embedded again.
* `purge_entity` untracks the file by a subselect on the entity's row after it
  has deleted that row (`store.py:6075`, `6082`), so nothing is untracked.
* The watermark of pointer errors is a time, and a row's time is taken before the
  lock (`stm.py:570`): a row that waited for the lock while its owner was told
  of others is never told, although a SessionStart shows "rows added since that
  owner's last surfacing" (`stm.py:718`). These are the `late` rows.
* The watermark moves before anything is printed, so a SessionStart hook that is
  killed in between leaves its rows to the reports only (`muted`).

* The merge of the slots is said to "Build the union of all rows across both slots"
  (`replica_merge.py:10`), and `REMAP_HEADROOM` (`replica_merge.py:44`) speaks of
  fresh ids for a loser whose id is taken; none is allocated. Where one id names
  two keys, the newer row overwrites the other whole, and the other's links and
  text hang on it. These are the `Unclean` keys; the audit counts them
  (`replica_merge.py:541`).
* The merge is installed "atomically ... on both slots" (`daemon.py:5622`), but
  the second file is copied onto in place. A kill during the copy while the
  marker names B leaves a marked slot that no boot opens, though A is whole.
  `MergeLeavesABoot` says that there is no other such case.
* A merge killed before facts.log was compacted leaves a log without the merged
  rows; a rebuild from it before the next compaction would lose them (`owed`).

* "One set of model workers for the whole fleet" (`modelsrv.py:1`): a handler that
  holds the hub's client over its eviction or drop starts a process that the
  table does not know, and the next request a second one. `retire` was made for
  this in the daemon (ch-bsd r12, `subproc.py:345`); the hub closes only. These
  are the `strays`.
* "a daemon exit never strands a child" (`daemon.py:1170`): `_close_workers` is the
  first step of the shutdown, and an operation still in flight may make a client
  after it. Its process ends with the daemon's pipes.
* "Bound the wait" (`subproc.py:385`): `TimeoutError` is an `OSError`, so `call`
  catches its own timeout, starts a new process and waits the whole time again;
  the socket client has a clause against that (`modelsrv.py:166`).

* `_open_write` looks the file up twice, in the sweep of stale holders
  (`backend.py:281`) and for `before` (331). A file replaced between the two leaves
  open a write connection that was current at the sweep; the connect shares its
  database, the old one, and is listed under the new inode, so that no later open
  takes it for stale, although "The inode is checked before AND after connecting"
  (`backend.py:65`). These connections are the ones `beside` another; the daemon
  closes its own first, so it needs another holder of the path in the process.
* `_drop_handle` is a weakref finalizer and takes `_HOLDERS_LOCK` (`backend.py:206`),
  which is not reentrant: were the garbage collector to end a handle in the middle
  of a critical section of that lock, the thread would wait for itself. The model
  has a hold of the lock as one step, so this is by reading only.

`RestoredAfterLoneJob` is stated for one ingest because it does not hold for two
that overlap through their yields: the last to leave restores the other's
binding (`store.py:2003`). No property covers that case; it is within the
behaviours of `PartitionBinding`, and what a wrong binding does to ops that bind
nothing is the first disagreement above.

## 7. Not modelled

* Lock-free and numeric code: ranking, the embedding model itself, nearest-neighbour search, reranking, telemetry.
* Offline, single-process commands: migration (of the bus's old JSONL files
  too), upgrade.
* Parsers of source and documents, formatting, the UI, argument handling. Of the
  query module: the tokenizer, PQL, `topn`, `co_occurrence`, the fusion of ranked
  lists; full-text search and recall.
* Session pointers, event rings, focus graphs, consolidation.
* In `SnapshotTier`: `partition_drop`, bounded waits for the writer, SQLite
  (which takes no snapshots). In `SyncQueue`: the GMD route, ignored or deleted
  files, the call graph (`_ingest_tldr`), code other than Python (no facts), and the in-process flush used when no daemon is installed. In `WriterStore`:
  facts.log and the rebuild from it, rename and merge of partitions, Lance
  deletes, the SQLite backend, two threads in the Store at once at a
  shutdown that did not get the lock (`daemon.py:2187`). In
  `LearnQueue`: malformed lines. In `EventBus`: wildcard patterns (a stream has
  one channel), counts and overviews. In `RefineQueue`: torn lines. In `RotationSlots`: linkage types, tracked files and saved queries of
  a merge, the first migration to slots, a failed reopen at boot. In
  `VectorStore`: the loop of the command and of the tick around the op, merges
  of partitions. In
  `DaemonLifecycle`: paused roots and the manual policy, a root without an agent
  (spawned instead of kicked), the foreground start without a supervisor, the
  boot's repairs, the arithmetic of the drain's stages, a boot that hangs.

## 8. Plan

Every safety property that a run checks is a theorem, but for the half of
`QueriesMeanTheirGrammar` named above. What is left:

1. The debouncer of `watch.py`, composed with `SnapshotTier`.
2. PQL, as a second reading of the same rows beside `QueryDsl`.
3. The rebuild of a Store from facts.log, composed with `RotationSlots`.
