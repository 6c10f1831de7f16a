# A TLA+ model of ivm-engine

ivm-engine maintains materialized views incrementally over change batches from
Kafka or from the Postgres WAL, and checkpoints them to Parquet files. This
directory holds TLA+ modules translated from its Rust code, the TLC runs that
check them on small instances, and theorems about them checked by TLAPS.

Paths such as `runtime/src/scheduler.rs` are relative to `src/crates/`.

## 1. Inventory

| Component | Code | State | Operations |
|---|---|---|---|
| Scheduler, Kafka loop | `runtime/src/scheduler.rs` | running flag, local `paused`, the batch in flight | `start`, `run_kafka_loop`, `process_batch`, `stop` |
| Kafka connector | `connectors/kafka_cdc/src` | consumer position, assignment, paused partitions | `poll_batch`, `pause_partitions`, `resume_partitions`, `commit_offsets` |
| Scheduler, Postgres loop | `runtime/src/scheduler.rs` | running flag, pending delta | `start` with the bootstrap, `run_pg_loop`, `process_batch`, `stop` |
| Postgres streaming connector | `connectors/pg_wal/src/stream_connector.rs`, `streaming.rs` | a spawned producer, its client, the bounded channel, `confirmed_lsn` | `new`, `stream_events`, `acknowledge_lsn` |
| Snapshot bootstrap | `connectors/snapshot/src` | the replication slot | `create_slot_or_get_existing_lsn`, `copy_table_snapshot` |
| Checkpoint directory | `runtime/src/checkpoint.rs`, `formats/parquet/src` | final and `.tmp` files, `last_epoch` | `restore`, `save`, `save_tmp`, `confirm`, `cleanup_uncommitted`, `should_checkpoint` |
| Control plane | `api/src/handlers.rs`, `state.rs` | the pipeline map, status, the gauge, spawned tasks | create, start, stop, delete (list, get and health read only) |
| Pipeline | `runtime/src/pipeline.rs` | accumulated Z-set, aggregate state, join state | `new`, `apply_batch`, `apply_join_delta` |
| Planner | `planner/src` | none but the aggregate state it is handed | `plan_select`, `execute` |
| Operators and Z-sets | `operators/src`, `core/src` | aggregate totals, join histories | `filter`, `map`, aggregate, joins, `insert`, `merge` |
| Windowed aggregate, union | `operators/src/aggregate.rs`, `union.rs` | pending rows, watermark, the inner aggregate | `apply_batch`, `union` |
| Message decoding | `kafka_cdc/src/lib.rs`, `pg_wal/src/lib.rs`, `streaming.rs` | none | `apply_cdc_payload`, `parse_wal_data`, `events_to_zset`, `apply_wal_change` |
| Polling | `kafka_impl.rs`, `pg_wal/src/lib.rs`, `stream_connector.rs` | position, slot | `poll_batch` with delta and watermark |
| SQL endpoint | `api/src/sql_handlers.rs` | none | `sql_execute` |
| Avro and its schema registry | `formats/avro/src` | the cache of schemas | `decode_with_registry`, `decode_confluent`, `fetch_schema` |
| Others | Delta Lake, Protobuf, other metrics, deployment | | see section 9 |

**How they interact.** The control plane spawns one task per start; the task
runs `PipelineScheduler::start`. It shares with the handlers the running flag
(an `RwLock<bool>`) and nothing else. A Kafka task is sequential: it polls,
applies, and every so many epochs checkpoints in two phases around the commit
of the group's offsets (write `.tmp`, commit, rename). A Postgres task is two
tasks: a producer reads the slot and sends events through a bounded channel,
the scheduler gathers them by transaction and applies them on the commit event.
The connectors turn messages into deltas, the pipeline turns each delta into a
delta of the view. The SQL endpoint runs the same planner on the rows of a
request. The windowed aggregate, union and the Avro decoder are library parts no
pipeline configuration reaches; the tasks that share a registry client share its
cache.

**What is hard.** Crashes between any two steps of a checkpoint; replay after a
restart, from a position that must agree with the restored view; errors that end
a task while its flag and status say it runs; a producer that outlives its
stream; a stop that overtakes a start; a rebalance, or a pause that failed, behind
the back of a loop that keeps its own flag; tasks that share a directory; epochs
that are offsets of different partitions, or LSNs read as numbers; aggregates that
must retract exactly what they emitted; rows that wait for a watermark; a cache
filled while a task waits. `PROJECT.json` lists each hazard at its line with the
properties that would catch it, or why none does.

**What makes the components correct.**

- *Checkpoint directory*: a file under a final name is complete (on the
  two-phase path); at most one orphan `.tmp`; what a restart reads only grows.
- *Kafka pipeline*: no message is applied twice; none the consumer passed is
  missing; committed offsets and checkpoints agree; every message gets in
  eventually; backpressure bounds the view.
- *Postgres pipeline*: the view changes by whole transactions; nothing from the
  WAL is applied twice; the handoff from the table copy leaves no gap; what a
  restart reads only grows.
- *Control plane*: the gauge agrees with the statuses; a running pipeline is
  enabled; a stop ends the tasks; a deleted pipeline stays down; a task that is
  alone in its directory confirms its own checkpoints.
- *Views*: the incrementally kept view equals the definition of the view on all
  that was received.
- *Feeds*: the deltas polled add up to a state the table was in, however the
  stream is cut; a window's count is published once it is closed, and is right.
- *SQL endpoint*: the answer is the query's answer on whole tables.
- *Schema registry*: a payload is decoded with the schema it was written with.

## 2. Modules

| Module | Models | Built on |
|---|---|---|
| `CheckpointManager` | the directory and the manager's methods as operators: pieces of actions | |
| `RecoverableView` | abstract specification: a view, its durable copy, recovery | |
| `KafkaPipeline` | scheduler, Kafka loop, connector; the broker is external | `CheckpointManager`, implements `RecoverableView` |
| `Lsn` | the conversions between positions, epochs and text | |
| `PgPipeline` | scheduler, bootstrap, producer, channel; Postgres is external | `CheckpointManager`, `Lsn`, implements `RecoverableView` |
| `ControlPlane` | handlers and spawned tasks | |
| `ZSet`, `Operators` | the data and the operators, as pure definitions | |
| `Planner` | `plan_select` and `execute`, as pure definitions | `Operators` |
| `ViewMaintenance` | the pipeline on batches, checkpoint and restart of the view | `Planner` |
| `SqlEndpoint` | `sql_execute` | `Planner` |
| `Decoding` | Debezium, JSON and pgoutput messages to deltas, as pure definitions | `Operators` |
| `ChangeFeed` | a table, its feed, and `poll_batch`; the table and writers are external | `Decoding` |
| `WindowedFeed` | the windowed aggregate over the union of a feed and other rows | `ChangeFeed` |
| `SchemaRegistry` | tasks that decode Avro payloads, the shared cache; the registry is external | |
| `MC...` | instances for TLC; `MCDataPath` joins those that work on data | |
| `...Proofs` | theorems about the module named, and lemmas about `CheckpointManager` | |
| `ZSetProofs` | theorems about `ZSet` and `Operators`: what inserting, merging, filtering, joining and aggregating compute | |
| `ViewMaintenanceProofs` | theorems about both users of the planner, `ViewMaintenance` and `SqlEndpoint` | `ZSetProofs` |
| `WindowedFeedProofs` | theorems about `WindowedFeed` and the `ChangeFeed` it extends | `ZSetProofs` |

A definition named like another with a suffix (`CommitNothing` beside
`CommitPhase`, `RestoreKeepsView` beside `Restore`) is a broken variant: it is
used by no specification, only to see that a property notices the difference.
`PROJECT.json` pairs each with the property it breaks.

### CheckpointManager

`final` and `tmp` map epochs to contents: a view, `NoFile`, or `Torn` for a
write that did not finish. `Durable` is what `latest_checkpoint` and
`restore_zset_checkpoint` would return. `save` writes in place, `save_tmp`
writes `.tmp`, `confirm` renames; writes have an interrupted form, and so do
`cleanup_uncommitted`, which stops at the first file it cannot remove, and
`restore`, which may have set `last_epoch` when it fails. The Arrow
encoding is abstracted to the view it round-trips; the connector state stored in
the metadata is never read back.

### KafkaPipeline

`pc` names the await that the scheduler's task executes next:

    idle -> cleanup -> restore -> connect -> loop -> poll -> apply
                                              ^       |        |
                                              +-------+        v
                                              +-- confirm <- commit <- save

A view counts for each message how often it has been applied. That tells apart
what replay and loss can do, and `Rows` derives from it the size of the Z-set
that backpressure looks at: a message may insert a row, delete the row of another
(`Removal`), do both (`Updates`), or have no effect (`Malformed`). An update is
one message with two row changes, and a row whose delete came first is kept with
a negative weight, so a message may add two rows to the view.

| Action | Code |
|---|---|
| `Start`, `Stop` | the handlers, as far as one scheduler sees them |
| `Cleanup`, `Restore`, `Connect` | `start` up to the loop; a restore without a file leaves the view as it is |
| `Join`, `Revoke` | the group assigns partitions, unpaused, and may take them away again, which the consumer learns when polled (before `PollMessages`; position and pauses are gone, the loop's view and flag stay) |
| `Backpressure` | the watermark test. `PauseRequest` and `ResumeRequest` act on the assignment of the moment; `PauseFails` and `ResumeFails` change the flag only, as the loop discards the error |
| `PollMessages`, `PollNothing`, `PollFails` | `poll_batch`: the epoch is the offset of the message read last, an error drops what was read |
| `Apply` | `process_batch` up to `should_checkpoint` |
| `SavePhase`, `CommitPhase`, `ConfirmPhase` | the two-phase checkpoint |
| other `...Fails` | each call that returns an error, from `CleanupFails` and `RestoreFails` on: the task ends, the flag stays up |
| `Crash` | the process dies, a write in progress is torn; called "window" between the offset commit and the rename |

`Start` requires the previous task to have ended. Overlapping tasks of one
pipeline, which a quick stop and start can produce, are in `ControlPlane`.

### PgPipeline

The scheduler's `pc` is as above with `slot`, `copy` and `save0` for the
bootstrap and `ack` for the acknowledgement of every commit event. The producer
has its own state (`prod`, `link`, `buf`). `pg_logical_slot_get_changes`
consumes what it returns (`ProdPoll` moves `slot`). A producer whose channel has
been dropped becomes an orphan: it polls once more and consumes what nobody
receives (`OrphanPoll`); what an orphan does before that poll changes nothing.
`LinkBreaks` and `ProdConnectFails` give their error to a send that is never
awaited. `TxnEpoch` is what the decoder makes of a commit event, in three
formats (`CommitFormat`): JSON with `nextlsn` (`EpochOfNextLsn`), JSON without it
(0), and the message of pgoutput, the plugin the connectors create their slot
with, whose position is read one byte early (`EpochOfCommitMessage`).
`AcknowledgeLsn` goes through `AckTarget`, with the decimal text read as
hexadecimal.

Postgres is modelled by how the code uses it: committed transactions come out
whole and in order (`TxnEnd` gives the number of events up to each commit,
`Event(i)` the i-th event, `Events(from, to)` those of several transactions),
`pg_replication_slot_advance` refuses a position behind the
slot and stops at the end of the WAL, and may fail for other reasons (the fault
"ack"). What an event
does to a row is the business of `Decoding`.

### ControlPlane

Each handler holds the write lock of the map, so it is one action.
`StartPipeline` releases the lock and spawns: the task is "spawned" until
`SetRunning`, the first statement of `start`. Schedulers are numbered, because a
pipeline deleted and created again has a new scheduler and the old directory.
Of the loop only what concerns the other tasks is kept: the flag test and the
`.tmp` files. A file is named by directory and epoch (`TmpOf`); `tmp` has the task
that wrote it last, `pending` the epoch a task is about to confirm. So a save
replaces the file another task of the directory saved at the same epoch, and
`Confirm` renames what it finds under the name, or fails when there is nothing.

### Planner, ViewMaintenance and SqlEndpoint

A SELECT is the syntax tree the sqlparser crate makes of its text. `PlanSelect`
builds the nodes of the plan as `plan_select` does, `Plannable` says which
statements are rejected, `Execute` runs the nodes on Z-sets and computes the
first aggregate only. Parts of a statement the planner never looks at (HAVING,
ORDER BY, LIMIT, a second table in FROM) are no part of the tree.

In `ViewMaintenance` the configuration is a variable chosen in `Init`: source,
SELECT, list of operators. `ApplyBatch` is `apply_batch` on any batch a source
may send and any order of its rows (an `IndexMap` has insertion order). `Save`,
`Restart`, `Reload` and `Bootstrap` are what the scheduler does to the view, with
`Records` and `ReadRecords` for the records of a parquet file; here a source
resumes exactly where the checkpoint was taken, the pipelines above say how far
that is true. `ApplyJoinDelta` is the public `apply_join_delta`, whose output
goes to its caller.

`SqlEndpoint` has one action, a request: lists of rows become Z-sets, the plan
runs on them, and the weights of the output are dropped.

### Decoding, ChangeFeed and WindowedFeed

`Decoding` translates the decoders: JSON is the value it stands for, a pgoutput
message a sequence of bytes and length-prefixed fields, so that a parser that
starts at the wrong byte reads the wrong thing. `ChangeFeed` has a table that
changes (`Change`), the messages its writers make of each change, messages that
are no changes (`NoiseArrives`), and `Poll`, which adds the delta of the first
messages of the stream to a copy. A Kafka poll ends anywhere, a slot gives whole
transactions. `WindowedFeed` hands each batch, united with rows of a second
input, to the windowed aggregate: `pending` is a bag, as rows that wait are kept
one by one, and `ApplyWindow` moves the watermark and flushes what is due.

### SchemaRegistry

`DecodeWithRegistry` is a call up to its first await: an answer from the cache,
or a request. `SchemaById` and `FetchSchema` are the answers of the registry,
`RequestFails` its silence; in between other tasks go on and `Register` adds
schemas. A payload without a frame that begins with a zero byte is taken for a
framed one, with whatever id its next bytes make.

## 3. Runs

| Run | Question | Bounds |
|---|---|---|
| `KafkaFaults` | Is the directory in order, behind the commits and growing; is nothing applied twice; does a halt last and bound the view; is `RecoverableView` implemented? | 2 partitions of 3 messages, polls of 2, every fault but "stop" and "rebalance", 4 faults, both watermarks 1 |
| `KafkaLiveness` | Do commits and checkpoints agree, is nothing skipped, does everything get in? | 2 partitions of 3 messages, one of them malformed, crashes outside the window, stops and rebalances, 3 faults |
| `PgFaults` | Whole transactions, no replay, no gap, growing checkpoints, `RecoverableView`? | 3 transactions of 2, 0 and 1 changes, polls of 2, channel of 2, eleven kinds of faults, 3 of them; JSON commits with positions; an interval the third transaction just reaches |
| `PgLiveness` | Does the stream recover from failed connection attempts? | as above with commits without a position, 2 failed attempts |
| `ControlPlane` | Gauge, flags, statuses, files, deletion, stop | 2 names, 2 schedulers, 3 tasks that may fail anywhere, 1 epoch |
| `DataPath` | Does each view equal its definition, each copy its table, each answer its query, each record what was written? | see below |
| `KafkaCrashWindow` | violated: at-least-once across a crash after the commit | 1 partition, 1 crash |
| `PgCrashLoses` | violated: at-least-once across a crash | 2 transactions, commits as pgoutput sends them, 1 crash |
| `PgReconnect` | violated: a broken connection is replaced | 2 transactions, 1 break |
| `LostStop` | violated: a stop takes effect | 1 pipeline, 1 task, no failure |
| `ViewRestart` | violated: an aggregate view survives a restart | 1 configuration, weight 1 |
| `PgOutputUpdates` | violated: pgoutput messages are parsed | the pgoutput feed with updates, 3 changes |

`DataPath` has four parts that share no state; in every behaviour one of them
runs and the others stay where they began.

- *view*: nine configurations (SQL with SUM, COUNT with and without GROUP BY,
  columns, a JOIN; lists with a filter and a count, a sum in the place of an SQL
  text that is not planned, a join; a table copied from Postgres), rows of weight
  up to 2, batches of up to 2 rows in every order, at any time a checkpoint, a
  restart or a reload where the configuration has them.
- *feed*: the formats Debezium, JSON object, JSON array and pgoutput (inserts and
  deletes: section 8 says why), 4 changes, polls of up to 2 messages, lateness,
  disorder and window 1, a second input of one row that comes and goes.
- *endpoint*: seven queries of every shape, up to 2 orders, some taken back, and
  up to 2 customers. Nothing is kept, so one request is enough.
- *registry*: 2 tasks, 3 schemas, of which a subject gets 2, two of them with the
  same fields in another order.

**Why the bounds are enough for the cases of interest.** Two partitions are the
least for which epochs are not monotone and a commit covers another partition's
offsets. Three messages with an interval of 1 give two checkpoints (an epoch 0
is never checkpointed), so that "newest" means something; three faults allow a
crash during the recovery from another one, a fourth a failed pause besides. Every
message is an update that takes back the row of its counterpart in the other
partition, so the view shrinks as well as grows around the watermark, and rows
are deleted before they are inserted. The Postgres transactions include one with several changes that does
not fit the channel together with its commit, and an empty one, whose commit
event is acknowledged without a batch. Two schedulers and three tasks give a
pipeline deleted and created anew, with a task of the old scheduler and two of
the new. With one epoch every two checkpoints of a directory share a file, the
case in which tasks get at each other's files in all three ways. Amounts -1, 1 and 2 make totals that cancel, and two rows of one group
in a batch make the order matter; columns that are missing, Null, a text or a
number that is no i64 make rows meet that should not. A table of two keys and
four changes has a row inserted, updated and deleted while the other waits for
its window. Two tasks and two schemas let one wait for a schema while the other
fills the cache and the subject moves on.

`HalfDigits` is 2 in the runs: halves of 8 bits keep positions small. All
positions are below the first boundary of the halves; section 8 says what
happens at the boundary.

Deadlock is not checked where a bounded run ends: all messages produced and
applied, the faults used up, every task spent, the last change polled, the
request answered.

**Safety properties and which fault would break them.**

- `CheckpointBehindCommit`: a promoted file holds only messages below the
  committed offset. This is the order `confirm()` demands of its callers; without
  it the broker replays messages a restored view contains.
- `CommittedIsDurable`: the converse, outside the one step between commit and
  rename.
- `AtMostOnce`, `WalAppliedAtMostOnce`: the consequence of the former, and of
  the consuming read of the slot.
- `NothingSkipped`: every message the consumer moved past is in the view.
- `DurableGrows`: files are ordered by the offset of the last message of a batch
  whatever its partition. Because `should_checkpoint` uses a saturating
  difference an older epoch never qualifies, and the greatest name is the newest.
- `OneOrphan`: the `.tmp` files one task after another leaves.
- `SavedFileIsOwn`: the `.tmp` file a task will rename is the one it wrote, from
  the save to the rename, while no other task of its directory is up. A cleanup
  that goes beyond its directory breaks it, and so would a task that touches files
  once it has ended. Two tasks that are up together do break into
  each other's files (section 8).
- `HaltIsForLife`: nothing inside a task resumes a consumer that was really
  halted, because the view it waits for shrinks only by what it would deliver. A
  rebalance does; TLC checks it without, the theorem with rebalances.
- `BackpressureBoundsView`: two rows for each message of one poll beyond the high
  watermark, in runs whose pauses all take effect and last: the flag never says
  "paused" of a consumer that delivers. The ways in which it does (a failed pause, a
  pause before the assignment, a rebalance) are in the model, and in section 8.
- `TransactionAtomicity`: across polls, reconnects, restarts and torn writes.
- `HandoffLeavesNoGap`: the slot is no later than the copy, and the copy is in
  the view of every task that reads the slot.
- `RunningIsEnabled`, `DeletedStaysDown`, `StopDrains`: status, flag and tasks
  under all interleavings with the first statement of `start`.
- `AggregateViewExact`, `SelectedViewExact`, `JoinIsMaintained`,
  `NoRowOfWeightZero`: the view against its definition.
- `CopyIsPastTable`: after every poll the sum of the deltas is a state the table
  was in. A decoder that forgets an old row, reads a column twice or takes a
  tombstone for a change breaks it after a few changes.
- `WindowedViewExact`, `PendingIsOpen`: each row is counted once, when its window
  has closed and not before, whether it waited, came late, was changed after its
  window closed, or came from the input without a watermark; nothing due is left.
- `NothingArrivesLate`: the allowed lateness really allows for that much
  disorder, wherever polls cut the stream.
- `AnswerIsQuery`: the answer against the query's meaning on whole tables,
  although weights are dropped at the end.
- `DecodedAsWritten`: the cache and the wait for the registry never give a framed
  payload the schema of another id.

## 4. The abstract specification

`RecoverableView` is what both pipelines promise, whatever their source: a view
only grows while the pipeline is live; a durable copy is a view the live
pipeline really had; recovery starts from the durable copy, or from the view in
memory when nothing was ever saved; a source may fill the view before the first
copy; the first copy alone may be torn. The refinement mapping takes `live` to
"past the restore (and the bootstrap)", `view` to the counts and `durable` to
`Durable`. A restart that does not restore, a batch that replaces the view
instead of adding to it, or a checkpoint that is not the current view breaks it.

## 5. Fairness

- The scheduler's task and the producer are tokio tasks on a multi-threaded
  runtime: weak fairness on each. No fairness for requests, faults or messages.
- The broker assigns partitions eventually (weak, `Join`). A poll may time out
  any number of times although messages are there, but not forever: strong
  fairness on `PollMessages`.
- An operator starts a pipeline whose flag is down again (weak, `Start`). A task
  that ended with an *error* leaves its flag and status at running, and nothing
  starts it again until somebody stops it: the liveness runs therefore have
  crashes, stops, rebalances and failing dials, but no error that ends a task.
- `StopDrains` and `StopTakesEffect` need only fairness of the tasks.

## 6. What is proved

Every theorem holds for all values of the constants that satisfy the modules'
`ASSUME`s, which every run evaluates; what a theorem assumes beyond them is said
below. Where the property is not inductive the strengthening is named.

**`CheckpointManagerProofs`.** `WrittenCopy`: a file written under a final name
is what a restart reads next, unless a newer one was there. It rests on
`HasLatest`, that a directory with files has a newest one, without which the
`CHOOSE` in `LatestEpoch` means nothing; both pipelines keep it.

**`KafkaPipelineProofs`**, for any number of partitions and messages, any
interval, watermarks and poll size:

- `TypeCorrect`: `TypeOK` is not inductive: `confirm` makes a `.tmp` file final,
  and `.tmp` files may be torn. `TypeInv` adds that the file about to be renamed
  holds the view (`SavedView`), and `HasLatest`.
- `CheckpointNotReplayed` (`CheckpointBehindCommit`) and `NoDuplicates`
  (`AtMostOnce`), from `ReplayInv`: a task starts from an empty view
  (`FreshStart`); the view lies behind the consumer's position, or behind the
  committed offsets while it has no assignment (`ViewBehindConsumer`); the
  committed offsets are not ahead of the position, and equal to it at the rename
  (`CommitBehindConsumer`); the batch in flight is new to the view
  (`BatchIsNew`); a promoted file counts every message at most once
  (`FilesOnce`). The order of the three phases is what makes it inductive: at the
  rename the commit has already covered the file, which by `SavedView` is the
  view. Assumption `NoReplay`: neither "stop" nor "rebalance" is among the faults.
  With a stop and start in one process and no checkpoint, or with partitions that
  are taken away and given back, the view stays in memory while the consumer
  starts over at the committed offsets, and the property is false (section 8).
- `AtMostOneOrphan` (`OneOrphan`), from `OrphanInv`: from the cleanup of a start
  to the next `save_tmp` there is no `.tmp` file, from there to the rename only
  the current epoch's (`OneWrite`).
- `CopyGrows` (`DurableGrows`), from `GrowInv`: the view of a live pipeline covers
  the copy, so a rename never replaces it by less.
- `RefinesRecoverableView` (`ImplementsRecoverableView`), action by action.
- `CommittedDurable` (`CommittedIsDurable`) and `NothingIsSkipped`
  (`NothingSkipped`), from `LossInv`: a task's last epoch is the newest file's
  (`LastIsLatest`), the epoch about to be saved is newer (`EpochIsNewer`), the
  restored view is complete for the committed offsets (`RestoredIsComplete`).
  Assumption `NoLoss`: polls do not fail and a checkpoint that was begun is
  finished, which is the failure `KafkaCrashWindow` shows.

- `HaltedForLife` (`HaltIsForLife`), from `Stalled`: a consumer that is halted
  goes between the loop and an empty poll with a view above the high watermark.
  It holds with failing pauses and rebalances.
- `ViewIsBounded` (`BackpressureBoundsView`), from `BoundInv`, which is preserved
  by the steps before and after which a set flag means a halted consumer
  (`PausesHold`): a poll that can read begins with a view no larger than the high
  watermark, its batch touches at most two rows for each message (`TouchedBound`;
  no two messages delete the same row), and no file holds a larger view than that,
  so neither does a view restored (`CopiesAreBounded`).

**`PgPipelineProofs`**, for any number and size of transactions, any channel
capacity, poll size and budget of faults:

- `EventsAreWhole`, `EventsAreOrdered` and their lemmas: the events of a range of
  transactions are those transactions, whole and in order. A choice of the
  transaction an event belongs to exists and is unique; the former is shown by
  the cardinality of an initial segment (`InitialSegment`).
- `TypeCorrect`: as above; only the bootstrap's file may be torn under its final
  name.
- `TransactionsAreAtomic` (`TransactionAtomicity`). The strengthening, `StreamInv`,
  says what is in flight: channel and buffer together are a range of events in
  order that ends at a transaction the slot is past, and `pending` holds
  the changes of one transaction up to the event before the first one there.
- `WalIsNotReplayed` (`WalAppliedAtMostOnce`), from `OnceInv`: what is in flight
  is behind the slot and not in the view.
- `HandoffNoGap` (`HandoffLeavesNoGap`), `CopyGrows` (`DurableGrows`) and
  `RefinesRecoverableView`: `RecoverySteps` shows that every step is one of seven
  kinds (unseen, comes up, copies, bootstraps, applies, renames, dies), and each
  kind is treated once for each invariant.

**`ControlPlaneProofs`**, for any finite set of names and any number of
schedulers and tasks:

- `TypeCorrect`, `GaugeCorrect`, `RunningEnabled`: they rest on each entry owning
  its scheduler, so that a stop of one pipeline never lowers the flag of another.
- `DeletedIsDown` (`DeletedStaysDown`): a create takes a scheduler nobody owned
  before, and start and stop act on the scheduler of an existing entry, so none
  of them reaches a dead one.
- `FileIsTheTasksOwn` (`SavedFileIsOwn`) and `AloneConfirmsItsOwn`, for any set
  of epochs: tasks are bound to schedulers that have an owner (`SchedulerOwned`),
  directories never change (`DirectoriesStay`), and whatever the cleanup, the save
  or the rename of another task touches lies in another directory
  (`OthersKeepOut`). The second theorem is the first one over a whole behaviour.

**`SchemaRegistryProofs`**: `DecodedCorrect` (`DecodedAsWritten`), for any tasks
and schemas. `RegistryInv`: the cache holds under an id what the registry holds
(`CacheIsRegistry`); a task that waits for an id waits for the one its payload was
framed with (`CallsAreWritten`); ids never change what they stand for. A lemma,
`RoundTrip`, shows that a record decoded with the schema it was encoded with is
the record.

**`ZSetProofs`**, for all Z-sets, finite by the definition `IsZSet` and with
integer weights other than 0. A fold is unfolded by choosing an element at a
time; the induction over the choice is a least counterexample among the naturals
(`Upwards`, `SubsetInduction`), so no induction theorem of the library is needed.

- `MergeAdds`: `merge` adds weights and keeps a Z-set canonical.
- `JoinDeltaIsChange`: the output of a join's `apply_delta` is the difference of
  the joins of the histories before and after.
- `AggregateIsChange`: after an aggregate's `apply_delta` the total of every group
  has grown by what its rows contribute, and the output takes back the row of the
  old total and adds that of the new, in whatever order the rows are visited.
- `SumGrouped`, `SumProduct`, `ListedJoin` and the other lemmas about sums over a
  Z-set are what the view and endpoint theorems are put together from.

**`ViewMaintenanceProofs`**, for any configurations, rows and batches:

- `JoinMaintained` (`JoinIsMaintained`), from `JoinInv`: the accumulated output is
  the join of the two histories.
- `NothingStoredWithWeightZero` (`NoRowOfWeightZero`), from `ZSetInv`: everything
  kept, and everything a parquet file gives back, is a canonical Z-set.
- `SelectedViewMaintained` (`SelectedViewExact`), from `SelectedInv`: the view, and
  the view in the checkpoint, are the selection of what the source had sent by
  then. It holds for a `PlainView`: no aggregate, a SELECT that reads the table its
  pipeline is fed with (any other sees nothing: section 8), and a copied table
  that is to be shown as it is, since the copy passes no operator.
- `AggregateViewMaintained` (`AggregateViewExact`), from `AggregateInv`: the stored
  totals are those of all the rows received, and the view shows each total that is
  not 0, once. It holds for an `AggregateView`: the SELECT reads its pipeline's
  table, the aggregate is the last of the list, the source is Kafka, and nothing
  is restored from a checkpoint, which does not hold the totals (run
  `ViewRestart` shows what happens then).
- `AnswersAreQueries` (`AnswerIsQuery`), without further hypotheses, for any
  tables, any number of joins, any conditions and weights. The proof follows the
  nodes of a plan (`PlanShape`): after each node the Z-set at hand lists the
  combinations of rows it should, with the product of their weights (`Lists`),
  from which the last node makes the columns or the groups.

**`WindowedFeedProofs`**, for every table, lateness, size of polls, and windows of
at least 1:

- `ChangesAreInTime` (`NothingArrivesLate`), from `TimeInv`: no message is more
  than `Disorder` behind an earlier one (`TimesAreOrdered`), and a watermark that
  has moved lies the allowed lateness behind a message already polled
  (`WatermarkIsBehind`).
- `PendingStaysOpen` (`PendingIsOpen`) and `WindowedViewMaintained`
  (`WindowedViewExact`), from `WindowInv`: the rows that wait are those of the
  input whose window is open, as often as their weight says (`Waits`); the inner
  aggregate has the counts of all the others. Waiting rows are a queue of inserts
  and deletes, which only together make up the weight (`Queued`).
- `CopyIsAPastTable` (`CopyIsPastTable`), from `CopyInv`: for every place where a
  poll may cut the stream, the copy with what the messages up to there add is the
  table as it was when the last of them was written (`CopyRight`). It holds for a
  `Parsed` feed: not one of pgoutput with updates, which the parser misreads (run
  `PgOutputUpdates`). That a tuple is parsed to its row field by field is
  `TupleIsParsed`.

## 7. Only model-checked

- Liveness under fairness (`EventuallyComplete`, `StopDrains`) and what needs
  ENABLED: out of the prover's reach.
- What theorems exclude because it is false there: `CopyIsPastTable` for pgoutput
  with updates, `AtMostOnce` and `CheckpointBehindCommit` with stops or
  rebalances, the loss properties with failing polls or checkpoints, the bound of
  the view with pauses that fail, `SavedFileIsOwn` for overlapping tasks,
  aggregate views across a restart. The runs leave the same out, except where
  section 8 names one that shows it.

Every safety property of the passing runs, the refinements included, is stated
by a theorem.

## 8. Disagreements between the code and what is said of it

The violation runs and `findings` in `PROJECT.json` document six. Others seen
while modelling have no run of their own:

Delivery and recovery:

- `kafka_impl.rs:65`: an error of the stream makes `poll_batch` drop the
  messages it had read while the position moves on; the next commit covers them.
- `scheduler.rs:54`: stop and start of a pipeline that has not checkpointed
  applies its messages again to the view still in memory, against "exactly-once
  delivery" in the repository's README. So does a rebalance that takes partitions
  away and gives them back: messages applied but not committed are delivered to
  the same view again.
- `scheduler.rs:138`: the result of `pause()` is discarded. After a failed pause,
  one before the group's assignment (`kafka_impl.rs:88`, it pauses nothing), or a
  rebalance (partitions come unpaused), the loop has its flag set, counts the
  event, does not ask again, and the view grows on.
- `scheduler.rs:52`, `:54`: a failed cleanup or restore ends the task with its flag
  up, and the pipeline is reported as running.
- `stream_connector.rs:183`: an acknowledged position is written in decimal and
  read as hexadecimal. It can lie beyond transactions not yet read (the slot
  skips them), or behind the slot (refused, which ends the task).
- `streaming.rs:151`: the position in a pgoutput commit message is read a byte
  early: the last byte of the commit's position, then seven of the next one. As
  an acknowledgement it is no position at all (more than eight digits) or one
  behind the slot, so it is refused and the task ends at its first commit event.
  (`stream_connector.rs:144` asks for the changes as text, which Postgres does not
  give for this plugin; the model lets the messages arrive.)
- `snapshot/src/lib.rs:83`: the copy does not use the slot's snapshot, so a
  transaction committed between the two is applied twice, against the README's
  footnote on the handoff.
- `checkpoint.rs:57`: a crash while the bootstrap checkpoint is written in place
  leaves a file no later start can read.
- `streaming.rs:72`: the epoch of a position just past a boundary of the high
  half is smaller than its predecessor's, and checkpoints pause.
- `handlers.rs:121`: a task that failed is still counted as running.
- `checkpoint.rs:103`: a second task of a directory deletes the `.tmp` file the
  first is about to rename, which ends the first; `checkpoint.rs:75`: if both save
  at the same epoch there is one file, the first to confirm renames what the
  second wrote, and the second fails (`SavedFileIsOwn` says nothing else can).

Messages:

- `streaming.rs:139`: the second flag of a pgoutput update is taken for a part of
  the tuple (run `PgOutputUpdates`). The pgoutput feed of `DataPath` has inserts
  and deletes only, for which the parser is right.
- `kafka_cdc/src/lib.rs:37`: a message without `op` counts as a create, and one
  without `after` inserts a row without columns.
- `kafka_cdc/src/lib.rs:48`, `streaming.rs:60`: an update whose `before` is null
  or has the key only deletes a row that was never there and leaves the old one.
  The feeds here have full replica identity.
- `avro/src/lib.rs:140`: a payload without a frame that begins with a zero byte
  (a record whose first field is 0) is taken for a framed one.

Queries:

- `aggregate.rs:60`: a group whose sum is 0 has no row. `AggregateViewExact` and
  `AnswerIsQuery` state the view this way.
- `pipeline.rs:68`: the batch of a Postgres source is called "default"; a plan
  over any other table sees nothing, as does the one over `orders` in the
  repository's README (165-175).
- `pipeline.rs:74`: an SQL text that is not planned is dropped, and the pipeline
  runs its list of operators, possibly none.
- `pipeline.rs:140`: all aggregates of a list share the state of the first.
- `scheduler.rs:68`: the table copy enters the view without passing the
  operators or the plan.
- `executor.rs:96`: the JOIN of a plan keeps no history, and in a pipeline it
  gets the batches of a single table.
- `executor.rs:76`: MIN and MAX are computed as COUNT, only the first aggregate of
  a SELECT is computed. `parser.rs:62`: without GROUP BY a call with an alias
  does not make the query an aggregate, but the projection to a column of that
  name. HAVING, ORDER BY, LIMIT and further tables of FROM are not looked at.
- `parser.rs:147`: the columns of an ON are taken in the order they are written:
  `ON customers.id = orders.customer_id` looks for each on the wrong side.
- `sql_handlers.rs:115`: the answer drops the weights of its rows, so duplicates
  are shown once. `AnswerIsQuery` compares sets of rows.

## 9. Not modelled

- `sql_plan` and the display of plans: layout.
- Protobuf: a pure encoding without state, used by no pipeline.
- The Delta Lake connector: a skeleton no configuration reaches.
- `ConnectorState`, written into the metadata of checkpoints and never used, and
  `read_arbitrary_parquet_as_rows`, called by nothing.
- The set-up of slot and publication by the poll-mode connector, which no
  pipeline drives; its `poll_batch` is in `ChangeFeed`.
- The text of SQL statements, which the sqlparser crate turns into a tree; a
  SELECT without FROM, `GROUP BY ALL`, and statements that are no SELECT.
- Commit times and relation names of WAL events, which nothing uses.
- A rebalance in the middle of a poll: `Revoke` comes before or after one. A pause
  that fails for some partitions and takes effect for others.
- The texts of values: a filter lets pass what is printed like its value
  (`pipeline.rs:129`), the configurations list those values (`op.values`, "2" and
  2).
- Stop and start of a pipeline without a checkpoint in `ViewMaintenance`
  (`Reload` requires one): what it does to a view is `KafkaPipeline`'s subject.
- Weights and totals are unbounded integers (i64 in the code, which wraps).
- Metrics other than the gauge follow no protocol.
- Lists of operators with several aggregates: `RunOperator` has their shared
  state, but what such a list should compute is stated nowhere.
- Build files, deployment, examples and tests.

## 10. Plan

Done: the modules of section 2, all runs of section 3, and the theorems of
section 6, which cover every safety property and refinement of the passing runs.

Left, in this order:

1. A definition of what a list with several aggregates should compute, and a run
   against it.
2. `ControlPlane` composed with the contents of `CheckpointManager`, to see what
   two overlapping tasks of one directory do to the view a restart reads.
