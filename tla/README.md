# dbmazz: a TLA+ verification development

dbmazz copies the changes of PostgreSQL tables into StarRocks: it reads a
logical replication slot (pgoutput), batches the changes, loads them over HTTP
and saves how far it got in a checkpoint table. This directory models that
program in TLA+, checks the models with TLC on small instances and proves the
central claims with TLAPS for all values of the constants.

Paths below are relative to the repository. `PROJECT.json` maps every
definition to the lines it models.

## 1. Inventory

All code runs in one process: the engine's task, the pipeline's task, and one
task per gRPC call (tonic), on a multi-threaded tokio runtime. A container
runtime restarts the process when it ends (`demo/docker-compose.demo.yml`).

    PostgreSQL --stream--> engine --event channel--> pipeline --push--> StarRocks
        ^                  |  ^                          |
        |                  |  +----- feedback channel ---+
        +- status update --+--> dbmazz_checkpoints
    gRPC calls --state, shutdown signal--> engine, pipeline

| Component | State it keeps | Operations | Correct when |
|---|---|---|---|
| Control plane (`grpc/services.rs`, `grpc/state.rs`) | the CDC state (an AtomicU8), a watch channel with the shutdown signal, counters | Pause, Resume (compare-and-swap); DrainAndStop, Stop (check, store, signal); ReloadConfig; GetStatus | no race undoes a drain or stop; each takes effect; a pause strands nothing |
| Engine (`engine/mod.rs`, `main.rs`) | its program counter, the loop counter, the reported LSN | start-up, main loop (`select!` of shutdown, stream, feedback), keepalives, saving checkpoints, exits | every position it reports, saves or confirms stands for delivered events; a drain delivers; progress |
| WAL handler (`replication/wal_handler.rs`) | none | parse, send to the channel (waits for room), answer keepalives | order kept; answers only what is delivered |
| PostgreSQL source (`source/postgres.rs`) | the replication connection | start at an LSN, status updates, slot creation | never confirms what was not applied |
| Checkpoint store (`state_store.rs`) | the row of `dbmazz_checkpoints` | load, save (upsert) | a restart finds a position that skips nothing |
| Pipeline (`pipeline/mod.rs`) | the batch, `last_lsn` | receive, flush by size, by time and before a pause, feedback | every batch applied before its LSN is fed back |
| StarRocks sink (`sink/starrocks.rs`) | none | group rows by table and TOAST bitmap, load with retries, ALTER TABLE | the table shows PostgreSQL's, in spite of retries and redelivery |
| Stream Load client (`sink/curl_loader.rs`) | none | PUT with redirects, status interpretation, 30 s timeout | success means applied |
| Schema cache (`pipeline/schema_cache.rs`) | last description of each table | update (delta), get | values land in their columns; new columns are added |
| Parser (`source/parser.rs`) | none | bytes to messages, TOAST bitmap (64 bits) | no column or message misread |
| Setup (`engine/setup/*`) | none; changes both databases | replica identity, publication, slot, audit columns | may be repeated after any partial failure; leaves everything CDC needs, in the order PostgreSQL needs it |
| Health and metrics (`grpc/services.rs`, `grpc/cpu_metrics.rs`) | stage, detail and setup error; counters | Check; GetStatus and the metrics streams, which read counters | an answer never contradicts itself and explains a failure |
| Configuration (`config.rs`) | environment variables, read once | | |

**What is hard.** Two bounded channels in opposite directions between two
tasks; a state that every task reads and any gRPC call changes, in several
steps; a signal that is lost without a subscriber; positions that go back and
forth when transactions overlapped; three durable places (checkpoint row, slot,
StarRocks) that no transaction ties together, with a crash possible between any
two of them; failed and half-applied pushes; redelivery; a cache that lives in
memory only; loads that StarRocks applies although their client has given up;
a setup whose look at a database and whose statement are two calls, broken off
anywhere and met by what its predecessor left running. `PROJECT.json` lists these as hazards, each at its line.

## 2. Modules

| Module | Models | Used by |
|---|---|---|
| `ControlPlane` | the state, the signal and the four RPCs that change them | extended by `Replication` |
| `Replication` | engine, WAL handler, checkpoint store, slot, pipeline and process life cycle, composed with `ControlPlane` | `MCReplication`, `ReplicationProofs` |
| `DeliverySpec` | the abstract promise: record as skipped only what was delivered | instantiated by `Replication` |
| `BatchFeed` | the batches a sink is given: consecutive messages, one batch at a time, and again from a transaction boundary after a restart | instantiated by `Sink` and by `Replication` |
| `ReplicationProofs`, `FeedProofs`, `SchemaProofs`, `LifecycleProofs`, `SinkProofs`, `SinkTableProofs` | the theorems | |
| `Extremes` | lemmas: a set of bounded naturals has a greatest and a least element | extended by `SchemaProofs`, `FeedProofs`, `SinkTableProofs` |
| `Sink` | `push_batch` over Stream Load and its effect on a primary-key table | `MCSink` |
| `Schema` | schema cache, ALTER TABLE, conversion of rows at flush time | `MCSchema` |
| `Setup` | what SetupManager reads and changes in both databases | extended by `Lifecycle` |
| `Lifecycle` | the engine from its start to the replication, stage, detail and setup error, and the health check, composed with `Setup` | `MCLifecycle`, `LifecycleProofs` |
| `MC*` | values of the constants for TLC | |

**ControlPlane.** `state` is the AtomicU8, `shutdown` an unseen `true` in the
engine's watch receiver, `call[c]` what the RPC of client `c` does next. Pause
and Resume are one step because they are one compare-and-swap. DrainAndStop and
Stop are three (`DrainCheck`, `DrainStore`, `SendSignal`): other calls and the
engine may act in between.

**Replication.** `engine` and `pipe` are program counters; an action runs from
one await to the next. Everything between engine and pipeline is in log order,
so the queues are intervals of log indices: `cleared < i =< taken` is the batch,
`taken < i =< sent` the event channel, whose capacity is `2 * FlushSize`. The
engine's values: `top` (start of an iteration), `select` (in `select!`), `send`
(in `tx.send`), `save` and `status` (in the two awaits of
`handle_checkpoint_feedback`), `returned` (`run()` has returned, the runtime has
yet to drop the other task). The pipeline's: `top`, `select`, `push`
(`push_batch` under way), `feedback` (in `feedback_tx.send`). `checkpoint`,
`confirmedFlush` and `applied` are durable. `excused` is a history variable: the
events given up by a failed push or vouched for by a keepalive reply. A message
of the log is a pair of positions, its own and that of its transaction's commit
record. `ResumeLsn` and `StreamsFrom` say what PostgreSQL does with a start
position: it never starts before the slot, and it skips whole transactions
whose commit precedes the start.

**BatchFeed** is where the two halves of the pipeline meet. It says of the
messages only that `pos` of them were passed (their `push_batch` has returned,
well or not) and that the batch under way ends at `last`. `Sink` takes its
batches, its progress and its restarts from it (`Feed!Take`, `Feed!Pass`,
`Feed!Restart`), and `Replication` implements it (`FeedsBatches`): `pos` is
`cleared` while a pipeline runs and otherwise the message PostgreSQL would
stream next (`ResumePoint`).

**Sink.** The log holds row changes with the columns PostgreSQL left out as
unchanged TOAST, and TRUNCATEs, which the publication has by default, the parser
does not know (`parser.rs:133`) and the sink skips (`starrocks.rs:411`). A batch becomes the set of its groups (`BatchKey`), sent in any
order (a hash map); each group is one Stream Load, tried `MaxRetries` times. A
request ends with a *fate* (the load was applied, was refused, or goes on
without its client) and an *answer*; `Answers` says which answers leave which
fate possible, and `Accepts` is the code's reading of the answer. The request
to the frontend and the one to the backend it redirects to are one: both read
the answer the same way, and only the last one's is used. A load
that goes on is one of the loads in `late`, of which there may be several, from
one batch or many: each commits or is dropped at any later time
(`LateLoadEnds`), in any order and after a restart, too. Attempts with the same
rows and the same effect are one element, which may commit more than once. A load that takes effect may have dropped
up to one row in `FilterRatio`. `reached` and `spoiled` are history: the
furthest message delivered, and the rows that one of the named causes (`Spoils`,
`Overtaken`, `Truncated`, a batch given up) has made wrong since their last full
row (`Repairs`). The definitions behind `ShowsPrefix` (`Settles`, `Shown`, `RowsInv`,
...) are the inductive invariant of its proof.

**Schema.** `announced` is what PostgreSQL has told the session, `cache` what
the pipeline keeps. `ReceiveRelation` updates the cache, `AlterOk`/`AlterErr`
walk through the delta, and `Pushed` converts a batch with the cache of flush
time: tuple and columns are zipped to the shorter end. `untried` is history:
the columns first described to an empty cache or whose ALTER failed. The order
in which the columns of one delta are added is left open. A cell is the pair of the
column and the change that wrote it, so a value in the wrong column shows.

**Setup.** What exists in both databases is a set of facts, `made`; it only
grows. `step` is the program counter of `SetupManager::run`, `visit` the tables a
loop has still to look at, `todo` the statements a look has decided on: looking
(`ReadPublication`, `VisitColumns`, ...) and making a statement (`Execute`) are
separate calls and separate steps. A statement is refused if what it makes is
there (`strict`). When a call fails or the process is killed, the server may go
on with the statement (`leftover`), which ends at any later time
(`LeftoverEnds`): `pg_create_logical_replication_slot` waits for running
transactions, ALTER TABLE for locks. The module has no next-state relation;
`Lifecycle` has.

**Lifecycle.** `run` is the program counter of `CdcEngine::run` up to the main
loop; the lock each of `stage`, `detail` and `setupError` has makes each write a
step. `probe[p]` is a health check, which reads state, stage, detail and error in
four steps. A failed setup keeps the process asleep (`failed`) until someone
replaces it. The details between setup and replication ("Loading checkpoint",
"Connecting to PostgreSQL", ...) are one. What happens from the main loop on is
`Replication`'s; its `SetupOk` and `SetupFail` are the two ends of this module's
setup.

## 3. Runs

| Run | Question | Bounds | Result |
|---|---|---|---|
| `Loss` | Do positions stand for delivered events, under every failure at once? | 4 messages of two overlapping transactions, batch 2, feedback 2 | `TypeOK`, `AccountedFor` hold (3.2 million states) |
| `Progress` | Where pushes succeed and keepalives need no answer: is delivery at least once, and is everything applied and saved in the end, whatever an operator calls? | 3 messages of two overlapping transactions, batch 2, feedback 1, any number of crashes and lost connections, 1 client | `AtLeastOnce`, the refinements `KeepsPromise` and `FeedsBatches`, `EventuallyApplied`, `CheckpointCatchesUp` and `PauseFlushesBatch` hold (57,000 states) |
| `Operator` | Where the channels fill: what can a pause, stop or drain be undone, held up or made to strand by? | 1 client, 5 messages of one transaction, batch 1, feedback 1, setups that may fail | `TerminationIrrevocable`, `DrainEmptiesChannel`, `TerminationTakesEffect`, `LockedForGood`, `EventuallyApplied` hold (59,000 states) |
| `SinkRedelivery` | Does the table show PostgreSQL's, whatever becomes of the loads? | 5 changes of 3 rows of a table and a TRUNCATE, batches up to 2, two attempts, two late loads | `TypeOK`, `ShowsPrefix` hold (658,000 states) |
| `SchemaEvolution` | Do values land in their columns while columns are added? | 5 changes, 3 added columns, batch 3 | `TypeOK`, `ShowsColumns`, `ColumnsAccountedFor` hold |
| `Setup` | Is what CDC needs there when it starts, however often setups broke off, and is a failure reported consistently? | 2 tables, 2 audit columns, 3 prepared states, 2 failures or kills, 1 health check | `TypeOK`, `CdcMeansReady`, `FailureExplained`, `RefusedByLeftover`, `SlotLast`, `Recovers` hold (411,000 states) |
| `KeepaliveLoss` | Delivery as in `Progress`, with keepalive replies | serial log | `AtLeastOnce` **violated** |
| `PushLoss` | The same, with failing pushes | serial log, batch 1 | `AtLeastOnce` **violated** |
| `DrainLoss` | Does a drain deliver what was accepted? | 2 messages, one client | `DrainDelivers` **violated** |
| `Backpressure` | Does a full channel release the engine again? | 5 messages, batch 1, feedback 1 | `BackpressureReleases` **violated** |
| `SinkGroupOrder` | Insert and partial update of one row in one batch | 2 changes | `ShowsPrefix` **violated** |
| `SchemaRestart` | Does every new column arrive if the process restarts? | 2 changes | `NewColumnsReplicated` **violated** |

### What the violations show

1. **A keepalive reply confirms undelivered events** (`wal_handler.rs:118`). The
   server's own `wal_end` is sent back as written, flushed and applied while
   events below it are still in the channel or the batch. PostgreSQL moves the
   slot; after a crash they are not sent again.
2. **A failed push is passed over** (`pipeline/mod.rs:119`). "Sink error (will
   not checkpoint)" holds for that batch alone: it is cleared, and the next good
   batch checkpoints a later position.
3. **A drain does not drain** (`services.rs:165`). DrainAndStop sends the same
   shutdown signal as Stop, and the main loop breaks on it at once.
4. **The two channels can wait for each other** (`pipeline/mod.rs:113`). The
   engine blocks in `tx.send` inside its loop and no longer empties the feedback
   channel, on which the pipeline blocks. The code's feedback channel has 100
   places, so 100 batches must be flushed while the engine is not in `select!`
   for feedback; `select!` picks branches at random, so this is unlikely and not
   impossible. With a batch of 1 a full event channel holds 2 events.
5. **Groups of one batch are loaded in hash-map order** (`starrocks.rs:416`): an
   insert loaded after the partial update of the same row overwrites it.
6. **A restart loses a new column** (`schema_cache.rs:64`): the first
   description of a table gives no delta, and after a restart every description
   is the first.
### What else the models show

No run states the following as a violation, because the properties name them as
their exceptions:

- Two things keep a process alive for ever that a Stop was told is "stopped
  immediately": a failed setup, after which the engine sleeps
  (`engine/mod.rs:64-67`), and channels that wait for each other. In the latter
  the engine sits in `tx.send` inside its loop (`wal_handler.rs:95`), where it
  sees neither the signal nor the state. They are the exceptions of
  `TerminationTakesEffect`, and `LockedForGood` says of the second that nothing
  but a kill ends it. `Operator` reaches both. A paused engine
  blocked on a full channel is no exception: the pipeline takes the events once
  it is resumed or told to stop.
- Setup does not keep all of what `ARCHITECTURE.md:126` says of it, "Detecta
  recursos existentes (recovery mode) y continúa sin errores". It looks, and then
  takes every error of the statement that follows for a failure
  (`engine/setup/postgres.rs:121-156`): if a statement that a killed predecessor
  left running takes effect between the two, the setup fails although what it
  wants is there. `RefusedByLeftover` says that this is the only way a statement
  is refused, and `Recovers` that the next process gets through; but the failed
  process does not end, so that someone must replace it.
- A row of StarRocks differs from PostgreSQL's for good, with no error logged,
  when a load dropped it (`max_filter_ratio`), when its key was changed (the old
  row stays, and a new row has null where the update left a value out), or when
  a load given up after 30 s commits over a newer one, or when its table was
  truncated (the rows stay): the causes that `ShowsPrefix` excepts (`spoiled`).
- Two more of these causes come from the 64 bits of the TOAST bitmap. An update
  that leaves out only values behind the 64th column is loaded as a full row,
  with null for them. And where tracked columns are left out, too, the columns of
  the load are those of the first row of its group (`starrocks.rs:382`): a later
  row with the same bitmap that does carry a value behind the 64th column loses
  it, because the first row did not list the column. The proof of
  `TableShowsPrefix` could not be carried through without naming this cause, and
  TLC confirmed it; the log of `SinkRedelivery` has it now.
- A drain that does end by the state check, because its signal was lost, looks at
  the channel only (`engine/mod.rs:278`): a batch of up to `flush_size` messages
  may be open or on its way to StarRocks. `DrainEmptiesChannel` says that this is
  all it may leave behind.
- A DrainAndStop that read the state before a concurrent Stop turns Stopped back
  into Draining (`services.rs:160-163`); both states end the process, which is
  what `TerminationIrrevocable` asks for.

### Bounds

The constants of the code are scaled down so that limits are reached: the
feedback channel from 100 to 1 or 2 places (full and not full), the event
channel stays at twice the batch size, the state check from every 256th
iteration to every second (`CheckEvery`: one that looks and one that does not).
Batches of 1 to 3 messages against logs of 2 to 5 give batches that are full,
partly filled when the timer ticks, and empty. Two overlapping transactions of
two messages and one or two have positions that go backwards, within a batch and
from one to the next. A client starts a new call when its last one is done, so
the sequence of calls is not bounded. The runs have one client, which races with
the engine and the pipeline at every step; calls that race with each other are
left to the proofs (`Irrevocable`, `LockedUntilKilled`), for any number of
clients. `TerminationTakesEffect` under two clients at once is checked by no run:
with channels that fill it has too many states for a liveness check. Crashes,
failures and restarts are not bounded either, but for `MaxFaults` in `Setup`: two
failed calls or kills, so that a third setup meets what two others left, the
statements left running included.

In `SinkRedelivery` a load is tried twice instead of three times (`MaxRetries`): a
first attempt and a last one. `FilterRatio` is 2 instead of 5, so that a load
of two rows can lose one; `BitmapWidth` is 2 instead of 64, so that the third
column of a table lies behind the bitmap. `MaxLate` bounds how many different
loads are late at a time, here two: one may overtake the other, and both what is
loaded meanwhile, by this process or the next. The log has a message for each
cause that `ShowsPrefix` excepts, and no DELETE, which is loaded as any full row
is; `TableShowsPrefix` covers it. In
`Setup` the database holds nothing but one table on either side, or what a
setup for fewer tables left, or everything; the missing table may be created at
any time. Two of the four audit columns are enough for an ALTER TABLE between
two others to fail.
In the proofs every one of these is arbitrary.

`Operator` has the smallest channels the code can be configured to, an event
channel of two places for batches of one, with one feedback place. Five events
fill both: one in the feedback channel, one whose push is done, two in the event
channel and one in the engine's hand. It has no failures but that of the setup,
so that nothing but calls and the channels themselves can hold the process up.
The event channel of `Progress` (4 places) holds its whole log instead, and its
batch of two may be open when a pause comes. There the state is looked at in
every iteration; `Operator`, in every second, has the engine that reads on while
paused.

`Backpressure` and `Operator` turn TLC's deadlock check off, because channels
that wait for each other are a state they reach; all other runs check it.

### Fairness

`Fairness` in `Replication` has weak fairness for whatever a task does outside
its `select!` (tokio runs ready tasks, awaits on HTTP, SQL and sockets end), for
process exit and restart, for keepalives of an idle connection, and for RPCs
already begun. The branches of `select!` have strong fairness: tokio polls them
in random order, so a branch that is ready again and again is taken. There is no
fairness for crashes, failures or new calls. `EventuallyApplied` and
`CheckpointCatchesUp` assume (`Stable`) that the process is in the end left
alone in state Running, and that its channels are not locked then; `Progress`
checks them where the feedback channel can fill but the engine always gets back
to `select!`, `Operator` where the event channel can fill, too, and a pause finds
it full.

`FairSpec` of `Lifecycle` has weak fairness for the engine alone. `Recovers`
assumes what the code cannot give: that a process whose setup failed is replaced,
and that the operator has created the tables. The number of failures is bounded
by `MaxFaults`; statements left running need not ever end.

## 4. Proofs

`ReplicationProofs` proves, for every log that satisfies `WalAssumption`, every
batch size, channel capacity, check interval, set of clients and environment:

| Theorem | Statement |
|---|---|
| `TypeCorrectness` | `Spec => []TypeOK` |
| `Induction` | `Spec => []InductiveInv` |
| `Accounting` | `Spec => []AccountedFor` |
| `Delivery` | `Spec => []AtLeastOnce`, if pushes do not fail and keepalives need no answer |
| `Refinement` | `Spec => KeepsPromise` (implements `DeliverySpec`), under the same condition |
| `Irrevocable` | `Spec => TerminationIrrevocable` |
| `LockedUntilKilled` | `Spec => LockedForGood` |

**Assumptions.** `WalAssumption`: positions are naturals, commits do not
decrease in stream order, and no message lies behind the commit of a later one.
This is what PostgreSQL's logical decoding guarantees. `SizeAssumption`: batch
size, feedback capacity and check interval are positive. `EnvAssumption` names
the failures.

**Argument.** `AccountedFor` alone is not inductive: a position becomes the
checkpoint long after it was chosen, having passed through the feedback channel
and `confirmed`. `InductiveInv` adds why it is safe all the way:

- `CursorsInv`: a batch under way is not empty and not full beyond the limit;
- `DeliveredInv`: everything up to `cleared` is accounted for, and while the
  pipeline waits in `feedback_tx.send` everything up to `taken`;
- `FeedbackInv`: every position in the feedback channel is covered.

The step from "all events up to i" to "every event whose commit lies before the
position of i" is lemma `CoveredByPrefix`, the only place where the order of the
log is used: a later event belongs to a transaction whose commit does not
precede the position of i. Two lemmas do the rest: covering survives more
deliveries (`CoveredMonotone`), and a restart at a covered position puts all
cursors behind accounted events (`SkippedIsCovered`). `Delivery` follows because
nothing is ever excused without failing pushes and replies; `Refinement` because
no step applies events and moves the start of the stream at once
(`AppliesOrMoves`).

`FeedProofs` proves, under the same assumptions on the constants:

| Theorem | Statement |
|---|---|
| `FeedsSink` | `Spec => FeedsBatches` (implements `BatchFeed`), if keepalives need no answer |
| `DrainLeavesBatch` | `Spec => DrainEmptiesChannel` |

What `FeedsSink` needs beyond `InductiveInv` is `PassedInv`: every position the
process keeps, wherever it is, covers only messages in front of `cleared`. That
is stronger than `AccountedFor`, for it speaks of this process and not of all
before it, and it is why the next process starts no later than this one stopped
(`ResumesAtPassed`). A keepalive reply breaks it, failed pushes do not. That the
stream has one place to start for every position, at a transaction boundary, is
proved from the order of the log (`StartExists`, `StartUnique`,
`StartIsBoundary`). A step of `Replication` that restarts the pipeline is
`BatchFeed`'s `Restart` when it loses the pipeline, and a stutter when it
starts the new one (`ResumePointStays`).

`SchemaProofs` proves, for every sequence of changes that satisfies
`ChangesAssumption` (columns are only added, at the end) and every batch size:

| Theorem | Statement |
|---|---|
| `SchemaTypeCorrectness` | `Spec => []TypeOK` |
| `ColumnAccounting` | `Spec => []ColumnsAccountedFor` |
| `ColumnsShown` | `Spec => []ShowsColumns` |

`ColumnsAccountedFor` speaks of the states between two messages; `DeltaInv` is
its inductive form, in which a column may also be waiting in the delta.
`ShowsColumns` speaks of the moments with nothing to redeliver; its inductive
form `CellsInv` says at every moment that a row with no change still to be
redelivered is right. It needs three more invariants: the cache describes every
change received (`CacheInv`, so that a batch converted late loses nothing: lemma
`JsonCells`); a column being added is in none of them (`AlterInv`) and a column
that StarRocks lacks is Null in every row (`NullInv`), so that a column is
right when it comes to exist. That a row has a last change at all (`Greatest`)
is proved in `Extremes`, from the well-foundedness of strict inclusion between
finite sets.

`LifecycleProofs` proves, for every set of tables, audit columns and concurrent
health checks, every number of failures and every state the first process may
find:

| Theorem | Statement |
|---|---|
| `LifecycleTypeCorrectness` | `Spec => []TypeOK` |
| `FailureIsExplained` | `Spec => []FailureExplained` |
| `SlotComesLast` | `Spec => SlotLast` |
| `CdcIsReady` | `Spec => []CdcMeansReady` |
| `OnlyLeftoversRefuse` | `Spec => []RefusedByLeftover` |

Facts are never taken back, which does most of the work: what a step has seen or
made is there later. `OrderInv` says which facts hold, or are among the
statements pending, at each step of the setup; `ReadyInv` carries them to the
stage Cdc and into the answers that read it; `EngineInv`, `ProbeInv` and
`ReportInv` tie stage, detail and error to the engine's program counter and to
what a check has read so far. `RefusalInv`: what a pending statement makes was
missing when it was decided on, so whatever is there now came from a leftover.
`PreparedAssumption` asks only that tables are in a publication that exists.

`SinkProofs` and `SinkTableProofs` prove, for every log that satisfies
`LogAssumption` (it is one PostgreSQL can have written), every batch size, bitmap
width, number of attempts and of late loads, filter ratio, and every set of
failures:

| Theorem | Statement |
|---|---|
| `SinkTypeCorrectness` | `Spec => []TypeOK` |
| `TableShowsPrefix` | `Spec => []ShowsPrefix`, if `GroupsApart` |
| `FullRowsShowPrefix` | the same for logs without tracked TOAST values, in which each key belongs to one table |

**The hypothesis.** `GroupsApart` says that two changes of one row so close that a
batch can hold both belong to one group. The theorem is false without it: the
run `SinkGroupOrder` is the counterexample, a finding about the code. It holds of
the log of `SinkRedelivery` (`MixedAssumption`), which has full and partial
updates of the same rows in neighbouring batches, and of every log of full rows;
`FullRowsShowPrefix` states the latter without it.

**Argument.** `ShowsPrefix` compares whole rows between two batches. Inductive is
a statement about single cells at any moment, because a row is put together from
loads of different columns: `RowsInv` says that a cell of an unspoiled row shows
PostgreSQL's value after the messages up to which the row is known to be loaded
(`Upto`: `last` once its group is through, `pos` before), or that a message
delivered earlier, which a restart has taken back, is still to be delivered again
and will *settle* the cell, that is, write it whatever is there. The heart of the
proof is that the second case may be carried backwards and forwards: if no
message in between settles a cell, PostgreSQL's value did not change in between
(`Unsettled`), so a restart to any earlier boundary keeps `RowsInv`
(`ShownEarlier`) and so does progress (`ShownLater`). `LateInv` says that no late
load, of any number, that nothing has overtaken is older than the rows it would
write. `TruncatedInv` says that a row the batch under way truncates is spoiled
unless the batch fills it again afterwards: that is why the last change of a row
decides it although the sink skips the TRUNCATE (`RefilledAfter`). For a load
(`TakesKeeps`, `LateKeeps`) the last change of a row in its group decides the row
(`LoadedRow`), and by `GroupsApart` it is the row's last change in the batch.

`SourceAt` is a recursive function, and the library's induction theorems cannot be
used here; that it exists and satisfies its equation (`HistoryExists`,
`SourceSteps`) and that its rows have all columns (`SourceIsTable`) are proved by
the least counterexample (`Extremes`), which needs no induction rule.

**Composition.** `Sink` moves its cursors only by actions of `BatchFeed`, of which
`FeedsSink` shows `Replication` an implementation: what `SinkTableProofs` proves
holds of the sink as `Replication` feeds it, as long as keepalives need no reply.
With replies messages may be skipped (`KeepaliveLoss`), and no sink can show what
it was never given.

**Model-checked only.** Liveness is out of the prover's reach:
`EventuallyApplied`, `CheckpointCatchesUp`, `PauseFlushesBatch`,
`TerminationTakesEffect` and `Recovers`. Every safety property of a passing run
is proved. That the properties of the violated runs fail is TLC's to show.

## 5. Not modelled, and why

- Byte formats (XLogData headers, pgoutput, JSON, the standby status message)
  beyond the TOAST bitmap and the fields positions come from.
- Messages that do not parse: the log holds the ones that do.
- `dbmazz_cdc_version` and the other audit columns: nothing modelled reads them.
- ReloadConfig: it changes a copy of the configuration (`grpc/state.rs:51`) that
  only GetStatus reads; engine and pipeline keep the values they started with,
  whatever `README.md:147` promises.
- Messages the parser does not know (`parser.rs:133`): of them only TRUNCATE
  changes a table, and it is in the log of `Sink`. In `Replication` all messages
  are alike.
- GetStatus, the metrics streams and `cpu_metrics.rs`: they read counters on which
  nothing depends. `get_events_last_second` and
  `PostgresSource::validate_replica_identity` are never called.
- `config.rs`: reads environment variables once.
- Tables that lose columns or change types, which `CHANGELOG.md:231` names
  as open, are excluded by `Schema`'s assumption on its log.
- In `Setup` nothing is taken away from the databases (nobody drops a slot or a
  publication), and two processes never run a setup at the same time; a
  publication of all tables, or of other tables too, is the same as one of the
  tables.
- `Sink` and `Replication` meet in `BatchFeed` and not in one state space: the
  product would be out of TLC's reach. `Schema` takes batches of any size and
  restarts from any earlier point, which includes what `BatchFeed` allows.

## 6. Plan

Done, in this order: `Replication`, `ControlPlane`, `DeliverySpec` and their
proofs; `Sink` and `Schema`; `Setup` and `Lifecycle` and their proofs; what may
become of a Stream Load; the proofs of `ShowsColumns` and of `Sink`'s types;
`BatchFeed` between `Replication` and `Sink`, and the proofs of `FeedsBatches`,
`DrainEmptiesChannel` and `ShowsPrefix`. Open:

1. `PauseFlushesBatch`'s safety half (a paused pipeline takes at most one more
   event) as an action property with a proof.
2. `Schema` built on `BatchFeed`, as `Sink` is.
3. Two processes against one slot during a rolling restart, once the code takes
   a position on it.
4. `TerminationTakesEffect` with two clients, and a log of `Sink` with a DELETE
   beside its two late loads, once their state spaces are smaller.

## 7. Running

    tlc -config Loss.cfg MCReplication.tla        # and the other runs
    tlapm ReplicationProofs.tla
    tlapm FeedProofs.tla                          # extends ReplicationProofs
    tlapm SinkTableProofs.tla                     # extends SinkProofs
    tlapm SchemaProofs.tla                        # LifecycleProofs, SinkProofs, Extremes

`PROJECT.json` names the module and configuration of each run, and for each
checked property a mutant of the model (the definitions marked `Mutant:`) that
TLC finds to violate it.
