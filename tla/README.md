# esgraph: verification project

esgraph collects macOS Endpoint Security (ES) messages, turns each into graph
nodes and edges, and stores them in an embedded graph database.  This directory
holds TLA+ models of it, the TLC configurations that check them, and the proofs
that TLAPS checks.  Paths are relative to the repository (`src/` here).

Contents: [the system](#1-the-system), [models and code](#2-models-and-code),
[runs](#3-runs), [fairness](#4-fairness), [proofs](#5-proofs),
[disagreements](#6-disagreements-between-code-and-documents),
[assumptions](#7-assumptions), [not modelled](#8-what-is-not-modelled),
[plan](#9-plan).

## 1. The system

| component | state it keeps | operations | what makes it correct |
|---|---|---|---|
| live pipeline: `esgraphd/src/main.rs` `cmd_run`, `esgraph-esf/src/collector.rs` | shutdown flag, bounded channel, join handle, ES client | start, handle a message, poll the flag, drop the client, join | events keep their order; nothing accepted before Ctrl+C is lost in an ordinary run; every thread ends |
| writer thread: `esgraphd/src/writer.rs` | batch, time of last flush, totals | drain, receive, flush (four places), return | batch limit, no event twice, statistics equal to what is stored |
| graph store: `esgraph-store/src/{store,ingest,schema}.rs` | tables, `IngestEvent` rows, nodes, relationships; `next_ingest_id` in memory | open and schema, reload of the counter, ingest, close | ids name one event for good; upserts forget nothing; every edge has its ends and its row; all of it after any failure or kill |
| replay, query, status: `main.rs`, `replay.rs`, `query.rs` | none of their own | open the store, one ingest / one query / counts | the same store invariants |
| collector setup: `collector.rs`, `subscribe.rs` | the subscription, the mutes | client, mutes, subscribe | mutes before the subscription; the store muted whichever thread is first; exactly the configured events |
| normalisation: `normalise.rs`, `model.rs` | none (a function of the message) | one case per event type | one event per operation; a key for one image of one process; lineage and renames can be followed |
| configuration, event registry: `config.rs`, `events.rs` | none | parse, validate, `resolved_event_names` | order kept, first occurrence wins, no duplicate |
| VM simulation driver: `scripts/simulate-vm.sh`, `stop-vm-collector.sh` | phase, traps, `latest/`, what a run leaves on host and VM | server, connection, collection, attack, stop, copy, cleanup, signal and exit handlers | cleanup once and always; nothing left running; management not collected; `latest/` whole |
| scenario HTTP server: `scenario-http-server.{py,sh}` | pid file, upload directory | start, stop, status, upload | one server, the pid file names it, uploads in their run's directory |
| deployment, debugging, the attack scenario | none | straight-line commands | - |

How they interact.  macOS calls the handler (a closure the client owns) on one
message after the other.  The handler sends over a `sync_channel` to the writer
and blocks while it is full.  Ctrl+C sets an `AtomicBool` that the main thread
polls every 200 ms and the writer reads at the head of its loop: **the two see
it at different times**, and the handler never reads it.  The main thread drops
the client and with it the only sender, then joins the writer.  The writer opens
the store by itself; the other commands open the same database at other times.
The scripts know the daemon only by its pid and by signals.  While the main
thread computes which prefix to mute for the store, the writer creates the very
directories that the computation looks at.

The hard behaviours, with their lines, are the `hazards` of `PROJECT.json`:
shutdown seen at different times by three threads, a blocked handler against a
writer that fails or leaves, a drain without a limit, four flush sites that go on
differently, a batch of many statements with no transaction around it, a counter
that lives in memory while the rows it numbers are durable, a key made of a token
that changes, and shell traps that a signal can enter again at any command.

## 2. Models and code

| module | what it is |
|---|---|
| `EventLog` | abstract: a log that takes a beginning of what it is offered, in order, until it is closed |
| `LivePipeline` | the process of `esgraphd run`, all threads; implements `EventLog` |
| `MCLivePipeline` | its instance for TLC, with three `.cfg` files |
| `GraphStore` | the database file, its opening and closing, ingest statement by statement |
| `MCGraphStore` | its instance for TLC with concrete events |
| `LiveSystem`, `MCLiveSystem` | `LivePipeline` over `GraphStore`, run after run on one database |
| `Events` | the event registry: the three tables between a name in the configuration and a name in the graph |
| `Subscription` | configuration, event list, mutes and subscription, beside the writer that opens the store |
| `Normalise` | `normalise_message`: the function from a message to an event |
| `Collector`, `MCCollector` | the machine, `handle_message` and the writer's input; extends the three above |
| `Simulation`, `MCSimulation` | `simulate-vm.sh` and the scripts it runs, run after run |
| `LivePipelineProofs`, `GraphStoreProofs`, `LiveSystemProofs`, `SubscriptionProofs`, `CollectorProofs`, `SimulationProofs` | theorems about the module of that name, for all values of its constants; `LiveSystemProofs` instantiates the proofs of its two parts, `CollectorProofs` extends those of the setup |
| `HistoryProofs` | theorems on what can be found out from the edges of `Collector`; extends `CollectorProofs` |

`map` in `PROJECT.json` gives the lines of every definition.  Operators whose
comment starts with *Slip* are what the code would look like with a plausible
bug; they take no part in the specifications, and serve to show that each
property fails when the code does.

### LivePipeline

| variable | code |
|---|---|
| `shutdown` | the `AtomicBool` of `main.rs` |
| `main`, `result` | where the main thread is: inside `run_collector` before (`starting`) and after (`collecting`) the subscription, at the join (`joining`), done, and what `run_collector` returned |
| `emitted` | messages macOS has queued for the client (external) |
| `handled`, `handler` | messages the handler was called on; whether it is inside `tx.send` |
| `chan` | the channel, of capacity `batch_size.max(64)` |
| `writer` | the program counter of `writer_loop`; the four `flush_...` values are its four calls of `flush_batch` |
| `batch`, `total` | `batch` and `stats.events` |
| `due` | `last_flush.elapsed() >= flush_interval` |
| `committed` | events whose statements are durable, in order |
| `accepted`, `cutoff` | history: events whose send returned `Ok`; how many at Ctrl+C |

An event is the number of its message.  One action is what a thread does between
two points where another can see or disturb it: each `try_recv` and each
`recv_timeout` is a step, the load of the flag is a step, and a flush is a state
of its own (`flush_drain` and so on), so that Ctrl+C, sends and kills happen
during it.  A flush that fails or is killed leaves *any* beginning of the batch
durable, since ingest has no transaction (`GraphStore` refines this further).
`RecvTimeout` needs `due`; a timeout with an empty batch does not reset
`last_flush`, as in the code, so `due` remains and the loop spins.

`RxOpen` and `SenderAlive` are ownership in Rust made explicit: the receiver
lives as long as `writer_loop`; the sender lives in the handler closure, so it
dies with the client, or with the call that is still in progress at that moment.

### GraphStore

| variable | code |
|---|---|
| `tables`, `audit`, `nodes`, `edges` | the database file: tables, `IngestEvent` rows by id, nodes by (label, id), relationships |
| `role`, `nextId` | the command that holds the `GraphStore`, and its `next_ingest_id` |
| `queue`, `at` | the query string being executed: remaining events with their ids, the next statement of the first |
| `stored` | history: the events whose statements all took effect |

`Open` is `GraphStore::open`: every DDL error is swallowed, so any subset of the
missing tables may be made; only a missing `IngestEvent` makes the open fail,
because the id query then fails.  `IngestStarts` builds all statements first,
which consumes the ids; `IngestRefused` is the early return for an event with an
empty audit token.  `ExecuteStatement` executes one statement: the row, an upsert
of a node (a property the event does not carry keeps its value), the upsert of an
end of an edge, the creation of an edge between the ends `MATCH` found.  Three
properties stand for all: `seen` (assigned always), `args` and `exit` (assigned
only when present).  `RowId` saturates at `i64::MAX`, which is small here so that
the counter reaches and passes it.

### LiveSystem

The variables are those of `LivePipeline` and `GraphStore`, instantiated side by
side; every action is one action of each, or of one with the other unchanged.
`OpenStore` is the writer's `GraphStore::from_config`; `FlushStarts`,
`FlushGoesOn`, `FlushOk`, `FlushFails` are one `ingest` inside `flush_batch`.
What `LivePipeline` chooses freely (which beginning of a batch is durable after a
failure) is here *computed* from the statements that took effect (`Inserted`), and
handed to the same actions of `LivePipeline`, whose guards must accept it.
`RunAgain` starts a new process on the database that was left.  `past` and `cuts`
are history.

### Events and Subscription

The tables of `Events` are written out as in the code, since a slip in one of the
three is what a property should find.

| variable | code |
|---|---|
| `config` | the configuration file |
| `phase` | `Config::from_file`, then where `run_collector` is |
| `raw` | what the loop of `resolved_event_names` has still to resolve |
| `names`, `types` | `event_names`; what `es_subscribe` was given |
| `toMute`, `muted` | the rest of the loop of `apply_path_mutes`; what the client has muted |
| `dirs`, `writer` | the directories that exist; whether the writer has opened the store |

`ResolveName` is one iteration of that loop.  `CanonicalizePrefix` follows `canonicalize_prefix` over a file system with
directories and links in the root.  `WriterOpensStore` (`create_dir_all`) may come
at any moment between the start of the writer and after the subscription.

### Normalise and Collector

An event has the shape that `GraphStore` ingests, with the kind and metadata of an
edge and the details.  `ProcessKey` holds what the hex string holds: pid, version,
user.  Fields that are copied unread (signing, group ids, session) are part of the
image.  `Collector` has the machine as variables `procs` and `files` (external),
`ops`, the messages the operations stand for (history), and `events`, what
`tx.send` was given.  `Deliver` is what the client does with a message the
subscription asks for; `Ask` is the AUTH message that comes before an exec and an
open.  One action is one operation of a process with the handling
of its messages, since a message is a snapshot and the handler runs on one at a
time.  A pid is used again as soon as it is free.

### Simulation

| variable | code |
|---|---|
| `run`, `pc`, `then` | the run (its directory), the next command, where the cleanup returns to |
| `trapped`, `exiting` | whether the traps are installed; whether the EXIT trap has begun |
| `phase`, `cleanedUp`, `verify` | `SIM_PHASE`, `SCENARIO_CLEANUP_DONE`, `CLEANUP_VERIFY` |
| `listener`, `pidFile` | whose server has the port; which run directories have a `server.pid` |
| `dbs`, `wals`, `latest` | which run directories have an `events.lbug` and its `.wal`; the two files of `latest/`, each whole or not, and `source-run.txt` |
| `vm`, `esf`, `leftovers` | how far the remote script is; the collector on the VM; of which runs declared artefacts are there |

A signal comes between any two commands, and during `ssh` cuts the connection; the
shell on the VM then ends at its next output, with or without its own trap having
stopped the collector.  A command that can end a script under `set -e` or `set -u`
has a branch to `exit`, from where `OnHostExit` takes the EXIT trap.

`latest/` is filled step by step: `rm` of the two files, `cp` of each (first a file
that is not whole, `Part`, then one that is, `Whole`), `source-run.txt` last.
`Fill` is one such step, which may also fail.  `Publish` leaves `latest/` alone when
the archive held no `events.lbug` (a `--config` with another store).

The cleanup is `Cleanup` (the test of `SCENARIO_CLEANUP_DONE` and the INT to the
collector), `MarkCleanup`, `RunCleanup` and `VerifyCleanup`, so that a signal finds
each of the gaps between them.  The verification fails without `REMAIN` lines when
the VM is out of reach; then `"${remaining[@]}"` is empty, and bash before 4.4 (the
one a Mac comes with) takes that for unset and ends the script, which is
`EmptyIsUnset`.  In the EXIT trap nothing comes after that: the script is
`aborted`, and `stop_host_http` is not reached.  `Remaining` is empty in any case;
see 6.

## 3. Runs

| run | configuration | result |
|---|---|---|
| `pipeline` | 5 messages, batch limit 2, channel 2, all faults, `FairSpec` | holds, 90 thousand states |
| `pipeline_late_send` | 2 messages, batch limit 1, channel 2, no fault | violated, as [6](#6-disagreements-between-code-and-documents) says |
| `pipeline_drain_batch` | 3 messages, batch limit 1, channel 2, no fault | violated |
| `store` | ids up to 4 with `i64::MAX` = 3, batches of 1 and 2, four kinds of events, `run`, `replay` and `status`, all faults | holds, 1.4 million states |
| `live_system` | 2 runs of 3 messages, batch limit 2, channel 2, all faults of both | holds, 740 thousand states |
| `collector` | six configurations, 2 pids, 2 users, 2 file names, 4 operations | holds, 337 thousand states |
| `stable_key`, `store_muted`, `auth_alone` | the same machine; two store paths; a configuration with `auth_exec` alone | violated |
| `simulation` | 2 runs, 3 signals, an old bash, `FairSpec` | holds, 713 thousand states |
| `uploads` | 2 runs, no signal | violated |
| `cleanup_verify` | 1 run, no signal | violated |

Why the bounds are enough.  *Pipeline*: five messages
are one more than batch plus channel, so the channel is full while a batch is being
flushed and the handler blocks; a flush on size, a flush on the interval with half
a batch, a drain longer than a batch, and a final flush all occur, in one behaviour
even.  No action depends on more than "empty, below, at the limit".  *Store*: with four ids a session
can commit a batch, be killed in the middle of the next, be reopened and go
beyond the largest id; two events in a batch are what it takes for an event to
fail behind a complete one.  The events are those of the tests of `ingest.rs`: an
exec whose parent is only named by the edge, a write and an exit of the child
that upsert the same node, and a process without a token.  *Live system*: three
messages are a full batch and one more, two runs are what a torn row needs to be
met again.  *Collector*: four operations are a fork, an exit, the pid used again
and something the new process does; an exec with a change of user between two
operations; a file created and renamed twice, the second time onto another.
`StoreOpened` only lets the writer's opening come before the first operation when
it comes after the subscription, where nothing looks at it any more; the symmetry
is in pids, users and file names, none of which the configuration names.
*Simulation*: two runs, so that one finds what the other left; three signals, so
that one comes in the handler of another and one more in the next run.  With
`EmptyIsUnset` FALSE the script has the same states but for `aborted`; the theorems
hold for both.

Deadlock is checked in the runs of the pipeline, of the store and of both
together: the end is an explicit stuttering step (`Over`), so that any other state
where nobody can move is reported.  It is not checked where the system may stop:
the last run of the script is over, or all processes of the machine have exited.

What the properties say, beyond the types (`TypeOK`):

* `CommittedInOrder`, `NothingInTransitLost`, `ImplementsLog`: what is stored is a
  beginning of what was accepted, and store, batch and channel together are all of
  it.  This covers three receive sites and four flush sites against every failure.
* `LossIsBounded`: before Ctrl+C a kill costs at most a batch and a channel.
* `DurableAtExit`: after an exit with a writer that did not fail, all that was
  accepted before Ctrl+C is in the store.
* `StatsCountCommitted`, `ErrorExitMeansNoEvents`, `AppendOnly`: the printed number
  is true; an error exit took nothing in; nothing is written after the writer ended.
* `StopsWhenAsked`, `SendReturns`, `EveryMessageHandled`, `AcceptedBecomesDurable`:
  the process ends; a send does not block for ever; AUTH messages are answered; an
  idle system still flushes.
* `IdsAreDense`, `EdgesAreAudited`, `PropertiesAreAudited`, `StoredIsComplete`,
  `NothingForgotten`: the invariants of the graph at every statement, through
  failures, kills, and reopening.  For the row `i64::MAX` they claim only what
  saturation leaves true.
* `GraphIsTheLog`, `OneTornRowPerCut`, `ExitLeavesAllInGraph`: the rows are exactly
  the log of the pipeline over all runs; a flush cut short leaves at most its last
  row without nodes or edges; after a normal exit everything accepted before Ctrl+C
  is in the graph to the last edge, and the printed number is that of the rows.
* `SubscribedAsConfigured`, `StoreIsMuted`: the client is subscribed to exactly the
  configured events, by the reference definition `ResolvedAsDocumented`, and the
  store is muted whichever of the two threads is first (for stores with a directory
  part, without a link or with at most the last level missing; see 6).
* `OneEventPerOperation`, `EventsAreSelfContained`: an operation whose NOTIFY is
  subscribed to is counted once, also when its AUTH arrives too, and one that is
  subscribed to in neither form is not counted (AUTH alone: see 6); no edge of an
  event has an end that its nodes do not describe.
* `KeyNamesOneImage`, `LiveProcessesAsTheyAre`, `LineageIsConnected`: pids that are
  used again do not mix processes; a living process never shows an exit or another
  one's command line; its ancestors can be followed in order of time.
* `FilesCanBeFollowed`: by source and metadata of the renames a created file is
  found where it is now.
* `CleanupAtMostOnce`, `AttackIsCleanedUp`: whatever signals and failures there are,
  exactly one cleanup is begun after an attack.  Begun: a signal during the ssh of
  the cleanup ends it, and `SCENARIO_CLEANUP_DONE` keeps it from being begun again.
* `ServerEndsWithScript`: a script with its traps installed ends without its server
  and pid file, or it was aborted, in the one way said in section 2.
* `ManagementIsNotCollected`: the collector is off in warm-up and management,
  whatever the run before left running.
* `LatestIsWhole`: an interruption can leave half a database in `latest/`.  But
  `source-run.txt` names a database only when all of it is there, no database has
  the `.wal` of another run beside it, and a run that got through has published
  itself completely or, without an `events.lbug`, not at all.
* `RunEnds`: the script comes to an end, aborted or not.

## 4. Fairness

`FairSpec` assumes weak fairness of the handler, the main thread, the writer and
the flush interval: operating-system threads that can run are run, calls of the
store return, and time passes.  The poll of 200 ms and the interval are delays,
not conditions, so weak fairness is what they give.  Nothing is assumed of the
user (Ctrl+C), of macOS (messages), or of faults.  Strong fairness is not needed:
a blocked send stays enabled once the writer has made room, because there is only
one sender.  In reality messages do not stop; the bound `MaxMessages` ends the
drain in the model, and in the code it ends because the main thread drops the
client within one poll, which the model has too.

`Simulation`'s `FairSpec` assumes that commands of the two scripts return
(`HostStep`, the remote steps) and that a collector that was told to stop does,
which is what `StopsWhenAsked` shows of it.  Signals, lost connections and the
commands of the attack are not obliged to come.  A command that hangs for ever
(`ssh` without a timeout to a VM that is frozen) is excluded by this assumption.

## 5. Proofs

`tlapm <module>.tla` checks each of the seven modules below.  A theorem holds for
every value of the constants that satisfies the named assumptions; TLC evaluates
these on every run.  All inductive invariants (each module's `IInv`,
`SetupInv` and `HistoryInv`) were checked by TLC on the runs' instances before they were proved.

| module | assumptions | inductive invariant | theorems and the properties they state |
|---|---|---|---|
| `LivePipelineProofs` | `ConstantsAssumption` | `IInv` | `TypeCorrect` (`TypeOK`), `Invariant` (`IInv`), `StoreInOrder` (`CommittedInOrder`), `InTransitSafe` (`NothingInTransitLost`), `BoundedLoss` (`LossIsBounded`), `ExitIsDurable` (`DurableAtExit`), `StatsAreTrue` (`StatsCountCommitted`), `ErrorExitIsClean` (`ErrorExitMeansNoEvents`), `StoreOnlyGrows` (`AppendOnly`), `PipelineImplementsLog` (`ImplementsLog`, the specification of `EventLog`) |
| `GraphStoreProofs` | `EventAssumption`, `StoreAssumption` | `IInv` | `TypeCorrect` (`TypeOK`), `DenseIds` (`IdsAreDense`), `EdgesAudited` (`EdgesAreAudited`), `PropertiesAudited` (`PropertiesAreAudited`), `StoredComplete` (`StoredIsComplete`), `GraphOnlyGrows` (`NothingForgotten`) |
| `LiveSystemProofs` | `RunsAssumption`, `LimitsAssumption`, `EventOfAssumption`, `CommandLineAssumption` | `IInv`, which contains both parts' | `TypeCorrect` (`TypeOK`), `GraphIsLog` (`GraphIsTheLog`), `OneTornRow` (`OneTornRowPerCut`), `ExitLeavesAll` (`ExitLeavesAllInGraph`), `ImplementsGraphStore` (the specification of `GraphStore`), `GraphOnlyGrows` (`NothingForgotten` of the store) |
| `SubscriptionProofs` | `ConfigAssumption`, `FileSystemAssumption` | `SetupInv` | `SetupInvariant` (`SetupInv`), `Subscribed` (`SubscribedAsConfigured`), `StoreMuted` (`StoreIsMuted`), of the setup alone |
| `CollectorProofs` | those, `MachineAssumption`, `NoneAssumption` | `IInv`, beside `SetupInv` | `SetupProceeds` (the setup's specification), `SubscribesAsConfigured` (`SubscribedAsConfigured`), `MutesStore` (`StoreIsMuted`), `TypeCorrect` (`TypeOK`), `OneEvent` (`OneEventPerOperation`), `SelfContainedEvents` (`EventsAreSelfContained`), `OneImagePerKey` (`KeyNamesOneImage`), `LiveProcesses` (`LiveProcessesAsTheyAre`) |
| `HistoryProofs` | the same | `HistoryInv`, beside `IInv` | `History` (`HistoryInv`), `Lineage` (`LineageIsConnected`), `FilesFollowed` (`FilesCanBeFollowed`) |
| `SimulationProofs` | `BoundsAssumption` | `IInv` | `TypeCorrect` (`TypeOK`), `CleanedUpOnce` (`CleanupAtMostOnce`), `AttackCleanedUp` (`AttackIsCleanedUp`), `ServerEnded` (`ServerEndsWithScript`), `ManagementUnseen` (`ManagementIsNotCollected`), `LatestWhole` (`LatestIsWhole`) |

### Why the assumptions hold of the code

`ConstantsAssumption`, `StoreAssumption`, `BoundsAssumption`, `RunsAssumption`,
`LimitsAssumption` and `MachineAssumption` say that bounds are numbers, that a
capacity is above 0 (`batch_size.max(64)`), and that faults are among the ones the
models know.  The others say more:

* `EventAssumption`: an event has lists of nodes and edges with labels of the
  schema.  It may have an empty token; `ingest` refuses it then.
* `EventOfAssumption`: what the normaliser makes of a message is such an event and
  is not refused.  Every ES message names its process by an audit token
  (`normalise.rs`, `process_node`), so the keys are never empty.
* `CommandLineAssumption`: two nodes with one key do not have different `args`.
  Only an exec has `args`, for its target, and the target of an exec has a new
  token (section 7).  Without it `ExitLeavesAllInGraph` would be false: the upsert
  of the later event would replace the command line of the earlier one.
* `ConfigAssumption`: the shape that parsing gives a configuration.  It may well be
  invalid (unknown names, a batch size of 0); the setup refuses it then.
* `FileSystemAssumption`: a directory's parent is one, links lead to directories
  that exist (section 7).
* `NoneAssumption`: the model value for "absent" is neither a payload nor the
  destination of a message.

### The arguments

**LivePipeline.**  `CommittedInOrder` and `LossIsBounded` are not inductive: a flush
appends the batch, so one has to know that the batch continues the store
(`NothingInTransitLost`), that it is short (`BatchBounds`: the size is tested
after every receive except in the drain, and the drain happens only after
Ctrl+C), and that a writer that has left the loop holds all that Ctrl+C found
(`LeavesWithEnough`: at the end of the drain the channel is empty, so batch and
store are everything accepted so far, which is at least `cutoff`; after a
disconnect nobody can send any more).  `NoEventsBeforeSubscribe` carries the fact
that messages come only after the last step of the start that can fail.  There is
one lemma per conjunct, with one step per action under it.

**GraphStore.**  Between two batches the properties are easy to see; a batch is many
statements, and a kill may come after any of them.  So the invariant says what the
statements so far have done: the ids in `queue` are the last ones handed out
(`QueueIds`), the rows are those up to the id being worked on and no others
(`RowsKnown`, with `LastId`), and of the first event in the queue the row, the
nodes and the edges whose statements lie before `at` exist (`Executed`).
`RowsKnown` is what `reload_next_ingest_id` relies on: the largest id of a store
without gaps tells where to go on, after whatever failure.  At `i64::MAX` ids
saturate, and rows are then written over; the statement of `RowsKnown` holds there
too because `RowId` is part of it.  Statements that only touch another part of the
graph are dealt with once, in lemmas about what an upsert and the creation of an
edge keep.

**LiveSystem.**  A step of the system is a step of `LivePipeline` and one of
`GraphStore`, of one of them perhaps a stutter, so the invariants of both parts
are taken over as they were proved (`INSTANCE LivePipelineProofs`, `INSTANCE
GraphStoreProofs WITH ...`).  What is new ties them together: the query under
execution is the tail of the writer's batch (`QueueIsTail`); the rows are the logs
of earlier runs, what this run counted as flushed, and the part of the batch that
the flush has got through (`RowsAreTheLog`); a row belongs to an event stored
whole, or is the last one of a flush cut short, or is the one being worked on
(`RowsAccountedFor`).  No id saturates, because the bound on ids is never reached
by the messages there are (`IdsInBounds`).  `ImplementsGraphStore` follows from the
same step lemma: to the database, runs with a pipeline in front are one of the
behaviours of the store, so every property of `GraphStore` is one of the system.

**Subscription.**  The names are resolved one per step (`ResolveName`, an iteration
of the loop in `resolved_event_names`), so that the induction over the list is an
induction over steps: `NamesResolved` says that `names` are what the names taken
so far make, each once, by first mention.  For `StoreIsMuted` the invariant is
`StoreToMute`: once `ChooseMutes` has looked at the file system, the prefix of the
store is muted or waits in `toMute`.  This holds although `WriterOpensStore` may
create the directories before, between or after: `CanonicalIsReal` shows, by
cases on whether the store's directory, its parent, or neither exists when
`canonicalize_prefix` looks, that the prefix chosen is the real path, as long as one
of the two existed from the beginning or there is no link on the way.

**Collector.**  That an event is well-formed is shown of `normalise_message` for
*every* message (lemma `Normalised`, one lemma per kind of arm): at most one part,
whose edges have their ends among its nodes, and whose process nodes describe the
instigator or the target.  An action of the machine is summarised as a `Deed`: a
message now, by a process that lives, about one that lives or is new.  `OneImage`
is the induction: a pid and version have one image among all nodes and all living
processes, *and no version is later than the operations so far*; the second part
is what makes a new process different from all earlier ones when a pid is used
again.  `NodesAreTrue` says of a node with an exit that its process does not live.
`SetupProceeds` shows that the machine never disturbs the setup, so the theorems of
`SubscriptionProofs` carry over.

**History.**  Both properties are about the edges in order of time, and are stated
so that they grow with the operations, without recursion.  `Known(t)` are the keys
the graph has introduced before time t; an edge starts from a key known before it,
and the new target of a fork or an exec, or the user changed to, is known from then
on, so every living process stays known.  A file has a course, a function from its
creation to now that changes with the renames in the graph and only with them;
`OneMoreMove` extends a course by an operation, and `FilesNext` shows that the
extended one ends at the name the file has then: the rename of another file, or of
an earlier one with this name, moves it nowhere.  What both need of the normaliser
is `EdgeAbout`: fork, exec, rename and create have exactly one edge, of that kind
and between those ends.

**Simulation.**  The properties speak of the end of a run.  The invariant says at
each command what has been done (`Control`): which commands belong to which
`SIM_PHASE`, where the traps are installed, and where the cleanup has begun;
`CleanupsCounted` ties `SCENARIO_CLEANUP_DONE` to the number of cleanups, for this
run, the ones before and the ones to come; `ServerKnown`, `CollectorOff` and
`Published` do the same for the pid file, the VM and `latest/`.  A signal may come
at every command, so each conjunct has to hold at every one of them.  `Published`
says at every step of the filling which files are there and how far: that the run
is not yet in `source-run.txt` is what keeps half a database from being named, and
that both files are removed before either is copied is what keeps the `.wal` of
another run away.  `BoundsAssumption` leaves open which bash it is.

### What is only model-checked

* Liveness: `StopsWhenAsked`, `SendReturns`, `EveryMessageHandled`,
  `AcceptedBecomesDurable`, `RunEnds`.  Fairness is beyond the prover.
* That the model's operators agree with the code, as everywhere: that is what
  `map` is for.

Writing the proofs changed the models in these places: `Subscription` has the loop
over the names as steps instead of a fold; `LiveSystem` states what it assumes of
the normaliser; the assumption on links was found missing when `CanonicalIsReal`
could not be shown of a link that leads nowhere; `LineageIsConnected` and
`FilesCanBeFollowed` were stated with functions that recurse over time, and now say
that each edge starts from what is known and that a course exists.  The first is
stronger than it was: it speaks of every edge, not only of the processes that live.

## 6. Disagreements between code and documents

1. *"Writer drains the channel before exit."* (`docs/ARCHITECTURE.md:42`;
   `README.md:80` says the same in other words).  The writer sees the flag, drains, and returns, while the
   handler goes on sending until the main thread's poll.  Such an event is
   accepted and dropped with the receiver (`pipeline_late_send`).  What does hold
   is `DurableAtExit`: nothing accepted before Ctrl+C is lost that way.
2. *"Max normalised events per writer batch before flush."* (`config.rs:66`,
   `docs/config.md:54`).  The drain has no size test (`pipeline_drain_batch`).
3. *"Stable key for a process node in the graph. ... `audit_token_t` is unique per
   process instance."* (`model.rs:9-11`, `docs/core.md:71`).  The token is unique,
   but not stable: it contains the user ids, and all of it is the key
   (`stable_key`).  No subscribed event joins the two nodes of such a process;
   `LineageIsConnected` therefore takes a change of user as a new root.
4. *"The store directory ... is always muted at subscribe time"* (`docs/esf.md:112`,
   `docs/config.md:73`).  With `path = "events.lbug"` the parent is empty and
   nothing is muted; below a link (`/tmp`) with two missing levels the path is
   muted as written while events carry the real one, unless the writer has created
   the directories before (`store_muted`; what does hold is `StoreIsMuted`).
5. *"Captured uploads land in `<run-dir>/host-http/uploads/`."*
   (`docs/deployment.md:121`).  A server whose script ended before its traps were
   installed keeps the port and answers the next run's health check (`uploads`).

6. *"`notify_exec` / `auth_exec` | parent + child process | `EXECUTED`"*
   (`docs/esf.md:78`; `:85` the same of `auth_open` and `OPENED`).  The normaliser
   has arms for the NOTIFY forms only and returns `None` for the others
   (`normalise.rs:192`): with `auth_exec` alone an exec is answered and not recorded
   (`auth_alone`).  What does hold is `OneEventPerOperation`.
7. *"`simulate-vm.sh` verifies these no longer exist after cleanup."*
   (`scripts/attack-scenarios/README.md:52`).  `expand_cleanup_path` prints every
   path without an end of line (`simulate-vm.sh:385`), so all of them reach the VM
   as one line that does not end, and `while IFS= read -r path` does nothing for
   such a line.  The verification succeeds whatever is left (`cleanup_verify`).

Seen while modelling, without a run of its own:

* `docs/deployment.md:145` and `README.md:82` have `esgraphd status` only read.  It
  opens the store as a writer does (`main.rs:138`, `store.rs:66`) and creates what is
  missing; `Open` is the same for every command, and `status` takes part in `store`.
* `docs/esf.md` names edges (DELETED, BOUND, CONNECTED, INJECTED_THREAD) and
  self-loops that are UNLINKED, UIPC_BOUND, UIPC_CONNECTED, REMOTE_THREAD_CREATED
  and ordinary edges in the code.
* A verification that cannot reach the VM ends an old bash in the EXIT trap
  (`simulate-vm.sh:469`), and the server stays, as `ServerEndsWithScript` allows.
* An update of `latest/` that fails or is interrupted halfway leaves half a database
  there, while `source-run.txt` goes on naming the run before (`:818-824`).
* `run-meta.txt` is written before the cleanup (`:794`), so its three `cleanup_`
  fields are always empty.
* After an interruption the cleanup may begin while the collector is still stopping
  (`:407` sends INT and does not wait), which is why `ManagementIsNotCollected`
  speaks of the ordinary order only.
* A writer that failed is reported after the join only, and the exit status is 0
  (`main.rs:205`); events that keep coming postpone the interval flush until the
  batch is full (`writer.rs:54`).  Both are in the model, and no document is against
  them.

## 7. Assumptions

* The channel and the flag behave sequentially consistently: one flag, set once,
  read with `Relaxed`; a late read is the same as a late step, which the model has.
* The client may be dropped while a call of the handler is in progress.
* macOS calls the handler on one message at a time, in order.
* A query of several statements takes effect statement by statement, and one that
  fails leaves the ones before it (nothing in `ingest.rs` opens a transaction).
* LadybugDB lets one process write: one role has the store open at a time.
* An audit token consists of the pid, a version that no other process instance
  has, and user and group ids; exec gives a new version, a change of user does not.
* A muted prefix takes away the events under it, as `docs/esf.md` says.
* Links are in the root only, as macOS has them for `/tmp`, `/var` and `/etc`, and
  lead to directories that exist.
* One simulation runs at a time on a host, and a pid of its server is not given to
  another process before the script ends (the hazard of `scenario-http-server.sh:131`).
* A rename message has a destination, existing or new, as the kernel has it;
  `normalise.rs:366` also handles one without (`RenameDestPath` does too).
* `query` is taken to run reading statements; `query.rs` does not enforce that.

## 8. What is not modelled

Text: Cypher literals and quoting (`cypher.rs`), JSON, TOML, hexadecimal, logging,
printing, command-line parsing, error types.  Of `model.rs` the fields copied
unread; of `config.rs` and `events.rs` parsing, display and the defaults.  Replay
fixtures are an input of the store.  Of the simulation: ad-hoc commands, runs
without a server, the tries and delays of `stop_pid`, a server that is already
running in a run's own directory (`scenario-http-server.sh:131-138`; the directory
is new in every run).  Of the HTTP server: request
parsing; that two uploads in one second share a file name is a matter of its
clock.  The scripts for deployment and debugging (straight-line commands) and the
attack scenario (an input).  Time is only "the interval has passed"; that an idle
writer spins (`writer.rs:52`) is visible as a loop of the model, and no property
speaks of its cost.  Events ingested out of time order (`ingest.rs:69`): nothing
in the repository says what is meant.

## 9. Plan

All modules of the plan are written, and every safety invariant and action property
that the passing runs check is proved.  What is left:

1. The lemmas on `Normalise` in a module of their own, if replay fixtures are
   modelled as messages.
2. Liveness stays with TLC (section 5).
