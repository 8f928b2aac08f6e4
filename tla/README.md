# A TLA+ development for StreamForge

StreamForge is a repository of loosely coupled programs around one data flow:
MySQL changes are captured by Debezium into Kafka, a Flink job turns them into
windowed per-user features, sinks store the features in Iceberg, MinIO, Redis and
a Kafka topic, and readers, a model server, a drift monitor, a feature store, an
agent/workflow engine with an HTTP front end, and a control plane use them. This
directory holds TLA+ models of the parts whose correctness depends on the order
of events, the TLC configurations that check them on small instances and the
theorems TLAPS proves about them for every instance. All paths below are
relative to the root of the repository.

Every model follows the code as it is written at this commit, including where the
code contradicts its own documentation; those places are listed under "Findings".

## 1. The system

### Components, their state and their operations

| Component | State it keeps | Operations that change it | Interacts with |
|---|---|---|---|
| Pipeline API, `pipeline-api/manager.py`, `server.py` | `_runs` (current run per name), each run's status, stop event and thread; one lock | start and stop requests, the worker thread's final section; list and get read it | the workflow engine, run on the worker thread |
| Workflow engine, `agent-workflow/src/` | agents, the message bus's inboxes, the step configuration shared with the caller | `execute_workflow`, `send_message`, `get_messages` | agents, prefetch engine, the run's stop event |
| Online feature reader and materialisation, `examples/feature-consumption/` | Redis keys, serving objects in MinIO, the Iceberg table; per reader the call in progress and statistics | `get`, `mget`, the nightly job | Redis, MinIO, Iceberg |
| Online store writer, `examples/feature-read-paths/kafka_to_online_store.py` | latest hash and history sorted set per user in Redis; the consumer's offsets | one write per Kafka record, commit | Kafka, Redis, the low-latency reader |
| Feature sink of the demo, `deploy/cdc-flink-minio-demo/feature-sink/` | consumer offsets, objects in MinIO | poll, PUT | Kafka, MinIO |
| Drift monitor, `drift-monitor/` | one baseline histogram, averaged from warm-up windows and moved by an EMA; warm-up buffer, ok-window counter; a file or a MinIO object | one step per window of `feature.drift.signals`, save, alert dispatch | Kafka, webhook and Kafka alert topics |
| Schema registry client and serde, `schema-registry/client.py`, `avro_serde.py` | caches by id and by subject:version; the mock's subjects and ids | register, lookup, delete, serialise, deserialise | Confluent registry over HTTP |
| Schema evolution rules, `schema-registry/evolve.py` | none (pure) | compare two schemas | the in-memory registry's compatibility check |
| Offline reader, `examples/feature-consumption/offline/` | the back-end it has fallen back to | read a range of dates | Iceberg, the bucket |
| Feature store, `feature-store/`, with the readers of `examples/feature-read-paths/` | registered views in memory; a historical job and its rows; what a process found of Redis and MinIO | `apply`, `materialize`, `push`, online and historical requests | the bucket of feature files, Redis beside the Kafka writer |
| Training with a prefetched cache, `examples/ml-training-prefetch/` | a cache directory that jobs share, models on disk and in MinIO | list, rank, stage, read back, train, save, upload | the bucket, an Iceberg catalog |
| Prefetch engine, `prefetch-engine/` | two directories that runs share, counts of a run | write the manifest, copy, look, upload | MinIO, the metrics gateway, lineage |
| Stream processor, `stream-processor/` (Java, Flink) | per job: offset, watermark, windows, drift monitor, snapshot buffers, checkpoints; the Iceberg table; the dead-letter topic | the live job, a backfill, the job that reads the dead letters, a maintenance run, the inference pipeline | Kafka, Iceberg, the model server |
| Lineage, `lineage/` | an append-only event file | run start, complete, fail | every job that wraps itself in a tracker |
| RAG engine, `rag-engine/` | a vector collection (or a list in mock mode) | ingest, query | Milvus, an LLM |
| Control plane, `control-plane/` | none of its own; polls Docker, Flink and MinIO | read-only routes and a TypeScript UI | all services |
| Pipeline schema linter, `pipeline-schema/sf_lint.py` | none (pure) | validate a YAML document | the JSON schema |
| Benchmarks, deploy files, docs | none of interest | | |

### What is hard about it

* **Threads and locks.** The run manager drops its lock between filing a run and
  starting its thread, and while it waits for a thread to stop.
* **Remote calls without transactions.** Every write path is a sequence of
  independent calls (table, MinIO, Redis, Kafka commit); other processes run
  between any two of them, and each may fail alone.
* **Caches.** Three-level read-through with write-back, registry caches that no
  write invalidates, baselines cached in memory over a file.
* **Delivery.** Consumers commit automatically or not at all, so records are lost
  or redelivered at a restart; windows are re-emitted when late data arrives.
* **Retries and timeouts.** HTTP clients retry with bounded attempts; the model
  server call has a timeout that races its answer.
* **Windows and watermarks.** What counts as late depends on the order of messages, on
  timers, and on state a checkpoint does not have.
* **Long sequences.** Versions are numbered by position after deletions, moving
  averages warm up and adapt, history sets are trimmed by rank.

`PROJECT.json` lists the individual hazards with their lines and the properties
that would notice each going wrong.


## 2. Plan

The order follows what would hurt most if it went wrong: state that several
actors change, then state that survives a crash, then pure rules.

| # | Module | Composes or implements | State |
|---|---|---|---|
| 1 | `PipelineManager` | implements `PipelineLifecycle` | checked, proved |
| 2 | `OnlineFeatureCache` | readers, nightly job, Redis, MinIO and the table in one specification | checked, proved |
| 3 | `OnlineStoreWriter` | Kafka consumer and Redis | checked, proved |
| 4 | `DriftMonitor` | Kafka consumer and the stored baseline | checked, proved |
| 5 | `WorkflowEngine` | the engines of overlapping runs over one configuration; `AgentWorkflow` puts them under (1) | checked, proved |
| 6 | `SchemaRegistry` | Python and Java clients, both serdes and the registry; `MockRegistry` puts the in-memory one beside it, which asks `SchemaEvolution` | checked, proved |
| 7 | `StreamProcessor` | `CdcSchema` under `StreamJobs` (live job, backfill, dead letters), then `IcebergMaintenance` and `InferencePipeline` on top of it | checked, proved |
| 8 | `FeatureLake` | `FeatureStore`, `TrainingPrefetch`, `PrefetchEngine` and `BatchReader` over one bucket, `Lake` | checked, proved |

Of what was planned, an abstract queue that the two Kafka consumers implement remains.

## 3. The models

Each module is written so that a reader can put it beside the code: an action is a
handler or one remote call of it, and `PROJECT.json`'s `map` gives the lines every
definition translates. Operators named in a comment "Mutant: ..." are plausible bugs
of the definition that follows them; each property is violated when its
mutant takes the place of that definition.

The circumstances a deployment can be in (which services fail, which messages the
topic carries, which settings are chosen) are one rigid variable `setting`, drawn
from the constant `Settings` in `Init`. The MC modules list the ones TLC explores;
the theorems hold for any set of them.

### PipelineManager

*State.* `runs` is `_runs`; `owner`, `status`, `stopEvent` and `thread` are the
attributes of a `PipelineRun`; `pc`, `arg` and `reply` belong to the HTTP request
threads. *Actions.* What the code does under `with self._lock` is one action
(`StartCreate`, `StopSignal`, `StopMark`, `WorkerReports`); what it does with the
lock released is an action of its own: the assignment of the thread, its start
(which the host may refuse), the join that may time out or raise, and the read of
`run.status` for the reply. The workflow is its outcome; `AgentWorkflow` says how it comes
about.
Timestamps, logging and the read-only routes are left out.

`PipelineLifecycle` states what the manager promises of a run: it begins when its
name has none running, can be asked to stop only while it runs, and ends once.

### OnlineFeatureCache

*State.* The Iceberg table as the set of windows per user (`offline`), the feature files
(`raw`), Redis, the serving objects in MinIO; per reader the stage of its call, the dict
it fills and its statistics; the job's vectors and the users it has not written yet.
*Actions.* Every remote call: `L1Read`, `L2Read`, `L2Fill`, `L3Hit`/`L3Miss` (a miss is
also what a scan that fails, or a missing package, looks like), `L3FillRedis`,
`L3FillMinio`, the job's read, PUTs (in any order, from a thread pool) and warm-up
commands, plus appends and expiries. The job reads as `BatchFeatureReader` does: the
table, or the files filed under the dates asked for, or rows made up for the ids in
`Synthetic`; the default run asks for yesterday alone. A vector is its user and window.
`ObjectKey` maps users to objects: the code's replacement of characters is not
injective, so the proof assumes it (`OwnObjects`) and the instance provides it.

### OnlineStoreWriter

*State.* The topic, the committed offset, the consumer's position and the record in
hand, the user's hash and sorted set. *Actions.* `Write` is the MULTI/EXEC of HSET,
ZADD, ZREMRANGEBYSCORE and ZREMRANGEBYRANK; `AutoCommit`, `IdleExit`, `Shutdown`
(the signal handler commits whatever was handed out) and `Crash` are the ways the
offset moves or does not. Windows may come late or again with another count. One
user is enough: no two users share a key. Members of equal score are ordered by
count where Redis orders them by their bytes. TTLs are the circumstance `keysExpire`.

### DriftMonitor

*State.* As above for the consumer; `baseline`, the warm-up buffer and `okCount` in
memory; the stored baseline, which a file has also in a truncated form.
*Actions.* `Start` loads and seeks; the loop body warms up, or finds a level and
moves the baseline; a save to a file is two steps, one to MinIO is one. A window is one
bucket's count. The level is left open instead of computing the PSI (a sum of
logarithms): every sequence of levels is explored. The exception of the
deserializer is raised in the body of the loop. The floating-point sum is truncated,
and may come out just below an integer: `Ema` has both outcomes.

### WorkflowEngine

*State.* Per run the step, where in it the engine is, the queues of its agents; the
`messages` of each step's input dictionary, which belongs to the configuration and so
to every engine built from it. *Actions.* One per outcome of the loop body: see the stop event,
raise for a step without agent or action, skip an unknown agent, take the messages,
execute, fail under either policy, finish. With the lineage package importable the
engine calls a method that does not exist, so every step raises (`Works`).

`AgentWorkflow` is the two together, as `_run_pipeline` joins them: the stop event the manager
sets is the one the engine looks at between two steps (`ManagerOnly`), a worker reports what its
engine returned or raised (`Report`), and an engine works while its worker is in it
(`Execution`). One pipeline is configured, as engines share inputs within one only; another
name is answered 404.

### SchemaRegistry

*State.* The registry (ids, versions that are live, soft-deleted or gone); per program
both LRU caches, the table of parsed writers, the serializer's id and schema, the call
in progress; the messages written so far. *Actions.* A call begins (`Serialize`,
`Deserialize`, `Ask`), looks into a cache, is answered, refused or left unanswered (a
lost reply may or may not have been carried out, and is retried up to `Attempts`
times), and ends. `Crash` loses everything but the registry and the topic. Serializers
come in five modes: with a schema, with the registered one, without `auto_register`,
the Java one, and the Java one after it was shipped to a task manager. The registry's own
behaviour is modelled from the requests of the clients and marked external.

`SchemaEvolution` is `evolve.py`: the kinds of change between two schemas, the levels
decided from them, and beside them what Avro's schema resolution can read (`Reads`). Where
an approval promises more than that, the difference is one of the named gaps
(`BackwardGap`, `ForwardGap`). `MockRegistry` is `MockSchemaRegistryClient`: lists of
entries, the map and counter of ids, the inherited cache, levels and the last answer of
the check. Its calls are made in one thread, so each is one action. `RegistrySpec` is a
deployment with a server or one with the mock; the spec of the run `sr`.

### StreamProcessor

`CdcSchema` is what is done with one message: aliases in their order, detected changes,
the schema version, the filter, the validator, and the JSON an event is written as again.
A row is a function on the columns it has. `StreamJobs` runs it inside
`CdcUserEventCountJob` and `BackfillJob`; a job's record is its whole Flink state.
*Actions.* `Submit` and `CreateTable` (the question whether the table exists and its creation
are two steps); one action for each fate of a message: `Skip`, `Reject` (dead letter),
`Quarantine`, `Count`; `Advance` and `EndOfInput` move the watermark, `Fire`, `Monitor` and
`Flush` are the timers, by event time and by the wall clock; `Send`, `Checkpoint`
(Iceberg commits with it), `Finish`, `Crash`, `Restart`; `DlqRead`. Flink, Kafka, Iceberg
are external: watermarks are periodic, due timers fire before the next message, a
restart goes back to the checkpoint, which has no watermark. One partition and one
subtask per operator. Counts, drift snapshots and predictions leave through producers
without a delivery guarantee: each has a buffer (`unsent`, `unsentSignals`,
`unsentPredictions`), which a crash empties, and a topic, which a restart leaves as it is.
The sinks of the dead letters and the quarantine are of the same kind; a letter is taken
for written at once, as the properties are about what is in it. With `ICEBERG_ENABLED` unset, which
is "false" to the code (`CdcUserEventCountJob.java:275`, `BackfillJob.java:148`), nothing is committed. An event that goes from one operator to the next is a copy without its
transient fields (`Copied`), so the filter never sees the detected changes.

`IcebergMaintenance` is one run over the table the jobs commit to, each phase a step, the
scan one that may end at any file (its exception is caught);
`InferencePipeline` the asynchronous calls of `ModelServerAsyncFunction`: the request, the
answer however late, the timer that asks and the `timeout` it calls after that, emission
in the order of completion, checkpoints of the queue. `CdcUserEventCountJob` and
`IcebergMaintenanceJob` do not compile at this commit; they are modelled as written.

### FeatureLake

`Lake` is the bucket, to which objects are only added. *FeatureStore*: a process finds its
back-ends once (`Open`), each falling back on its own; a range read lists day after day
(`ListDay`) and fetches file after file in any order (`ReadFile`); a file lies under the
day of the sink's clock, whatever its windows; a push is two steps per row (`PushRow`: hash,
then history) beside the transactions of the Kafka writer (`StreamWrite`, which prunes by age
and by rank) and expiry; an online request is one `HGETALL` per entity row, then a join.
A process that ends loses registry and job. *TrainingPrefetch*: a job's connections and
files are steps that fail one by one; the cache is a function from local names to the file
whose content is there, and two paths may have one name (`LocalName`); a file that is not text,
or whose JSON is no object, ends the run (`NotText`). *PrefetchEngine*: writing, checking and copying each file are
steps, so that runs and a cleaner of temporary files come between them; the lineage
context and its emitters are `Start`, `Complete`, `Fail`. *BatchReader*: each remote call
of a read is a step that may fail; a fall-back stays for the reads that follow. A record
is its identity and, if it states one, its date. The bucket and the Kafka writer are seen
from here; the writer itself is `OnlineStoreWriter`. Files arrive as `flush_batch` of
`feature_to_minio.py` files them (`Arrive`, `AddObject`); its `main` calls
`build_object_key` with one argument of two at this commit and would raise.

## 4. The runs

| Run | Shows | Instance |
|---|---|---|
| `agents` | `RunningIsCurrent`, `OrphansWereStopped`, the refinement `LifecycleSpec`, `EveryRunEnds`, `ResultsReachTheirStep`, `StopPolicyHolds` | 2 runs; 2 clients over one-step workflows that succeed, fail or are not understood; 1 client over every workflow of 3 steps over 2 agents, and over one of 6 steps |
| `ofc` | `RowsOfTheirUser`, `NoneMeansAbsent`, `CachesConverge` | 8 deployments over 3 users, 2 windows, 2 readers |
| `osw` | `HistoryExact`, `ReplayIdempotent`, `CommittedOffsetMoves` | 3 windows, 4 messages, a day of 2 windows, a cap of 1 (2 records stay) |
| `dm` | `CommittedIsHandled`, `StoredIsInUse`, `UpdateAfterOkRun`, `EveryWindowIsHandled` | counts 0..3, 4 messages, warm-up 2, update every 2 windows, alpha 1/2 |
| `sr` | `CachesAreTrue`, `HeaderNamesWriterSchema`, `DecodedAsWritten`, `RegisteredOnReturn`, `IdsKeepTheirSchema`, `ApprovedIsReadable` | 2 programs, 1 subject, 2 schemas, 3 ids, 3 versions, 2 attempts, 5 circumstances; 2 mocks, one with every pair of 8 texts at every level |
| `lake` | `RangeReadsAreExact`, `LatestIsInHistory`, `AnswersFollowTheirKeys`, `JobsAnswerOnce`, `TrainsOnItsSelection`, `EngineCountsAgree`, `LineageTellsTheEnd`, `BatchReadsTellTheirSource` | 3 objects, 2 users, 4 windows on 2 days, 2 processes, 2 training jobs, 2 prefetch runs, a reader of two ranges, 15 settings |
| `stream` | `StreamTypeOK`, `PredictionsAddUp`, `CountsAddUp`, `SnapshotsAddUp`, `DeltasFollowTheWindows`, `MaintenanceKeepsItsWord`, `CountsArePredicted` | feeds of up to 9 messages, windows of 2, a lag of 1, times up to 8, one crash, 15 settings |

The five other runs, `agents_meet`, `dm_torn`, `ofc_docs`, `lake_docs` and `stream_docs`, expect a
violation: each takes what documents, comments or messages of the repository say of one of
these models, and TLC finds the behaviour that contradicts it. Section 6 has them.

Type invariants are theorems. Four of the runs check one too; the others leave them out.

Why the bounds are enough to be worth something:

* `agents`. Every hazard of the manager is between one start, one stop and a second start: two
  clients and two runs of one name; a name without a definition reaches the 404. A queue, an
  output and a second step of the same agent need three steps; the longer pipeline adds an
  unknown agent, an unknown action and a merge, and is executed by two runs that overlap. The
  workflows of three steps have one run and one client: what they are about is one engine, and
  stops of it.
* `ofc`. A stale write-back needs an older and a newer window and two writers; a
  mix-up of users needs two users, one of them an id that rows are made up for. Each
  deployment of the MC module has what one of these needs; the job runs over the
  table, over yesterday and over older dates, with its packages or without.
* `osw`. With a span of two windows and a history of two, three windows reach both
  pruning rules, a fourth message a replay after either. The real values are 24 h and
  2880.
* `dm`. Four messages are a warm-up of two and an update after two; a fifth would repeat it.
* `sr`. Caches of one entry evict at the second schema. Three attempts of the code are
  two here: one lost reply followed by an answer, and the attempt that gives up. The 8
  texts have a field of each form, scalars that widen, branches that come and go, a name with two
  definitions and fields with and without a default; four ids are two subjects, a
  deletion and a registration after it.
* `lake`. Two processes or jobs are a race. A day of two windows has a range that
  begins and ends inside another day's; two of the objects have one base name, one cannot be parsed,
  and a selection of two leaves a third out. A reader falls back at most twice, and its next read
  shows that it stays. The four programs do not share state but the
  bucket and run one at a time: each setting lets one of them run beside the filling bucket.
* `stream`. A window fires twice with four messages, one of them behind the watermark, and one
  restart; a delta needs three windows, the middle one below the threshold. There is a
  message of every kind, a backfill of either mode beside the live job, four commits for a
  maintenance run, two requests that may be open at once. The drift thresholds are 50 and 60
  per cent of small counts; the real ones differ in value only.

`CHECK_DEADLOCK FALSE` is set where the system may stop: in `agents` requests, in
`sr` ids, in `lake` and `stream` feeds and jobs come to an end, and so in the runs that expect a
violation beside them. The other runs check deadlock.

### Fairness

* `agents`: a request that has begun and a worker that was started go on, in the manager and
  in the engine (threads are scheduled; a workflow is a finite list of steps). Nobody is obliged
  to send requests.
* `ofc`: calls go on (every remote call has a timeout), a run of the job goes on, and a
  key that is set again and again expires once. Nothing starts the job: `CachesConverge`
  says what follows where somebody starts it again and again for dates that include a
  user's newest row, which the default, yesterday, does for a day only.
* `osw`, `dm`: the process is restarted when it is down. Nothing in the repository does
  that; both are services meant to run all the time, one of them ends by itself on an idle
  topic, so whoever operates them starts them again, and the two liveness properties say
  what they get for it. The steps of the loop are strongly fair: a kill may hit any
  step, and not the same step for ever.
* `stream`: what Flink does by itself goes on in the inference pipeline: invoking, the
  operator's timer, `timeout`, emission and the restart (weakly fair as one; crashes are
  bounded by `MaxFails`). Nobody promises that the model server answers, and no fairness is
  asked of `Respond`: `CountsArePredicted` rests on the timer alone.
* `sr` and `lake` have no liveness property.

## 5. The proofs

Eight modules `...Proofs` hold the theorems; each extends its component and assumes
nothing but the `ASSUME` of that component, which TLC evaluates in every run, and
the named premises of the theorem.

* **PipelineManagerProofs.** `IInv` adds to the checked invariants what they rest on: an
  object nobody created is known to nobody (`UnusedUntouched`), `_runs` files a run under
  its own name (`FiledUnderOwner`), a run is open until its worker reports
  (`UnreportedOpen`), and what each request thread knows of the run it holds
  (`ClientsKnow`, `OneStarter`). Without the last two, a second starter could start a
  run's thread twice. `OrphansAreStopped` follows: a worker at work has an open run, a
  running run is the current one, so a run that is not current is a stopped one.
  `ManagerRefinesLifecycle` maps every step to a step of `PipelineLifecycle` or a stutter. All
  this is proved of `PipelineManager` alone, whose workflow may end in any way;
  `AgentsKeepTheManager` and `AgentsKeepTheEngines` carry it, and what is proved of the engines
  alone, over to `AgentWorkflow`, which adds no step to either.
* **OnlineFeatureCacheProofs.** `TypeInv` is the type invariant with `Held` (who is about
  to write holds a vector). `CachesAreSound` assumes `OwnObjects`: no two users share
  an object. Its `RowsInv` says that stores, answers and vectors in flight are rows of their
  user (`RowsFor`: in the table, in a file, or made up); rows are never removed, so a stale
  vector stays a row, and whichever store the job falls back to has rows only. `NoneIsHonest`
  is about deployments whose Iceberg answers, and needs besides that a reader without a client
  has no MinIO stage.
* **OnlineStoreWriterProofs.** `HistoryHolds`: what a transaction removes is outranked by
  more members than the set may keep or too old for one of them (`Gone`), and stays so
  whatever is written later (`GoneGrows`); `TransactionExact` says that it removes nothing else. That
  a set capped before pruning ends as one capped after it is `CappedBefore`: the past may
  be taken as a set of records and capped at the end. `ReplaysLeaveNoTrace` rests
  on `ReplayInv`: `Resume` is the record the process handles next or would after a restart;
  the set is the highest `Cap` of some records, all of which were written and none of which
  is replaced before `Resume`, with every record that no later one replaces (`HistoryFrom`);
  the hash is the last one written up to there (`LatestFrom`); and the committed offset
  passes over no written record (`PassedOver`).
* **DriftMonitorProofs.** `NoWindowIsLost` (each message before the position was seen),
  `StoredBaselineIsInUse`, `MinioBaselineIsKept` (a stored baseline in MinIO is never
  replaced by a bootstrapped one while reads succeed) and `UpdatesFollowOkRuns` (the
  counter and the history of levels agree) each have a small invariant of their own.
* **WorkflowEngineProofs.** `StopsArePrompt` by the phase a run is in when it is stopped;
  `ErrorPolicyHolds` and `SuccessIsEarned` by what must be executed before the step a run
  is at. `ResultsArrive` is about a run that has the configuration to itself: `FlowInv` says
  that the queue of an agent has the results of the executed steps that name it, in their
  order and from the last step it was asked at on, so that what a step takes is what was due.
* **SchemaRegistryProofs.** The invariant has a typed part (`TypeInv`: types, the
  versions name ids that exist, a call has what its step needs, a serializer has an id and
  a schema or neither) and a part about truth (`Truth`: caches, headers and
  serializers name the schema an id was handed out for). The key fact is that the
  registry only grows (`Grown`): an id keeps its schema and a version its id. Each action
  lemma shows that it grows and that what is new in caches, headers and answers is true.
  The attempt counter is in `TypesHold`. `RegistrationsHold` adds what a deployment without
  deletions keeps (`AllLive`) and what a call in progress has been promised (`Promise`).
  `MockIdsKeep` needs that an id below the next one is in one place of one list (`MockInv`);
  `ApprovedReads` that the last answer was given by the rules, which two lemmas
  compare with `Reads` kind of change by kind of change. `ServersAsBefore` carries the theorems about
  `Spec` over to the deployments of `RegistrySpec` that have a server.
* **FeatureLakeProofs.** Everything is proved of the whole `FeatureLake`, one program at a
  time; the others are shown to leave its variables alone or to add objects.
  Of the prefetch engine, `CountInv` says for each stage of a run how the counts
  relate: what is prefetched, skipped and still to do adds up to the selection, and what is
  prefetched is in the cache, which only grows, and no longer to do. `LineInv` does the same
  for the events of a run. `RunStep` reduces a step to the run that takes it; `HitsAppend` counts
  an appended event. `ServedRowIsInHistory` from `ServedInv`: a served row is in the history, or
  owed to it by the push that has put it (`Owed`), or its user is in `cut`, or it is a window of
  the Kafka writer that was cut from a history full of windows no older (`Outranked`). The steps
  that matter are one process ending a push of a row while another has already put its
  own, and a pruning by rank: what it leaves outranks what it took. Nothing is assumed of the
  days files lie under, nor of the manifests but that they list files of their day. Requests rest on `RequestInv`, one conjunct per process: what a range read still
  owes is in a file it has listed or in a day it has yet to list (`Ahead`), replies are
  of the users they were asked for (`RepliesOk`, over the sequence without the empty
  keys), and a job has given the rows of one read (`JobOk`). `SelectionIsTrained` from `TrainInv`:
  the cache has under a name a file of that name, which need not be the one that was staged, and beside the job's counters there is a set of
  selected files that are staged (`Staged`) and later read (`Fed`), no smaller than what was
  counted. `BatchReadsHonest` from what a read has collected so far (`ReadInv`).
* **StreamProofs.** `PredictionsHold`: each request may be an error once by its answer and once by
  its timeout, so `AddsUp` bounds the errors that were counted together with those that may still
  come by twice the requests, and the errors that wait or were emitted since the start by those
  that were counted. `PlacedInv` is about the sink: what a running pipeline has emitted is in the
  topic or in its producer, and nothing else is before the first crash. `DeltasHold`: the total the drift monitor remembers, the totals it has
  seen and its signals agree (`SignalsAgree`) in the running job and in its checkpoint, so
  that a restart keeps it. `MaintenanceHolds`: the newest snapshot's files sum up to the
  table and snapshots are ordered (`TableInv`), what a run reports is related to what it loaded
  (`CareInv`), and the recursive count of a dry run has a closed form (`CountOfOld`).
  `CountsHold`, where Iceberg is enabled, keeps an account of each job and of its checkpoint: for a user's window, the
  counts committed, written, open and too late add up to the messages read that name it
  (`Balance`; `AccountInv` says that a job is well placed in the topic and not behind its
  checkpoint). A crash discards what the checkpoint does not have, and the balance of the
  checkpoint is what the restarted job starts from. Its premise `FeedTells` says that a
  message's `of`, which the property counts by, is the user the parsers find in it; it is a
  premise of this theorem and no assumption, since nothing else needs it, and it is true of the
  feeds the run uses. `StreamTypes` needs besides that a dead letter holds no more
  than an object's identity, which no repair reads (`LettersInv`), `CountersInv` and
  `ReportInv`.
  `SnapshotsHold` from `SnapInv`: what the snapshots of a window have told is at most what its
  rows sum to, and equal unless a user's window has two rows; who waits for a snapshot has
  a row; the checkpoint agrees with the table alone, as a checkpoint holds no unwritten row. Until
  the first crash whatever has a row is over and is not counted again (`FirstRun`), so two
  rows take a crash. That is what the operator emits; of what consumers receive
  `HeardInv` says that until the first crash topic and producer together have, for each window,
  exactly that (a sum over a sequence that grows at its end). After a crash
  nothing of the kind is true: what was sent is sent again, what was not is lost.

Induction over data is done with least numbers: the set of lengths for which a claim fails,
were it not empty, would have a least element (`LeastNumber`, from the library's theorem on
well-founded relations). A few lemmas on sums and least numbers occur in two modules,
because a module that holds them would have to be extended beside two systems.

Left to TLC: liveness (`EveryRunEnds`, `CachesConverge`, `CommittedOffsetMoves`,
`EveryWindowIsHandled`, `CountsArePredicted`), which is out of the prover's reach. Every
safety property a passing run checks is a theorem.

Proved and in no run's list, each for every value of the constants: `NoDeadRunning`
and `StopReplyHonest` of the run manager, `BootstrapWithoutPrior` of the drift monitor,
`StopIsPrompt` and `SuccessMeansWork` of the engine, `MissingIsGone` of the registry, and the
type invariants of the writer, the drift monitor, the engine and the programs around the
bucket (`StoreTypeOK`, `TrainTypeOK`, `EngineTypeOK`).

## 6. Findings

What a document, a comment or a message of the repository says and the code does not do is
stated as a property of a run that expects a violation. Two of these runs check a disjunction of such
statements, each a definition of its own: the state TLC reports is one in which none of them
holds, so it contradicts each. `RunsDoNotMeet` is weaker than either of the two sentences it
is about, and `NoneMeansNotFound` fails in both deployments of its run. `PROJECT.json` has
the details.

| Run | What is said, and where | What the code does |
|---|---|---|
| `agents_meet` | "Concurrent runs of the same pipeline name are rejected" (`manager.py:6`) | a stop whose join times out frees the name while its worker still executes |
| | "shallow copy; engine doesn't mutate top-level" (`manager.py:154`) | overlapping runs find each other's messages in their inputs |
| `ofc_docs` | "None → user_id genuinely not found" (`online_reader.py:38`) | `mget` takes the None of a MinIO miss for an answer and does not ask Iceberg; a scan that fails, or a missing package, answers None as well |
| `dm_torn` | bootstrapped "when no prior baseline exists" (`baseline_store.py:9`) | a kill between truncation and write leaves a file that does not parse, and the next process bootstraps; so does a read that fails |
| `lake_docs` | records in "[start, end)" (`offline_batch_reader.py:197`) | the end day is read (`RangeEndsBefore`) |
| | "all records whose window_start_ms falls in" the range (the same line) | a window filed under the next day is missed (`EveryRecordIsRead`) |
| | "falling back to prefix scanning otherwise" (`offline_batch_reader.py:302-303`) | a day without a manifest has no rows as long as MinIO answers (`ManifestsAreNotNeeded`) |
| | "at most this many history windows" (`kafka_to_online_store.py:52`) | one more is kept (`HistoryWithinCap`) |
| | staged files are found locally (`prefetch_warmer.py:116-118`) | two paths may have one local name, and the later file is read for both (`HotFilesAreLocal`) |
| | "Files that cannot be parsed are skipped" (`feature_store.py:156`) | one that is not text, or whose JSON is no object, ends the run (`UnparsableFilesAreSkipped`) |
| | "force a specific path" (`batch_reader.py:28-29`) | a forced back-end falls back like any other (`ForcedPathIsTaken`) |
| `stream_docs` | the sink defaults to at-least-once (`sink-idempotency.md:14-16`) | it defaults to no guarantee: a crash loses counts that a checkpoint is past (`CountsAreDelivered`) |
| | one (user, window) is "the same logical aggregate" (`sink-idempotency.md:29-31`) | after a restart a fired window fires again with the late part alone (`SameKeySameAggregate`) |
| | incompatible types go to the dead letters (`docs/SCHEMA_EVOLUTION.md:87-89`, `SchemaEvolutionHandler.java:44`) | the detected changes are lost in the copy before the filter, and the event is counted (`TypeChangesAreDeadLetters`) |
| | one drift signal "when the window is complete" (`DriftSignalFunction.java:16`) | the timer goes by the wall clock: later counts give another one (`OneSnapshotPerWindow`) |
| | "Original Debezium JSON for replay" (`docs/SCHEMA_EVOLUTION.md:101`) | a dead letter carries an object's identity, which the job that replays it cannot parse (`DeadLettersCanBeReplayed`) |

The passing runs hold beside these because they say what does hold: `CountsAddUp` counts a row
whose type changed as any other and sums the records of one user and window, as a reader of
the table would find them; `HistoryExact` has the bound of the code; `RangeReadsAreExact`
takes the end day in, and asks for what lies under the days it lists.

Further statements that behaviours of the models contradict, in actions named here, without a
property of their own:

| What is said, and where | What the code does |
|---|---|
| "Return the latest FeatureVector" (`online_reader.py:143`) | the last row of an unordered scan is taken (`L3Hit`) |
| the job reads "Iceberg or raw MinIO JSON" (`materialize.py:7`) | without either it materialises generated rows (`MadeUp`) |
| Redis is kept "up to date with the latest" snapshot (`kafka_to_online_store.py:4-5`) | a failed transaction, or a signal, gives a record up whose offset is committed (`WriteFails`, `Shutdown`) |
| bootstrapped "from the first N windows of data" (`baseline_store.py:8`) | warm-up windows whose offsets are committed are lost in a restart (`WarmUp`, `Crash`) |
| "Malformed drift signal, skipping" (`consumer.py:51`) | what fails to deserialise, or is no number, ends every process that reads it (`DieOnUnreadable`) |
| "Optional lineage tracking" (`workflow_engine.py:9`), "Workflow executed successfully" (`:102`) | with the package importable every step raises, and the run is a success (`Works`, `Fail`) |
| "New schema can read data written with the old schema" and the reverse (`evolve.py:10-13`) | see the named gaps below (`BackwardGap`, `ForwardGap`) |
| what is serialized is deserialized as it was (`avro_serde.py:32-33`) | without `auto_register` the header has the latest id, whatever its schema (mode "unregistered") |
| "COMPLETE emitted on exit, FAIL on exception" (`tracker.py:14`) | an emitter that raises after COMPLETE is in the file adds a FAIL (`Complete`, `Fail`) |
| "inclusive end" (`BackfillJob.java:52`) | the end itself is not read (`Limit`) |

The passing runs hold beside these because they say what does hold: `CountsAddUp` counts a row
whose type changed as any other and sums the records of one user and window, as a reader of
the table would find them; `HistoryExact` has the bound of the code; `RangeReadsAreExact`
takes the end day in, and asks for what lies under the days it lists.

The models contain these further behaviours of the code, about which we found no statement
of the repository, or only one that is in a table above:

* `list_pipelines` shows a run whose thread was assigned and not started as completed, and
  a run whose thread the host refused stays running for ever (`Refused`).
* A job over older dates replaces newer objects; only a run over dates that include the newest
  row repairs that. User ids that differ in replaced characters ("a/b", "a_b") share an object.
* A field that is no number kills every process of the online store writer that reads it.
* The truncated average of the drift monitor never rises by a fraction.
* The Java serializer shipped to a task manager has id 0 and never registers. A deletion whose
  reply was lost is retried and reported as not found. A cached "latest" is never refreshed.
* The in-memory registry serves ids from its cache after they were deleted for good, numbers
  versions by position, so that they move up, and finds a subject without a version, or a version
  that does not exist, compatible.
* The gaps of `evolve.py`: a nullable field without a default counts as
  added with one, a union that loses a branch breaks FORWARD alone and one that gains a branch
  nothing, a widened number (documented as "BACKWARD", line 47) passes FORWARD and FULL,
  branches of one name are not compared, and the transitive levels look at one version.

Of the stream processor:

* A row written as JSON again has every column and counts as V3.
* Predictions and drift snapshots that were sent are sent again after a crash, a
  prediction perhaps with another label; those in a producer's buffer are lost.
* The backfill has no validator, and an event's time counts for the watermark before anything
  is known of the event. A window without events is never processed by the drift monitor,
  and the last one does not fire before a later event comes.
* The number of expired snapshots a maintenance run reports is short of the truth by the
  commits that came in between. Of two jobs that create the table, one fails.

Of the programs around the bucket:

* An object's records get the date of its folder unless they state one. A range without a record
  in the bucket is answered with synthetic rows. `plan_files()` is asked outside the
  handlers: what it raises reaches the caller.
* A push does not compare windows (an older range replaces newer rows) and never trims the
  history; with MinIO down, synthetic rows are pushed to the real Redis. `materialize` does
  not look at the views it is given, and the registry file is never read again.
* A historical job keeps an empty answer after a failed read, and does not join by the
  timestamps it was given beyond their range.
* The mode "live-minio" is reported by a job that trained on synthetic records. A
  manifest in the listed prefix is taken for a feature file. The split of one record leaves
  nothing to fit. Two jobs of one second share an id, and the model of one is uploaded by the other.
* `prefetch.py` names cached files by their base name and copies after it looked; a file
  that goes in between ends the run.

## 7. What is not modelled

`PROJECT.json` lists every component with the reason. In short: the RAG engine, the linter,
the model server and the control plane keep no state that a protocol depends on; the demo's
feature sink raises at its first record. Of the modelled components: metrics, the CLI's
printing commands, storage formats and deployment settings, the type checks of columns
no caller passes, `get_history` of the low-latency reader, the labels of the offline reader's
training rows, and a record that is a field's type by itself in `evolve.py`.
`CdcUserEventCountJob` and `IcebergMaintenanceJob` do not compile at this commit,
`workflow_engine.py` uses `sys` and `Path` without importing them, and `feature_to_minio.py` calls
a function of its own with an argument too few; the models take the functions as they are written.
