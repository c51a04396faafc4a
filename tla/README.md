# TLA+ verification of the CloudZero agent

This directory holds TLA+ models of the CloudZero agent (Go, `src/app`), the TLC
configurations that check them on small instances, and TLAPS proofs of the main
results for every value of the constants. Line numbers refer to the repository's
source; `PROJECT.json` maps every definition to the lines it translates.

## 1. The system

The agent has two data paths and a number of programs that run once.

**Path A, metrics.** Prometheus sends remote-write requests to the *collector*.
The collector decodes, transforms and filters the samples and appends the rows to
two *disk stores* (cost and observability metrics). A store writes one hidden
active file and renames it, when it is full or old, to a visible
`<content>_<start>_<stop>.json.br`. The *shipper*, another container on the same
volume, lists the visible files, asks the CloudZero backend for presigned URLs,
uploads the files and moves or removes them. It purges uploaded files when the
volume fills up. At the end of the pod the collector flushes and writes a marker
file, for which the shipper waits before it uploads for the last time.

**Path B, resources.** The API server calls the *webhook* for every admission.
Its handlers keep labels and annotations in an in-memory *resource store*. The
*pusher* sends unsent records by remote write and stamps them; the *housekeeper*
deletes old ones; the TLS listener takes its certificate from the *reconciler*.
With `--backfill` the same binary is the *backfiller*, which lists the existing
objects, reviews each of them and streams the records.

**Programs that run once.** The *certificate job* fills the webhook's TLS secret
and CA bundle, the *validator* runs diagnostics from the pod's lifecycle hooks,
the *loader* posts the cluster's configuration, the *scout* detects the cloud for
all of them, and the *regurgitator* transcodes metric files.

### Inventory

| Component | State | Operations | What is hard | What makes it correct |
|---|---|---|---|---|
| disk store (`storage/disk/disk.go`) | active file, writer, row count, start time, mutex, ticker | Put, Flush, flushUnlocked, newFileWriter | ticker against Put, error paths half way through a flush, crash | acknowledged rows are on disk; count = rows; one copy; file limits |
| shipper (`domain/shipper`) | files in base and `uploaded`, backend's view, requests of a chunk | cycle: lock, list, allocate, find, upload, mark, abandon | crash between PUT and rename, lost replies, replays of files in flight, concurrent requests | no file lost; moved only after stored; delivered at last |
| disk management (`domain/shipper/disk.go`) | files in `uploaded`, usage | two purges by pressure level | boundaries, small counts, runs outside the lock | frees room, takes only shipped files |
| file lock (`utils/lock`) | lock file, timestamp, refresh goroutine | Acquire, refresh, Release | every file operation races with another process, stale detection, crash | mutual exclusion, takeover of a dead owner's lock |
| worker pool (`utils/parallel`) | semaphore, two wait groups, error channel | Run, Wait, Close | bounded channel nobody reads, closing | bound, Wait covers all, no blocking |
| collector (`domain/metric_collector.go`, `handlers/remote_write.go`, `domain/transform`) | first-flush flag, two stores, the transformer's memory buffer | PostMetrics, PutMetrics | one store fails after the other succeeded; flag and buffer shared by concurrent requests | answer agrees with what is stored |
| error-rate tracker, probes (`http/middleware/errorrate.go`, `handlers/livez.go`) | window of statuses, latch | Record, Healthy, HealthyWithinCooldown | two readers at different times, window against probe period | a bad pod is restarted, a good one is not |
| collector and shipper processes (`functions/collector`, `functions/shipper`) | signals, marker file | shutdown hand-over | server still serving during the flush; stale marker; two signal channels; exit during a flush | what was acknowledged is shipped before exit |
| webhook, handlers (`handlers/webhook.go`, `domain/webhook`) | none of their own | find, then create or update | not one transaction; error path without namespace | every admission is allowed; last write wins and is sent |
| resource store (`storage/repo`, `storage/core`) | table of records | Create, Update, Find, Delete, Tx | conflict clause, null namespace | one record per resource |
| pusher (`domain/pusher`) | running flag, batches | Run, Flush, Shutdown | update between read and stamp; partial failure; final flush with a cancelled context | every change is sent |
| housekeeper (`domain/housekeeper`) | running flag | Run, Shutdown | renewed record deleted by id | nothing unsent is deleted |
| backfiller, streaming store (`domain/webhook/backfiller`, `storage/streaming`) | phase, pages, pool, batch | wait for services, list, review, push, flush | page boundaries, tasks that start tasks, endless retry of the node list | every object is visited once the calls succeed |
| TLS reconciler (`domain/monitor/tls_monitor.go`) | reload flag, condition, single flight, CA list, certificate | certificates, SIGHUP | flag set and never cleared; wake-up lost; reload joined to an older flight | handshakes never wait for ever; newest certificate |
| cloud scout (`utils/scout`) | environment, chosen scout | Detect, EnvironmentInfo, DetectConfiguration | four goroutines write without a lock and cancel each other | complete settings of one cloud |
| loader, scout command (`functions/cluster-config`, `functions/scout`) | the configuration, its errors | collect, post | partial failure | posted with its errors |
| validator, diagnostics (`functions/agent-validator`, `domain/diagnostic`) | settings, status report | validate, run a stage, post, verdict | checks report in parallel; retries; names and stages that are dropped | the exit code and the report agree with the checks |
| regurgitator (`functions/regurgitator`, `domain/metricio`) | channels, readers, writers, batches | read or receive, fan out, write, shut down | channel closing, shared channels, failing writers, forced shutdown | nothing read is lost |
| certificate job (`functions/certifik8s`, `domain/certificate`) | TLS secret, CA bundle | generate, patch the secret, patch the webhook | failure between the patches, overlapping runs | key, certificate and both CAs belong together |
| metric file (`storage/disk/metric_file.go`, `parquet_streamer.go`) | open file, stream | read, transcode, rename | none beyond data | contents preserved |
| secret and file monitors | running flag, hash | Run, Shutdown | flag written without the mutex | restartable |
| logging, inspector, helmless, validator's config and install commands | little or none | one-shot or pure | nothing concurrent | data conversions |

`PROJECT.json` lists the hazards at their lines, with the properties that cover
them or the reason why none does.

## 2. The modules

    FileDelivery          what the shipper promises (abstract)
       ^ refinement
    Shipper   <- MCShipper, Shipper_proofs
       |  Produce is DiskStore's Rename; the lock is FileLock; the uploads run on Parallel
    DiskStore <- MCDiskStore, DiskStore_proofs
    FileLock  <- MCFileLock, FileLock_proofs
    Parallel  <- MCParallel, Parallel_proofs

    Aggregator   (the pod: collector and shipper containers)  <- MCAggregator, Aggregator_proofs
       `- Collector -- ErrorRate, MetricPipeline

    WebhookMain  (the webhook binary)  <- MCWebhook, Webhook_proofs, TLSReconciler_proofs
       |- Webhook -- ResourceStore -- Admission
       |- Backfill -- Admission
       `- TLSReconciler  <- MCTLSReconciler

    Jobs         (the programs that run once)  <- MCJobs, Jobs_proofs
       |- ClusterConfig -- Scout
       |- Diagnose   (its deployment settings come from Scout)
       |- Regurgitator
       `- Certificates

The interfaces between the modules are kept small. `Shipper!Produce` stands for
`DiskStore!Rename`. `Shipper` takes the lock in one step, which is right as long
as there is one shipper per volume and no crash falls between the creation of the
lock file and its first write: `FileLock` shows what happens otherwise.
`Shipper` lets every upload of a chunk fail and goes on; `Parallel` shows that
this takes at most `errChannelBuffer` failures per chunk. `Collector` keeps of a
store what is in memory and what is on disk, the interface of `DiskStore`'s Put
and Flush. `Aggregator` keeps of the shipper only how it ends. `Backfill` runs
at most `Workers` tasks; how the pool does that is `Parallel`.

`WebhookMain` and `Jobs` are compositions of programs that share no variable: a
behaviour follows one of them, the others stay in a state "off" that no action
leaves. The exception is the scout, which the loader, the scout command, the
servers' settings and the validator's settings all call.

### DiskStore

One module for the store, its clients and their connections. A *delivery* is one
sending of a batch; the model keeps sets of deliveries instead of rows. `step`
says where the holder of `d.mu` is, so that crashes and failures can fall between
sealing, renaming and reopening; `serving` is the delivery whose Put is flushing.

| Action | Code |
|---|---|
| `Put`, `PutRecoverFails` | `Put`: recover the writer, append, count, go on to flush at the limit |
| `FlushLock` | `Flush` up to its early return (ticker, first flush, shutdown) |
| `Seal`, `Rename`, `Abandon` | `flushUnlocked` and its deferred cleanup |
| `Reopen`, `ReopenFails` | `newFileWriter` after the flush, and the answer |
| `Send`, `GiveUp`, `Receive` | Prometheus: at-least-once delivery with timeouts |
| `Tick`, `Crash`, `Restart` | the millisecond clock; the process; `NewDiskStore` |

A failing `json.Marshal` in Put (186-189) is left out: the metric type has no
value it fails on. `destroyed` is a history variable: the batches whose rows were
lost *after* their acknowledgement, by a crash, a failed flush or a name
collision. `AckedKept` thus says that nothing else loses acknowledged rows.

### Shipper

The volume (`base`, `uploaded`, `lock`, `usage`), the backend (`known`, `remote`,
`abandoned`) and the memory of one shipper process. Files are numbered by age.

| Action | Code |
|---|---|
| `StartCycle` | `runShipper`, `ProcessFiles`: lock, list, open |
| `CancelledCycle` | `ProcessFiles` under a cancelled context: nothing is done and nil returned, and `HandleDisk` follows without the lock |
| `AllocateFails`, `Allocate` | `AllocatePresignedURLs` with the replay header; the early return when both maps are empty |
| `FindReplays` | `Find` for each replay, the request list, the replays to abandon |
| `Upload`, `UploadFails`, `Mark`, `MarkFails` | the function each worker runs: `UploadFile`, then `os.Remove` or `MarkFileUploaded` |
| `AbandonFiles` | after `waiter.Wait`: `AbandonFiles`, next chunk or `Release` |
| `PurgeFilesBefore`, `PurgeOldestPercentage`, `HandleDiskFails` | `HandleDisk`, outside the lock |
| `Produce`, `UsageChanges`, `LockExpires`, `Crash`, `Restart` | environment |

Abstractions. A cycle that ends in an error before it did anything (the lock is
left over, the listing fails) changes nothing and is a stuttering step. A lost
reply of `AbandonFiles` leaves the same state as its success. An allocation that
leaves files out counts as a fault: if the backend refused a file of the first
chunk for ever with an empty reply, the later chunks would starve, because
`HandleRequest` returns (394). A failed walk in `Find` is a fault as well. The
403 test in `UploadFile` (upload.go:61 looks at the body only if reading it
failed, so `ErrExpiredURL` is never returned) makes no difference: the upload
fails and the next cycle asks for a fresh URL. A storage path that itself
contains "uploaded", an empty replay id (which matches every file) and file names
that contain one another are outside the model.

### FileLock

One step per file operation of `Acquire`, of the refresh goroutine and of
`Release`, for any set of processes. Time is counted in ticks and stored as ages
bounded by `StaleTimeout`. A tick passes only when nobody is in the middle of an
operation or late with a refresh, unless it is a *pause*, which counts as a
fault. `calm` is a history variable that turns false at the first restart,
pause, failed refresh or failed release. `Acquire` ends at a read error of an
unknown kind (`ReadFails`) as it does at a failed write or removal. A refresh that
does not find its own lock, or cannot write it (`RefreshFails`), first returns to
the goroutine's loop, which then removes whatever lock there is
(`RefreshGivesUp`); a tick may be chosen although the context is cancelled.

### Parallel

One step per channel or wait group operation of `Run`, the task goroutines,
`Wait` and `Close`, for the way the shipper and the backfiller call them: one
caller, which never reads the error channel.

### Collector, ErrorRate, MetricPipeline

A *write* is one remote-write request of the client, with the payloads it may
have; the client sends a write that was answered 5xx again. The clock drives the
error-rate window and the kubelet.

| Action | Code |
|---|---|
| `PostMetrics`, `ReadAllFails` | `PostMetrics` up to the transformation: size, content type, decoding, and every early answer |
| `TransformNext`, `TransformEnds` | `DCGMTransformer`, metric by metric, because its memory buffer is shared by all requests; then `Filter` |
| `PutCost`, `FirstFlush`, `PutObservability`, `Answer` | `PutMetrics`: each store's Put or its failure, the first flush behind the unsynchronised flag, the answer |
| `Evaluate`, `GetHealthz`, `GetLivez`, `Tick` | the tracker's evaluation, both probes, time and the kubelet's count of failures |
| `HandleSignal`, `HandlerFlush`, `WriteMarker`, `ServerReturns`, `DeferredFlush`, `Exit` | the signal goroutine beside the main goroutine, which goes on serving and flushes once more |
| `ConcurrentMapWrites`, `Restart` | the crash Go's runtime makes of the shared buffer; the next incarnation on the same volume |

`MetricPipeline` keeps what the properties tell apart: a name, whether the three
required labels are there, and numbers. Kinds of answers: an empty or oversize
body is answered 200, a body that does not decode 500.

### Aggregator

Adds the shipper's three goroutines: `RunShipper`, `CycleEnds`, `RunSignalled`,
`FinalFlush`, `FinalFlushEnds` (Run, whose select also takes the signal),
`AwaitMarker`, `MarkerFound`, `MarkerMissing` (the handler in main, which cancels
the context when the marker is there or its time is over) and `ShipperExits`
(main ends when any of them returns). `Terminate` is the deletion of the pod.

### Webhook, Admission, ResourceStore

`Admission` and `ResourceStore` have no state: the first translates
`requestBodyToModelReview`, the dispatch table, the seventeen handlers with their
filters and formatters and the answers; the second the SQL statements. Since the
pool has one connection, a statement or transaction is one step.

| Action | Code |
|---|---|
| `PostAdmissionRequest` | the HTTP handler up to the first statement, or to the answer when nothing is written |
| `FindFirstBy`, `FindFails`, `CreateRecord`, `UpdateRecord`, `WriteFails` | `genericWriteDataToStorage`, statement by statement |
| `TickFlush`, `FinalFlush`, `NextBatch`, `PushMetrics`, `AttemptFails`, `SendFails`, `StampRecords`, `PusherExits` | the pusher: find, batches, attempts, the stamp transaction, the end of its goroutine |
| `FindExpired`, `DeleteExpired`, `DeleteFails`, `KeeperExits`, `Ages` | the housekeeper, and the passing of the retention time |
| `ServerStops`, `KeeperStopped`, `PusherStopped` | the deferred calls of main in reverse order |

`latest` and `raced` are history variables: the last tags written for each
resource, and the resources of which a row was overwritten or deleted by somebody
who had read it before it changed, or was there although the find, which may have
failed (`FindFails`), counted as having found nothing.

### Backfill

`ServiceAnswers` and `ServiceFails` are the two waits; `ListNodes`,
`ListNamespaces` and their failures the two listing loops of `Start`; the tasks of
a page are not built in advance: `todo` holds the objects whose tasks are not all
handed over, `scan` says which kind of the catalog the first of them gets next
(`NextKind`, `NextTask`), `RunTask` hands that task to the pool and `Wait` is the
barrier behind the last; `ListResources`, `ReviewObject`, `TaskEnds` are what a
task does; `StoreCreate` (part of `ReviewObject`) and `StreamFlush` are the
streaming store. The pool is reduced to its bound. The test request the backfill
sends to the webhook writes a pod `cloudzero-test` like any other.

### TLSReconciler

One step per operation of `certificates` and `reload`: `LoadReloading`,
`CondWait`, `SetReloading`, `Do` (join or lead the single flight), `ReadCert`,
`ReadKey`, `ReadCA`, `ProviderFails`, `StorePool`, `StoreCert`, `ClearReloading`,
`Broadcast`, `FlightEnds`, `Return`; `Rotate` replaces the files and `SIGHUP` asks
for a reload. The condition's locker does nothing, so a caller may go to the list
after the broadcast. Certificate versions are numbers.

### Scout and ClusterConfig

`Detect` is one request of a detecting goroutine; `WriteProvider`, `WriteScout`
and `CancelOthers` are its unlocked writes; `DetectReturns` is the wait group;
`InfoRequest` and `StoreInfo` are the chosen scout's `EnvironmentInfo`;
`DetectConfiguration` merges (`Merged`). `RequestFails` is a fault. `RunLoader`,
`RunScout` and `RunSettings` are the three callers; output formats are left out.
Which cloud answers what is a constant.

### Diagnose

`LoadSettings` reads and validates the files in the order of the code,
`NewCatalog` builds the checks, `StartChecks` starts one goroutine per check of
the stage, `CheckStep` is one request of a check with any answer (`CheckAPIKey`,
`CheckKMS`, `CheckIstio`, ...), `Panic` a goroutine that panics, `Joined`
and `ProcessFailures` the wait and the state of the report, `PostReport` and
`Verdict` the post and the exit code, `Interrupt` the signal. Texts of reports
are left out.

### Regurgitator

`StartReader`, `SendMetric`, `EndReader`, `ReadersReturn` are the file readers or
the request handlers, `FanOutReceive` and `FanOutSend` the copying goroutine,
`WriteOne`, `GiveUp`, `Close` a writer, `CloseOutputs`, `WaitForWriters`,
`Return` main, `Signal` and `ForceShutdown` the two shutdowns. A metric is a number and a
file format is which rows decode and how the read ends: well, with an error, with
a panic that ends the program (`PanicReader`: a CSV row shorter than the header,
a file that is not Parquet), or never (a CSV file whose reads keep failing,
`csv_reader.go:79-86`). `RegurgitatorHangs` is the state in which `wg.Wait`
(`main.go:584`) never returns: a reader of such a CSV file, or one that waits for
room in `inputCh` after a forced shutdown has ended FanOut.

### Certificates and Jobs

`Generate`, `PatchSecret`, `PatchWebhookConfiguration` are one run of the job;
`alone` is history: no other run overlapped it. The cryptography is the identity
of the run. `Jobs` composes the five programs.

### FileDelivery

The abstract specification of the shipper: every file goes from *new* to *held*
to *stored*, never back, and a held file is stored at last.

## 3. The runs

| Run | Instance | Distinct states | Shows |
|---|---|---|---|
| `disk_store` | two batches of 1 and 2 rows, limit 2, clock 0..1, two faults | 174 790 | type invariant, `AckedKept`, `DeliveredOnce`, `RowCountExact`, `FileWellFormed`, `EventuallyAcked`, `BufferDrains` |
| `disk_store_retry` | the same | violated | finding 1: a failed flush loses acknowledged rows |
| `shipper` | three files (two cost), chunks of two, three usages, two faults, one replay per file | 467 820 | type invariant, `NothingLost`, `UploadedIsShipped`, `AbandonedIsGone`, `PutsAccounted`, `PurgeMakesRoom`, `CostFilesKept`, `ImplementsFileDelivery` |
| `shipper_abandon` | the same, one fault | violated | finding 2: a failed search abandons a file that is at hand |
| `file_lock` | two processes, stale after 3 ticks, refresh each tick, one retry, two faults | 415 080 | `MutexWhenCalm`, `HolderIsFresh`, `LockRecovers` |
| `file_lock_corrupt` | the same, one fault | violated | finding 3: an empty lock file never expires |
| `parallel` | five tasks, two workers, two errors | 19 193 | `Bounded`, `WaitCoversAll`, `WaitReturnsIfErrorsFit` |
| `parallel_block` | the same | violated | finding 4: more errors than the buffer holds block the caller |
| `webhook` | three requests, batches of one, one attempt, two faults; two nodes, two namespaces, two pages each; three handshakes, two certificates | 295 308 | type invariant, `UniqueKeys`, `SentMeansDelivered`, `LostOnlyByRace`, `NeverDenied`, `UnsentDrains`, `BackfillComplete`, `MainEnds`, `WaitIsAnswered`, `NewestCertificate` |
| `tls_hang` | two handshakes, two certificates | violated | finding 5: a handshake waits for ever |
| `aggregator` | two writes, one of which may be refused, window and cooldown 2, probe each tick, one fault | 1 654 728 | type invariant, `AckedStored`, `RestartFollows`, `FinalFlushComplete` |
| `jobs` | seven places to run, 15 validator calls, eleven transcodings, three certificate runs | 178 472 | `ConfigurationSound`, `VerdictComplete`, `Transcoded`, `BundleMatches`, `JobsEnd` |

**What the properties of the later runs say.** `LostOnlyByRace`: the last tags
written for a resource are delivered or wait unsent, unless one of the
unsynchronised read-modify-writes hit a row that had changed since it was read;
so the retries, batches and failures of the pusher lose nothing by themselves.
`NeverDenied`: the webhook is fail-open, save for a body it cannot read and for
the panic of the error path on a resource without namespace. `AckedStored`: a 204
means that both stores have the rows, through the shutdown with its two flushes,
the exit and restarts. `RestartFollows`: the latch of `/livez` outlives all the
probes it takes to end the container. `FinalFlushComplete`: the hand-over of the
pod's end. `ConfigurationSound`: four goroutines that race to be the detected
cloud never mix two clouds' values. `VerdictComplete`: exit code, report and
checks agree. `Transcoded`: no metric is lost between readers and outputs however
writers share a channel and whichever flush gives up. `BundleMatches`: see the
proofs. `JobsEnd`: every program ends, except that a regurgitator reading files
may hang in the two ways `RegurgitatorHangs` names (section 4); a run that is
forced to stop is not counted as ended by that. Without either of the two the
property is violated.

**Why the bounds are enough.** In `disk_store` the sizes meet the limit exactly
(2), exceed it (1 + 2) and stay below it (1); a second delivery of a batch comes
from a time-out or an error; one clock value is enough for two files of the same
name, and two faults allow a failed flush followed by a failed reopening or a
crash. In `shipper` two chunks let a replay name a file of its own chunk, of a
later one or one already moved; one of the three files is no cost metric; the
usages are below medium, between medium and high, and above high; two faults
allow a lost reply followed by a crash. Critical pressure and the memory-backed
thresholds only change the percentages and are left to constants. In `file_lock`
three ticks make a lock fresh, ageing and stale, and one retry lets `Acquire` give
up. In `parallel` the tasks outnumber workers and buffer together.

In `webhook` a creation, an update and a deletion meet at two resources, one with
and one without a namespace, so that two requests may both find nothing or both
find the row, with the pusher and the housekeeper between; batches of one record
make a flush fail after another batch was sent; two faults let a failing find
meet a failing write. Two pages are enough for a page boundary, and a kind in a
namespace without objects for an empty list. Three handshakes are a leader, one
that joins and one that comes too late. In `aggregator` the times keep the
proportion of the deployed values: 30 seconds times 10 failures (helm
`values.yaml:1659-1662`) is the cooldown of five minutes
(`collector/main.go:55`), as `ProbePeriod * ProbeFailures = Cooldown` here;
`MaxDeletion = 0` bounds the pod's deletion to the first incarnation of the
collector, so that the stale marker of an earlier incarnation, which
`FinalFlushComplete` excepts, does not occur. In `jobs` the places are each
cloud, AWS with and without tokens, a network on which two metadata services
answer, and one on which none does; the validator runs each stage and each check,
with every kind of configuration error; channels of capacity one and two writers
to a remote output let every send block, two write faults exhaust the attempts of
one flush or hit two flushes; among the files are one whose reads fail for ever,
a row that is too short, a damaged page, a file that is not Parquet and one that
cannot be opened; the third certificate run is refused for its key
size, and one failing patch falls before or between the two.

`CHECK_DEADLOCK FALSE` is set everywhere because the models come to rest: all
batches acknowledged, all files produced, faults used up, the pool closed, the
programs ended (in `parallel_block`, and in `parallel` beyond the buffer, and in
`tls_hang` the code itself stops; the liveness properties tell the two apart).

**Fairness.** Weak fairness on the steps the Go scheduler, the tickers and
Kubernetes guarantee: handlers, workers and goroutines run, the tickers fire, a
client with an unacknowledged batch sends it again, a dead container is
restarted, a stale lock is found stale. In `FileLock` a critical section ends and
time passes; a restart is not assumed. In `Webhook` the steps of requests, of the
pusher and of the housekeeper are fair, as is the return of the Shutdown calls;
the server's stop is not. `FinalFlush` is strongly fair: the pusher's select
chooses at random between the ticker and the cancelled context, so a context that
stays cancelled is chosen at last. `BackfillFairness` and `JobsFairness` say that
a program takes its next step; that a signal comes, a reader is interrupted or a
certificate job is started again is not assumed, and the failures are bounded, so
that a node list that fails is repeated but not for ever. `TLSFairness` lets each
handshake go on by itself. `Aggregator` has safety properties only and no
fairness; `RestartFollows` bounds the time by the clock instead. Faults, the
collector's production, usage changes and replays are never fair.

**Accounting.** `PutsAccounted`, `AckedKept`, `AckedStored` and `LostOnlyByRace`
use counters and history variables: duplicates and losses are allowed only where
the environment, or a named race, caused one. They say that the code loses nothing *else*: the
races and losses themselves (the crash of the disk store, the flush before the
server stops, stale reads of the webhook's rows, two claims of a stale lock) are
booked, not caught, and the hazards' notes say so for each.

## 4. The findings

1. `disk.go:236`: a failed flush drops the whole buffer, acknowledged rows
   included; the comment says Prometheus will retry.
2. `shipper.go:415`: an error of `Find` is dropped and the replay is abandoned as
   not found. `filepath.Walk` fails when a listed name vanishes, and both the
   collector's active file and the temporary file of the lock's own refresh
   vanish from that directory.
3. `filelock.go:170`: an empty lock file has no timestamp and never expires.
4. `parallel.go:63`: more than 100 failed uploads of one chunk (200 files) block
   the pool and the shipper, although its doc calls failures non-blocking.
5. `tls_monitor.go:475`: a provider that fails leaves the reload flag set and
   wakes nobody, and a handshake may begin to wait after the broadcast it waits
   for: it never ends, although the comment says it waits only while a reload is
   in progress.

Observations outside the runs.

- File lock: a process that has found the lock stale removes whatever file is
  there when it gets to it (`filelock.go:191`). Of three processes, two that both
  find the lock of a dead third stale may both get it: the slower removes the new
  lock of the faster. `file_lock` with a third process and one fault violates
  `MutexWhenCalm` in this way, in 22 states. The test (`handle_test.go:145`) and
  the shipper's doc (`shipper.go:65`) say that access is not concurrent; in the
  deployed pod only one shipper at a time uses a directory.
- Shipper: the comment "15 second wait" (`shipper.go:306`) stands beside three
  retries of one second; after a container restart the lock of the predecessor
  carries the same host name and pid, yet is honoured until it is stale;
  `ProcessFiles` returns nil when its context is cancelled, so the purges still
  run; the goroutine of Run competes for the signal, and main ends with whichever
  goroutine returns first, so that the final flush seldom happens. The marker
  file is never removed.
- Collector: an empty or oversize body is answered 200 (`remote_write.go:272-280`)
  and a malformed one 500, which the client retries and the probes count.
- Webhook: GatewayClass is registered under `networking.k8s.io`
  (`webhook.go:367`); `DryRun` is never read; the pusher's final flush finds a
  cancelled context (`pusher.go:191-192`), so it sends nothing; a SIGHUP that
  joins an older flight loses its reload; the secret monitor is not started.
- Validator: the required check `agent_settings` is dropped without a word; a
  stage spelled "Pre-Start" passes the validation (`diagnostics.go:71-72`
  normalises a copy) but its checks never run (`runner.go:65`); the KMS check
  reports failures of early attempts though a later one passes; an interrupted
  validator exits 0; the stage config-load posts nothing; providers never
  return an error, so the error path of Run is unreachable.
- Regurgitator: after a file error it returns without waiting for the writers, so
  that files lack their footers; a handler that sends on a closed channel panics, which net/http recovers;
  `--writers` is not validated (`main.go:225`), and with 0 nobody takes what is
  meant for a URL: if it fits into the channel, the run ends well. A CSV row that
  is shorter than the header (`csv_reader.go:94`) and a file that is not Parquet
  end the process with a panic.
- Regurgitator, file mode: after a forced shutdown it may never end. The comment
  at `main.go:264` says that the second signal or the time-out will "cancel the
  context to force exit", and `main.go:557-560` that the readers ignore the
  context because "they'll finish quickly". The cancelled context ends FanOut
  (`main.go:431-440`); a reader with more metrics than `inputCh` has room for then
  stays in `ch <- m` (`main.go:656`, 682, 707), `wg.Wait` (`main.go:584`) does not
  return, and the further signals are not received by anybody. It also never ends,
  with or without a signal, when the reads of a CSV file keep failing: every error
  but EOF is skipped (`csv_reader.go:79-86`). `JobsEnd` names both. That a forced
  run exits (`Forced ~> Exited`) is violated in the instance of `jobs`, by a reader
  of three metrics and a channel with room for one.
- Certificate job: the PEM of an Ed25519 key holds raw bytes; `validate` only
  looks whether the entries exist; a failure between the two patches leaves the
  CA bundle and the secret apart until the next run.
- Scout: an error is cached for good; the loader prefers given values over
  detected ones, `DetectConfiguration` the other way round; the loader panics when
  the aggregator's settings cannot be read.

## 5. The proofs

TLAPS checks these for every value of the constants that meets the modules'
assumptions. Sizes, limits and numbers of retries are numbers, positive where the
code divides by or counts down from them; cost files are files; usages lie between
0 and 100; no certificate run is called `None`. The others say what the data of
the code's types look like, and TLC evaluates them on every run:

- `MetricsAssumption` (`Collector`): decoded metrics are records of four fields.
  It is stated of what is decoded because the filter is a `SelectSeq`, which is
  recursive;
- `ObjectAssumption` (`Webhook`): an object's namespace is a string, not absent;
- `PagesAssumption` (`Backfill`): a list's pages are sequences of sequences;
- `ScoutAssumption` (`Scout`): a resource group is a sequence of parts;
- `JobsAssumption` (`Jobs`): the validator runs in one of the clouds;
- `DiagnoseAssumption` (`Diagnose`): the namespace of the configuration is given
  or not;
- `TranscodingsAssumption` (`Regurgitator`): an invocation has an output, because
  the flag is required, and every output at least one writer, which `--writers 0`
  would break (section 4); the rows that are read are numbered, each differently.

Two theorems have a hypothesis of their own. `UnhealthyIsRestarted` needs
`CooldownCovers`, that the cooldown is at least the probes' period times their
failure threshold, as the chart and `main.go` have it (section 3). `LockOfTwo` is
about two processes; the first observation of section 4 is why.

**DiskStore_proofs.** `TypeCorrect`, `NoAckWithoutRows` (`AckedKept`) and
`NoSecondCopy` (`DeliveredOnce`). `AckedKept` is not inductive: that a client may
take a success depends on the answers under way, and that an answer is honest on
where the flush is. The inductive invariant is

    IInv == TypeOK /\ FlushInv /\ SentInv /\ AckedKept /\ RepliesKept /\ DeliveredOnce

`FlushInv`: while the lock holder seals or renames, the delivery it serves is in
the active file, and before it reopens it is in a visible file or accounted for.
`SentInv`: no delivery is known before its number was used, so a new one is
fresh. `RepliesKept`: a success under way that is still awaited has its rows.

`RowCountIsExact` (`RowCountExact`) and `FilesAreWellFormed` (`FileWellFormed`)
add three parts to it. `CountInv`: the active file is finite and `rowCount` is the
number of its rows; Put may count a delivery because, by `DeliveredOnce`, it is
not in the file yet. `LimitInv`: while no flush is under way the count is below
the limit, and while one is, the file without some one of its payloads is below
it, either because that payload started the flush or because the ticker found the
file below. `FileInv`: only a sealed file is renamed, and its start is not later
than now. The rows of a set of deliveries are a set themselves (`RowsOf`), so that
their number is a cardinality and the library's theorems count them.

**Shipper_proofs.** `TypeCorrect`, `FilesAreNotLost` (`NothingLost`),
`PurgesAreHarmless` (`UploadedIsShipped`), `AbandonsAreHarmless`
(`AbandonedIsGone`), `RefinesFileDelivery` (the safety part of the refinement)
and `CostFilesAreKept`. The inductive invariant adds two parts to the
properties:

    SafetyInv == MadeInv /\ SentInv /\ NothingLost /\ UploadedIsShipped /\ AbandonedIsGone

`MadeInv`: every file any variable names was made, so that a file that is not on
the volume and was made must be remote. `SentInv`: a request that is only to be
marked concerns a stored file. Marking then keeps `NothingLost`, and purging,
which looks into `uploaded` only, cannot lose data. The refinement maps `Produce`
to `Produce`, a first `Upload` to `Store`, and everything else to stuttering.

`DuplicatesHaveCauses` (`PutsAccounted`): a file that is `Due` may be put once more
without a cause, because it is on its way to the worker or will be listed again,
and an `Asked` one because of a replay; `PutsInv` charges the puts, and these two
that are still to come, to the first upload, the replays and the faults.
`RequestInv` says that no file has two requests of one kind.
`PurgesMakeRoom` (`PurgeMakesRoom`) needs `FiniteInv`, that
finitely many files were made: then the files to be freed are some, and they are the
oldest.

**FileLock_proofs.** `TypesOfLock` (`TypeOK`), `LockWithoutDeaths` and `LockOfTwo`
(`MutexWhenCalm` and `HolderIsFresh`): for any number of processes as long as none
has died, and for two also after a death. `FileOfOwner` and `OwnerOfFile` tie the
file to the process between its creation and its release. `AgeSinceRefresh`: the
age in the file never exceeds the time since the holder's last refresh, which the
refresh interval bounds below the timeout; hence nobody finds a living holder's
lock stale (`StaleAfterDeath`), and nobody removes it; nor does a refresh find it
gone (`NeverLost`). `StampIsNow` and
`StoppedWhenCancelled` are what the refresh goroutine contributes.

**Aggregator_proofs.** Four theorems about the pod, for any writes, stores, clocks
and faults. `NothingLeftInMemory` (`FinalFlushComplete`): `DownInv` (nothing in
memory while the container is down), `FlushOrder` (which flushes each of main and
the signal goroutine has behind it), `FlushedIsLost` (what a late handler puts into
a store after its last flush is counted) and, for the shipper, that its context
ends only by the marker or the time limit. `UnhealthyIsRestarted`
(`RestartFollows`): the latch is at least as young as the first unhealthy
evaluation (`LatchHolds`), every probe since then has failed (`FailuresFollow`) and
none is late. `TypesOfPod` (`TypeOK`). `AcknowledgedIsStored` (`AckedStored`):
`RowsInv` follows the rows of a request through its handler (still to be
transformed, in the shared buffer, in the result, in a store) and `BufferInv` says
who owns the transformer's buffer; a request whose transformation met another's
(`mixed`) is excused for the one row that the buffer makes.

**Webhook_proofs.** `OneRowPerResource` (`UniqueKeys`) and
`NothingUnsentIsStamped` (`SentMeansDelivered`), for any number of requests, any
filters, batch limits, retries and faults, and with the backfill and the TLS
listener composed in. Neither is inductive, because the pusher works on copies of
rows that requests and the housekeeper change meanwhile:

    IInv == Shapes /\ IdsUsed /\ UniqueIds(rows) /\ FlightInv /\ CompletedInv
            /\ UniqueKeys /\ SentMeansDelivered

`IdsUsed` and `UniqueIds`: a row's id is that of the one request that made it, in
its last step, so ids are never reused. `FlightInv`: no id is twice among the
records the pusher has read, and a row that still has such an id is of the same
resource; hence the stamp, which writes the old record back by id, changes no
key and makes no second row. `CompletedInv`: the records of a flush have been
accepted by the endpoint, save for the batch that is being sent; hence what the
stamp writes with `sent_at` is what was delivered, even when the row has been
updated meanwhile. `Shapes` says which fields the records have. `NoRequestIsDenied`
(`NeverDenied`) needs no more than `Shapes` besides itself.

`OnlyStaleWritesLose` (`LostOnlyByRace`) follows the last record of each resource:
`ReadInv` says what a request or the housekeeper has read and that a row of that id
is still of the same resource, `KeptInv` that the record is delivered, in a row, or
of a resource whose row was overwritten by somebody who had read an older one.
`TypesOfServer` (`TypeOK`). `BackfillSendsAll` (`BackfillComplete`): while no list
and no push has failed, the task of each object of each page of each kind is ahead,
running with the object still to be reviewed, or has put the record into the
stream; the three parts of `BackfillInv` say it of nodes, of namespaces and of the
resources in them.

**TLSReconciler_proofs.** `WaitsAreAnswered` (`WaitIsAnswered`) and
`CertificatesAdvance` (`NewestCertificate`), for any number of handshakes, any
limit of roots and any number of rotations. For the first, `FlagInv`: as long as
nothing was stranded, a flag that is set has somebody on the way to clear it, and
`WakeInv`: who waits, or is about to, has somebody on the way to broadcast. The
three ways `stranded` records are where a step breaks one of the two. For the
second, `OneLeader` (the single flight), `CertInv` (what the leader has read and
not stored yet lies between the certificate in use and the files) and `RootsInv`
(the pool is the list, the list is within the limit, and the root about to be
stored is no older than any of it).

**Parallel_proofs.** `PoolIsBounded` (`Bounded`) and `WaitIsComplete`
(`WaitCoversAll`), for any number of tasks, workers and errors. `CountInv` ties
the semaphore's count to the tasks that hold a slot, `StartInv` says that tasks
are started in order and all of them before Wait, and `ClosedInv` that the error
channel is closed only when every task is gone.

**Jobs_proofs.** `BundleIsSound` (`BundleMatches`), for any number of certificate
runs in any order, overlapping or failing, starting from any state the earlier
ones left. `NoRival`: a run that has been alone since it began is the only one
that runs; `OwnSecret` and `OwnBundle`: what such a run has patched is still its
own.

`SettingsAreSound` (`ConfigurationSound`): each detecting goroutine writes a whole
environment of its own cloud (`Sourced`, which also covers the metadata of
`EnvironmentInfo`), and all have ended before the first metadata request
(`JoinedInv`), so what the settings are made of has one origin.
`VerdictsAreComplete` (`VerdictComplete`): `TaskInv` says that a check reports before
its goroutine is done and only under its own name, `ReportInv` that the state of the
report follows from its checks once all have been joined, and `OutcomeInv` that
the exit code and what was posted come from that report.

`TranscodingsAreComplete` (`Transcoded`), for any files, requests, outputs, writers,
channel and batch sizes and failing writes. `Transcoded` only speaks of the end; the
invariant `TranscodeInv` follows the metrics on their way, as long as the shutdown is
not forced. `FlowInv`: a metric that a reader has sent is in the input channel, with
FanOut before this output, in the output's channel, in the batch of one of its
writers, or in the output, unless a write of it failed for good. `EndsInOrder`: a
stage ends only after the one before it and with nothing left, so at the end only
the last of these places remains. `OnceInv`: no two of the places before a file share
a metric, and what is still to be read is in none of them. The three writer actions
are first reduced to one step (`WriterMoves`) that says what an output keeps.

**Model-checked only.** Liveness (`EventuallyAcked`, `BufferDrains`,
`LockRecovers`, `WaitReturnsIfErrorsFit`, `HandshakeEnds`, `UnsentDrains`, `MainEnds`,
`JobsEnd`, the fair part of `FileDelivery`), which needs ENABLED and is out of the
prover's reach. What recursive definitions and folds compute (the filter of
`Collector`, the readers of `Regurgitator`, the checks that `Diagnose` registers) is
opaque to the proofs, which use only what type it has.

## 6. Not modelled, and the plan

Not modelled, and why:

- the metric file and its transcoding to parquet: a sequential conversion, no
  state shared with others;
- the logging sinks, the HTTP inspector, `helmless`, and the validator's `config`
  and `install` commands: input and output, or one transformation of a text;
- the secret and file monitors: a ticker that compares a hash and calls back; the
  file monitor is started nowhere, and the shipper's secret monitor replaces the
  key that the next request uses;
- the settings of the aggregator, apart from what the modules take as constants:
  defaulting and validation of single values;
- of the disk store, listing and reading; of the resource store, orders, counts
  and nested transactions, on which the modelled callers do not depend.

Every invariant and every action property the passing runs check is now the subject
of a theorem. What the plan has left is a stronger form of one of them: how far the
file lock still excludes when more than two processes meet a dead owner's file
(section 4 has the interleaving that ends it).
