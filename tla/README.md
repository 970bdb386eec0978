# BlobFuse Health Exporter: TLA+ verification

The exporter follows the JSON reports that `bfusemon` writes for one BlobFuse
process, turns process-lifetime counters into increments, and exports them over
OTLP.  The modules here model that path from the bytes of a report file to what
the collector holds, with the locks of a session, the identity of the monitored
process, the waiting and the settings beside that path.  They are checked with TLC on
small instances; the safety properties of the reader, the session, its locks, the
pipeline, the identity, the waiting and the settings are proved with TLAPS for every
value of the constants.

## 1. Inventory

Paths are relative to `src/internal/`.  "Hard" names what is difficult to test.

| Component | State | Operations | Interacts with | Hard | Correct when |
|---|---|---|---|---|---|
| Decoder, `source/decoder.go` | buffer, committed offset, pending record, opened/closed/recordsSeen | `Append`, `Next`, `Commit` | generation reader | a read may end anywhere; limits on incomplete objects; trailing whitespace | records are the file's, in order, once; only corrupt files are rejected; memory is bounded |
| Generation reader, `source/reader_linux.go` | descriptor, decoder, rotation, highest size | `drain`, `watermark`, `close` | decoder, handler, file | fstat and read race the writer; truncation; handler failures retried | caught up when it returns without error; no false truncation |
| Registry, `source/registry_linux.go` | readers by generation | `register`, `oldestFirst`, `close` | scan, readers | descriptors handed over, stale rotations | one owner per descriptor |
| Directory and scan, `source/directory_linux.go`, `scan_linux.go` | directory descriptor | `OpenReport`, `ScanReports` | file system | files are renamed between enumeration and open | nothing leaks; disappearing files are left for the next scan |
| Order, `source/order_linux.go` | none | `OrderGenerationsOldestFirst` | registry | equal rotations and modification times | oldest first in a quiet directory |
| Watcher, `source/watch_linux.go`, `wait_linux.go` | inotify queue, descriptor under a mutex | `Drain`, `Wait`, `Close` | kernel | overflow, invalidation, events during a pass, polls in whole milliseconds, a close during a poll | no change is missed; no closed descriptor is polled; the rescan is punctual |
| Session, `source/initialize_linux.go`, `live_linux.go`, `run_linux.go`, `drain_linux.go` | stage, timers, watermarks, two locks | `InitializeSource`, `Reconcile`, `Run`, `DrainSource`, `Close` | all of the above, processor | cutover, cancellation, timeouts, activity that never stops, `Close` against a reconciliation | baseline at the true end of the source; ends by its timers; nothing is handled after `Close` |
| Identity, `source/identity_linux.go`, `recheck_linux.go` | boot id, PID, start ticks, creation time | `ReadProcessIdentity`, `SameSession`, `VerifyIdentity` | `/proc`, run loop | PID reuse, clock steps, reboots, failing lookups | a session belongs to one process lifetime and ends with it |
| Source events, `source/events_linux.go` | observer | `AttachObserver`, `notify` | telemetry | locks held during callbacks | every discontinuity the docs name is reported |
| Normalizer, `source/normalizer.go` | none | `NormalizeRecord` | processor | numbers at the edge of their type, two lists of fields kept by hand | what it accepts is exported exactly, what it does not is counted |
| Process metrics, `source/process_metrics_linux.go`, `metrics/process_otel_linux.go` | read errors | `observe` | `/proc`, SDK | a PID that another process has by now | samples the session's process only |
| Descriptors, `metrics/descriptor.go` | none | `DescribeSeries` | recorders | a third table kept by hand | no series is dropped, no two share a point |
| Processor, `metrics/processor.go` | statistics, observer | `Process`, `AttachObserver` | state, recorders | the reader collects in between | every record counted once |
| Metric state, `metrics/state.go` | baselines, gauges | `Apply`, `ClearGauges`, `Gauges` | processor, gauge callback | resets, source end | increases counted once, no gauge after the end |
| Recorders, `metrics/otel.go`, `self.go`, `process_otel_linux.go` | instruments | `Record`, `observeGauges`, `Close` | SDK | concurrent collection, int64 conversion | one export is consistent |
| Pipeline, `telemetry/*.go` | providers, export mutex, error counts | `NewPipeline`, `Shutdown`, `Export` | SDK, collector | failed but delivered exports, final flush against a deadline | nothing counted twice, a clean shutdown loses nothing |
| Application, `app/run_linux.go` | run result | `Run` | all | order of start and shutdown | gauges cleared before the last flush |
| Configuration, command, `config/*.go`, `../main.go` | none | validation of flags | application | bounds of numbers and endpoints | only legal settings start |

`PROJECT.json` lists for each component its sources, modules and status, and the
hazards of the code line by line.

## 2. Modules

| Module | Models | Shape |
|---|---|---|
| `ReportFraming` | the grammar of a report, byte class by byte class, as a recursive function; the reference the reader is compared with | independent of the decoder's buffer logic |
| `GenerationReader` | one generation: the writer appending bytes, `drain` with fstat, read, `Next`, the handler and `Commit` | one action per decision of `Next` and of `drain` |
| `RecordStream` | abstract specification: complete records come out once, in order | implemented by `GenerationReader` (`Stream`, `ImplementsRecordStream`) |
| `ReportDirectory` | the environment of a session: bfusemon writing and rotating, process identity, inotify queue | one action per file system operation |
| `CounterState` | what `State.Apply` does to one counter series | operators |
| `SourceSession` | `InitializeSource`, `Run`, `Reconcile`, `DrainSource`, `Close`, with scan, registry, order, watcher and metric state | one action per step between which the directory can change |
| `MetricPipeline` | `Processor`, `State`, recorders, `resourceExporter`, `Pipeline.Shutdown`, `app.Run` | two goroutines; the SDK and the collector are external |
| `SessionLocks` | `operationMutex`, `stateMutex`, the watcher's and the directory's mutex: several goroutines that run, reconcile, drain, close, attach and read, with callbacks | one action per lock taken or left |
| `ProcessIdentity` | the reads of `/proc` that make an identity, the recheck of the run loop, the sampling of process metrics; the host with its PID, clock and reboots | one action per file read |
| `MetricSeries` | the tables of `normalizer.go`, `descriptor.go` and `NewOTelRecorder` | operators |
| `RecordExport` | the values of a record from JSON to the points of an export: `NormalizeRecord`, `State.Apply`, `OTelRecorder.Record`, `observeGauges` | one action per record; a reference reading of the record beside it |
| `WatchWait` | `Wait` and `pollMilliseconds`: a deadline reached in polls | one action per turn of the loop and unit of time |
| `Settings` | `config.Parse`, `Validate`, the demands of the stages of `app.Run`, retry intervals, exit codes | one action per stage |
| `MC...` | instances for TLC, and statements of the docs that the code does not keep | `MCSourceParts` holds the last five, one of which a behaviour chooses |
| `ReportFramingProofs`, `GenerationReaderProofs`, `SourceSessionProofs`, `SessionLocksProofs`, `ProcessIdentityProofs`, `MetricPipelineProofs`, `RecordExportProofs` | the theorems about the module they are named after | section 6 |
| `WaitSettingsProofs` | the theorems about `WatchWait` and `Settings` | section 6 |

`SourceSession` extends `ReportDirectory` and `CounterState`; `MetricPipeline`
extends `CounterState`.  `GenerationReader` and `SourceSession` meet at the
record: what the first shows of bytes (a drain that returns without error has
handed over every complete record of what it read, in order) is what the second
takes a step of a reader to do.  `SourceSession` and `MetricPipeline` meet at
`Process`: the former hands records over, the latter accepts any sequence of them.
`RecordExport` extends `MetricSeries` and is the same `Process` seen from the values
of a record: where `MetricPipeline` has numbered series and their interleaving with
exports, it has the fields, types, units and names, one record after the other.
`SourceSession` is one goroutine, as in `app.Run`; `SessionLocks` has what the type
allows, several goroutines, and leaves out what a pass finds.  `ProcessIdentity` is
the flag "identity holds" of `ReportDirectory` in detail, and `WatchWait` the step
that lets a resting session go on.

### How state and actions correspond

Variables have the code's names where there are any (`committed`, `pending`,
`recordsSeen`; `rotation` and `fds` of the registry; `baselines`, `stats`,
`callbacks`).  `pc` variables say where a function is between two steps; a step is
atomic when nothing else can change what it reads.  So, in `GenerationReader`,
each call of `Next` is one step, and `fstat` and `ReadAt` are two; in
`SourceSession` the enumeration of names is one step (the directory fits one
`getdents` call), each open another, each record another, the draining of the
watcher another; in `MetricPipeline` the increments of one record reach their
instruments one by one, and a collection reads gauges first and then one
instrument after the other.  The `map` of `PROJECT.json` gives the lines of every
definition.

History variables (`delivered`, `grammar`, `shrunk`, `torn`; `source`, `sampled`,
`known`, `unread`; `origin`, `highest`,
`inOrder`; `truth`) record what happened; no guard of a component reads them, and
they bound the environment at most.

Definitions marked "Mutant" are plausible errors in the action or operator that
follows.  No specification uses them; replacing the definition by its mutant shows
that the property named in `PROJECT.json` notices.

### Abstractions

- A byte is one of the seven classes the framing distinguishes.  What is inside
  a JSON object is "accepted by the scanner" or "completes the object";
  fingerprints and commit tokens are left out.
- A generation has one counter that every record raises by one; a session
  therefore shows that increments are counted once, and `MetricPipeline`, whose
  records may say anything about several series, shows what becomes of them.
- A file system operation and the inotify event it queues are one step.
- Modification times follow the order of creation; with `CoarseClock` all of them
  may be equal, and the inode order decides, either way.
- A deleted file's inode is not reused while a registered reader keeps it open.
- In `SessionLocks` a critical section is two steps; a pass finds records and new
  reports while `activity` lasts, and may fail at each call that can.  The record
  handler and the observer call back into the accessors and `AttachObserver`, which
  take `stateMutex` only.  A callback that called `Reconcile`, `CurrentWatermarks` or
  `Close` would wait for itself; the code leaves that to its callers, and `app.Run`
  keeps to it.
- In `GenerationReader` fstat and `ReadAt` may fail at any call (`MayFail`), and a read
  may return fewer bytes than there are; after an error drain returns, and the session
  closes.
- In `ProcessIdentity` a PID is not used twice within a clock tick (PIDs are given
  out in turn).  Each of the four reads of a lookup may fail, whoever has the PID, and
  the reconciliation between two lookups may take for ever.  Times are in ticks; that
  the kernel rounds a start down to a tick is not in the model.
- In `WatchWait` time passes in polls.
- In `RecordExport` numbers are counted in halves, so that fractions exist; a string
  is the number it starts with and its unit.  Cumulative sums are 64-bit integers that
  wrap, `Int64Limit` standing for 2^63; nothing bounds the records of a run or the
  messages of a record but the bound of the instance.
- Validation of a report (owner, mode, links, age) is its outcome: opened,
  disappeared, failed.
- Rotation events, byte and record statistics and overflow counts are left out of
  `SourceSession`; `overflowed` has no influence on control.
- bfusemon is not in the repository: it is modelled from `docs/source-contract.md`.
- The periodic reader of the OpenTelemetry SDK, its flush and shutdown, and the
  OTLP transport are external: at most one export at a time, a request succeeds,
  fails, or fails although it was delivered.  A request that reaches the collector
  after a later one is not modelled.
- In `MetricPipeline` the session is what hands over records and events and ends;
  its closing after the pipeline's shutdown is the subject of `SourceSession`.

## 3. Runs

| Run | Bounds | Shows |
|---|---|---|
| `reader_any_bytes` | every file of up to 5 byte classes out of 7, reads of 2, objects up to 3; files truncated and rewritten at will, failing fstat and `ReadAt`, short reads | rejections, clean returns and retained memory agree with the grammar; no false alarm of truncation or of an unexpected end |
| `reader_reports` | well-formed files of up to 9 bytes (two records and most of a third), reads of 3 and fewer, failing reads, objects of 2 | buffer, order, once-only delivery, `RecordStream`, and that every record is delivered |
| `session_rotation` | 3 rotations kept, 4 generations, 3 records, equal modification times | reading order of a quiet pass, counting over rotations |
| `session_faults` | 2 rotations kept, 3 generations, 2 records, every fault | no lost wakeup, descriptors, unclean report |
| `session_liveness` | 2 generations, 2 records, constant activity, cancellation | initialization ends, cancellation closes, records are applied |
| `pipeline` | 2 series, 3 records, one interval export, one source event, every export failure | consistent exports, cumulative sums, gauges, clean shutdown, and that it ends |
| `session_locks` | 2 goroutines, each of which calls every operation again and again; 1 record or change of the directory | locks follow the control flow, nothing closed is used, quiet after `Close`, every call returns |
| `source_parts` | identity: 4 instants a boot, two to the second, 2 boots, 2 processes, 2 clock settings, a failure at every read; records: 4 records out of 38, integers up to 3, a 64-bit limit of 4, so that sums wrap; waits: 2 units to the millisecond, polls of 3 milliseconds; settings: each field at, below and above its bounds | the four small machines, one per behaviour |
| `session_lower_bound`, `session_loss`, `session_drain_window`, `reader_cut` | see section 5 | statements of the docs that fail |

Why the bounds suffice: five bytes hold an object with separator and what follows
it, and reads of two bytes cut every construct at every place; nine bytes hold two
records with their separators and most of a third, or the closing bracket and
whitespace after two.  Three generations with
two names are the smallest directory in which a file is deleted, one renamed and
one created during a pass; four with three names let a reader keep a position that
two rotations have made stale.  Two series make an export between two additions
visible, three records are a baseline and two live records, of which the second
can be under way while the first is exported, and the flush, an interval's export
and the last export are the three that a shutdown can meet.  One goroutine that
holds a lock and one that waits for it, asks for another or polls are every conflict
between two calls, and the proofs of section 6 hold for any number of goroutines; one
change brings a pass round again or lets it call back.
Two processes, in one boot or in two, with the same start ticks in the latter case, are
the cases of PID reuse; two settings of the clock whose seconds differ are a step that changes a
creation time.  Waits of less than, exactly and more than a poll, with and without a
fraction of a millisecond, are all the ways a deadline can fall.

Deadlock is checked in `session_locks`.  Elsewhere the writer stops at its bound and
the system at `closed` or `end`, so deadlock is not checked; that the parts do not
block each other is what the liveness properties say.

### Fairness

`GenerationReader`: the reader takes its steps (the session drains every reader in
each pass, and passes recur by the rescan interval).  `SourceSession`: the
goroutine runs and timers fire; `Wait` returns after the rescan interval even
without an event.  `MetricPipeline`: both goroutines run, a request ends by its
timeout, the shutdown context expires.  `ProcessIdentity`: the run loop reads on and
rechecks when `Wait` returns, which it does after the rescan interval; that a
reconciliation ends is not assumed, because its loop is unbounded (section 5).  Weak
fairness is enough for all of these.  `SessionLocks` needs strong fairness: a goroutine that waits for a lock gets it when it is free again
and again, which `sync.Mutex` grants to one that has waited for a millisecond and
`sync.RWMutex` to the readers that waited for a writer; a callback returns.  Nothing is
assumed of bfusemon, the kernel's events, the collector, or the order of select cases.

## 4. Properties

`GenerationReader`: `BufferIsFileSlice`, `DeliversFileRecords` and
`ImplementsRecordStream` (nothing lost, repeated or cut short however reads fall
and handlers fail); `RejectsOnlyCorruptFiles`, `CleanReturnIsCaughtUp` (with the
one exception the code has: a rejected byte at the very end of a read passes for a
partial object until more arrives); `RetainsAtMostOneObject`;
`TruncationAlarmIsReal` (a truncation is reported only of a file cut below the read
offset, an unexpected end only of one cut to it or below between fstat and `ReadAt`);
`RecordsAreDelivered`.

`SourceSession`: `CaughtUpWhenQuiet` (no lost wakeup: whenever the session rests
and no event is queued, every report in the directory is registered and applied
to its end; cutover included); `DescriptorsAreOwned`; `UncleanReportIsExact`;
`QuietPassReadsOldestFirst`; `CountsEachIncreaseOnce`; `InitializationEnds`,
`CancelCloses`, `RecordsAreApplied`.

`MetricPipeline`: `CollectedTogether` (gauges and counters of one export are at
most one record apart); `CollectorNeverGoesBack`; `NoGaugeAfterSourceEnd`;
`CleanShutdownDeliversAll` (a shutdown without an error has delivered every
increase, and every self metric including the errors of earlier exports);
`ShutdownEnds`.

`SessionLocks`: `LocksFollowSteps` (no return path keeps a lock or gives one up early);
`SessionUsedOpen` (what `Reconcile` and `CurrentWatermarks` learnt of `closed` stays
true although `stateMutex` is long released, and no two use the registry);
`DescriptorsUsedOpen`; `QuietAfterClose` (no record and no event after `Close` has
returned, with the exception the code has: a drain under way notifies its
unclean-close report after it has released `operationMutex`); `CallsReturn`.

`ProcessIdentity`: `IdentityTellsLifetimes`, `SamplesTheSource`, `CreationIsCloseToStart`;
`RecheckIsExact` (a recheck ends the session exactly if its process is gone, with the
exception the code has: any file that cannot be read ends it too, as
`docs/source-contract.md:460` says of an identity that is unavailable); `EndIsNoticed`
(unless the reconciliation under way never ends, after which alone `Run` looks).
`RecordExport`: `ExportedIsExact` (modulo 2^64, as the sums of the instruments are),
`GaugesAreCurrent`, `NoSeriesDropped`, `NoValueVanishes`, each against a reading of
the record that does not go through the code's tables.  `WatchWait`:
`WaitIsPunctual`.  `Settings`: `ValidSettingsAreAccepted`.

## 5. Where documents and code differ

- **`session_lower_bound`.**  `docs/metrics.md:206` calls the counters lower
  bounds.  A scan opens reports by name after it has enumerated them; a report
  renamed in between is missed, the newer one is read first, and in the next pass
  the older one looks like a reset, after which the same increase counts again.
  `CountsEachIncreaseOnce` shows that this order is the only cause: as long as no
  generation is read after a newer one, the total is exact.
- **`session_loss`.**  `docs/configuration.md:56-58` says that a generation
  removed before it was discovered is reported as a discontinuity.  No step
  reports `generation_missing`.  The docs disagree: `docs/metrics.md:448-450` and
  `docs/implementation-status.md:234-237` say that the reason is not synthesized from an
  absent pathname, which is what the code does; `configuration.md` promises too much.
- **`session_drain_window`.**  `DrainSource` is described as bounded
  (`drain_linux.go:22-23`); the loop inside `Reconcile` does not look at the
  deadline, and activity in the directory keeps it going.
- **`reader_cut`.**  `docs/source-contract.md:456-457` has a truncated file
  reported; sizes are compared only when the reader looks, so a file that has
  grown to the offset again passes for the old one.

## 6. Proofs

`ReportFramingProofs` has the facts about the grammar.  `Framing` is a recursive
function over the offsets of a file; what holds after every prefix is proved by
induction on its length, with `SetInduction`, which follows from the well-foundedness
of the natural numbers and speaks of sets, so that a set of offsets can be put in for
its induction hypothesis.  `ScanExists` shows that the recursion has a value,
`AfterSteps` that the automaton goes from one byte to the next by one step, and
`RecordsGrow` that a report keeps its records whatever is appended to it.

`GenerationReaderProofs` proves, for every file, limit and size of reads, with files
that are truncated and rewritten at will and handlers that fail:

- `ReaderFollowsGrammar`: `Spec => []ReaderInv`, the inductive invariant.  Unless the
  file was cut below the read offset, the buffer is the slice of the file from the
  committed to the read offset, the records delivered are those the grammar has found
  up to the committed offset, and the decoder is where the grammar is there
  (`FramedInv`).  `PendingIsFramed` holds of every file, cut or not: a pending record
  is an object and its delimiter in the buffer.  `ControlInv` and `ReturnInv` say what
  each step of `drain` has already found.  None of the properties below is inductive
  alone: that a record is delivered whole rests on where `Next` found its end, which
  rests on where the bytes before it left the decoder.
- `WellTyped`, `ReadsContiguously` (`BufferIsFileSlice`), `DeliversEachOnce`
  (`DeliversFileRecords`), `RejectionsAreReal` (`RejectsOnlyCorruptFiles`),
  `ReturnsCaughtUp` (`CleanReturnIsCaughtUp`), `RetentionIsBounded`
  (`RetainsAtMostOneObject`) and `TruncationsAreReal` (`TruncationAlarmIsReal`) follow.
  `TruncationsAreReal` adds `TornInv`: a read that finds nothing beyond the read offset
  follows an fstat that saw more, so the file was cut in between.
  What the decoder finds in a buffer is what the grammar finds in the file, if the
  buffer is a slice of it: a record (`RecordIsFramed`), an error (`TooLargeIsCorrupt`,
  `InvalidIsCorrupt`) or nothing yet (`NeedsMoreIsIncomplete`).
- `ReaderImplementsStream`: unless files are truncated, every step of the reader is a
  step of `RecordStream` or a stutter.

`SourceSessionProofs` proves, for any number of rotations, generations and
records, and any set of faults, from the types of the constants alone:

- `TypeCorrect`: `Spec => []TypeOK`.
- `PassInvariant`: `Spec => []PassInv`, the inductive invariant.  It has five
  parts.  `WatchStands`: the watch exists whenever the session runs, so every
  change of the directory leaves an event.  `WatermarksInFile`: no reader is ahead
  of its file, and the closing bracket is seen exactly when a reader is at the end
  of a closed report.  `todo` is empty when the watcher is drained.
  `OpenedSoFar`: while no event is queued, every name of the directory that the
  scan has dealt with is among the reports found.  `DrainedSoFar`: while no event
  is queued, after registration every report in the directory has a reader, and
  every reader is at its end unless the pass has still to drain it.
  The argument: a step of the source either leaves the directory alone or queues
  an event, which makes the last two parts void until the watcher is drained; and
  the watcher is drained by steps that either start a new pass or have found no
  event, so that what the pass did still holds.  `CaughtUpWhenQuiet` itself is not
  inductive: it says nothing of a pass under way.
- `CaughtUp`: `Spec => []CaughtUpWhenQuiet`.
- `DescriptorsOwned`: `Spec => []DescriptorsAreOwned`, by `OwnerInv`, which adds
  that nothing is found outside a scan and nothing registered before the watch or
  after `Close`.
- `UncleanExact`: `Spec => []UncleanReportIsExact`, by `UncleanInv`: only
  `ReportUnclean` leads to a close without error, from a state at rest, where
  `DrainedSoFar` holds; after that only an event could make it untrue.
- `QuietPassesReadInOrder`: `Spec => []QuietPassReadsOldestFirst`, by `OrderInv`.  A
  higher rotation holds an older report in every state (`SlotsHoldNewestFirst`), and
  files move up only, so a rotation noted of a report, in this pass or an earlier one,
  is at most the one it has (`RotationsLag`).  Without an event the scan notes the
  rotation of now, and as `register` keeps the higher of two, the reader has it too
  (`RotationsAreCurrent`); rotations of reports in the directory then differ, and no
  modification time decides.
- `IncreasesCountOnce`: `Spec => []CountsEachIncreaseOnce`, by `CountInv`.  Generations
  continue each other's counter (`GenerationsContinue`), so a value that does not
  exceed the last one of a generation comes from it or from an older one, and the next
  record of its reader is higher (`HighestWasApplied`).  Read in order, a record is
  therefore above the baseline, which is the highest value so far.

`SessionLocksProofs` proves, for any set of goroutines, whatever each of them calls and
however much happens in the directory:

- `LocksHeldInSections`, `SessionStaysOpen`, `DescriptorsStayOpen` and, as an action
  property, `QuietOnceClosed`, from `LocksInv`.  `LocksFollowSteps` is inductive once
  it is known where nested calls return to (`ReturnsHome`).  It makes the locks
  exclusive, and what was checked under one then holds until it is left, because only
  the holder can change it: a goroutine that found the session open and still has
  `operationMutex` finds it open (`OpenInUse`), and only a session marked as closed is
  taken apart (`ClosedInOrder`).  `SessionUsedOpen` alone says nothing of the
  goroutine that is about to look at `closed`, nor of the one that is closing.

`MetricPipelineProofs` proves, for any series, records and number of records, events
and intervals, and whatever requests fail:

- `SumsStayNatural` (`TypeOK`), `ExportsBelongTogether` (`CollectedTogether`),
  `NoGaugeLeft` (`NoGaugeAfterSourceEnd`), `CleanShutdownDelivers`
  (`CleanShutdownDeliversAll`) and, as an action property, `CollectorKeepsWhatItHas`
  (`CollectorNeverGoesBack`), from `PipelineInv`.  It follows a number from `Process`
  to the collector.  `Accounts` and `SelfAccounts`: what was handed to `Process` is in
  the instruments or among the additions still to be made, with at most one record
  under way.  `Exports`: what was collected lies between what the collector has and
  what the instruments hold, so whichever batch arrives, none is a step back.
  `Gauges`: a flush is requested after `ClearGauges`, so its collection has no gauge,
  and as exports follow one another it is the last before its answer.  `LastExport`:
  nothing is added once the reader stops, so the last batch equals the sums, and it
  reports no error only if it arrived.  `CleanShutdownDeliversAll` alone says nothing
  before the end.

`ProcessIdentityProofs` proves, for any number of boots, processes and restarts and any
clock, with every read free to fail: `TellsLifetimes`, `OnlyTheSource`,
`CreationTimeIsClose` and, as an action property, `RecheckExact` (`RecheckIsExact`).  The
invariant says of each stage of a reading what the values read so far still mean: the
boot read is the current one, because a reboot ends the exporter; and ticks read twice
the same are of one process, because no process is born twice with the same boot and
ticks.

`WaitSettingsProofs` proves `Punctual` for every duration and interval of whole
milliseconds: a poll covers what is left and no more than the rounding beyond it; and
`RetryFitsTimeout` for every positive timeout, and `Accepted` for all settings.

`RecordExportProofs` proves, for any set of records made of JSON values, any number of
them and any bounds, `ExportWellTyped`, `SeriesKept`
(`NoSeriesDropped`) and `ValuesKept` (`NoValueVanishes`), from `ExportInv`;
`GaugesCurrent` (`GaugesAreCurrent`), from `GaugeInv`; and `ExportExact`
(`ExportedIsExact`), from `CounterInv`.  The normalizer, the state and the recorder are folds over lists.  `FoldSteps` says once what
a fold computes, as a function from the number of elements taken to the result so far;
a property of the result is then proved step by step, by `SetInduction`.  `SeriesKept`
needs that what the normalizer emits is of the tables' series (`RecordCounts`, with the
type `Normalized`), for which `CountersAreRecordable` and `GaugesAreObservable` find an
instrument and attributes.  `ValuesKept` needs `RecordCounts`: the parts a message or a
component is split into count all of its fields, those no table names included
(`AllCountFields`).

The last two theorems compare the exported values with the reference reading of a
record, which does not go through the code's tables.  `Told(v, s)` is what the updates
of a normalized record `v` say of a series `s`, in order.  `AzStorageTells`,
`LibfuseTells` and `FileCacheTells` show that the statistics of a component tell the
series of each field what the reference reads of that field and nothing else,
`MessageTells` that an event and the statistics of another component tell it nothing,
and `RecordTells` that a record tells it `Readings(record, f)`.  `GaugesFollow` then
leaves each gauge at what it was told last.  For counters `CounterAfterOne` is the
induction step: the baseline is the last reading, and the increments add up to what
the readings rise by (`CountersFollow`); `RecordAdds` carries the increments into the
sum of their own key and no other (`CounterKeysDiffer`, `PointIsKey`).  `Int64Adds` says that adding to a wrapped sum and
wrapping again is wrapping the sum, for sums of any size.  `CounterInv` has to say where
the baselines are at each record, which `ExportedIsExact` does not mention.

Assumed are the types of the constants, that a record has finitely many series, that a
second has at least one tick, a millisecond at least one unit, that the poll
interval is of whole milliseconds, that records are JSON objects
(`SourceRecordsAssumption`), that an integer that is parsed exactly fits into an
`int64`, which it does by ten bits, and that the limit of attribute sets
leaves room for all counters (`CardinalityAssumption`; the code has 17 and a limit
of 32 per instrument).

`ReaderInv`, `OrderInv`, `CountInv`, `UncleanInv`, `GaugeInv` and `CounterInv` were checked by TLC on the
instances of section 3 before they were proved.

Left to TLC: liveness (`RecordsAreDelivered`, `InitializationEnds`, `CancelCloses`,
`RecordsAreApplied`, `ShutdownEnds`, `CallsReturn`, `EndIsNoticed`), because fairness
is out of the provers' reach.  Every invariant and every action property the passing
runs check is proved.

## 7. Not modelled

`PROJECT.json` gives the reason for each component that is modelled in part.

- The validation of directories and reports (owner, mode, links, age) decides between
  the outcomes of opening a report, which are modelled.
- The text of procfs files, JSON and inotify events is modelled by what the parsers
  make of it; a malformed procfs file is a failing lookup.
- Process metrics: which process is sampled, not the arithmetic from ticks and pages.
- The OTLP client and the resources are settings of a library; their outcomes are the
  inputs of `MetricPipeline`.
- Counts of rotations, records and bytes in `SourceSession`; log output and usage text.
- Limits of the host: the number of descriptors is bounded by the registered
  generations, which nothing in the code bounds.

## 8. Plan

The most important behaviour came first: the reader, the session, the pipeline, then
the locks, the identity, the values of records, the waiting and the settings.  What
would be worth adding, in this order:

1. That `MetricPipeline`, which is given the increases of a record, implements the
   counters of `RecordExport`, which computes them.
2. Rotation counts in `SourceSession`, so that what the self metrics say of rotations
   can be compared with what the writer did.
