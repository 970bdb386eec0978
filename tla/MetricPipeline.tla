----------------------------- MODULE MetricPipeline -----------------------------
(***************************************************************************)
(* From a source record to the collector: Processor and metrics.State, the *)
(* counter and self-metric recorders, the pipeline with its exporter, and  *)
(* app.Run, which puts them together and shuts them down.                  *)
(*                                                                         *)
(* Two goroutines take part.  The application's runs the session, handles  *)
(* one record after the other, and shuts the pipeline down; "pc" is where  *)
(* it is.  The periodic reader's collects and exports; "export" is where   *)
(* it is, and whom it works for.  The OpenTelemetry SDK, its periodic      *)
(* reader and the OTLP transport are libraries, modelled by what the       *)
(* pipeline relies on.                                                     *)
(***************************************************************************)
EXTENDS CounterState, FiniteSets

CONSTANTS Series,       \* the counter series of the source
          Content,      \* what a record may say, see ContentAssumption
          MaxRecords,   \* bound: records the source delivers
          MaxTicks,     \* bound: export intervals that elapse
          MaxEvents     \* bound: source events (rotations, discontinuities)

\* The counter values a record holds, whether it holds the gauge, and whether
\* it holds values NormalizeRecord drops
ASSUME ContentAssumption ==
    \A r \in Content :
        /\ DOMAIN r = {"counters", "gauge", "invalid"}
        /\ DOMAIN r.counters \subseteq Series /\ IsFiniteSet(DOMAIN r.counters)
        /\ \A s \in DOMAIN r.counters : r.counters[s] \in Nat
        /\ r.gauge \in BOOLEAN /\ r.invalid \in BOOLEAN
ASSUME BoundsAssumption == MaxRecords \in Nat /\ MaxTicks \in Nat /\ MaxEvents \in Nat

VARIABLES
    pc,          \* where the application's goroutine is
    baselines,   \* State.counterBaselines
    gauge,       \* State.gauges: the record that set it last, NoGauge if none
    additions,   \* CounterIncrements of the record not added yet, by series
    outcome,     \* the RecordOutcome of the record in process
    resets,      \* CounterResets of the record in process
    stats,       \* ProcessingStats.{Accepted,Ignored,Invalid}Records
    counters,    \* cumulative sums of the counter instruments
    self,        \* cumulative sums of the self-metric instruments
    callbacks,   \* whether the gauge callback is registered
    ended,       \* RunResult.SourceEnd
    deadline,    \* the shutdown context expired
    failed,      \* the shutdown met an error
    flushed      \* how the pending ForceFlush request was answered

VARIABLES
    export,      \* where the export under way is, "idle" if there is none
    owner,       \* what it was started by
    locked,      \* resourceExporter.mutex
    batch,       \* the collected target metrics
    selfBatch,   \* the collected self metrics
    exportError, \* whether the export under way met an error
    ticks,       \* export intervals elapsed
    received,    \* what the collector holds of the target resource
    receivedSelf,\* what it holds of the adapter resource
    truth        \* history: what happened, see Truth

stateVars == <<baselines, gauge, additions, outcome, resets, stats>>
appVars == <<callbacks, ended, deadline, failed, flushed>>
exportVars == <<export, owner, locked, batch, selfBatch, exportError>>
collectorVars == <<received, receivedSelf>>
vars == <<pc, stateVars, counters, self, appVars, exportVars, ticks, collectorVars,
          truth>>

NoGauge == 0
Outcome == {"accepted", "ignored", "invalid"}
Zero == [s \in Series |-> 0]
NoSelf == [records |-> [o \in Outcome |-> 0], resets |-> 0, events |-> 0, errors |-> 0]
\* "gauge" and "counters" are what is exported; the others are history: the
\* records handled and their increase when the collection began
NoBatch == [gauge |-> NoGauge, counters |-> Zero, handled |-> 0, floor |-> Zero,
            late |-> FALSE]

\* records: handed to Process; gain: the live increase of each series in them;
\* handled, floor: the same of the records completely handled
Truth == [records : Nat, gain : [Series -> Nat], handled : Nat, floor : [Series -> Nat],
          resets : Nat, events : Nat, errors : Nat]

Init ==
    /\ pc = "baseline"
    /\ baselines = [s \in Series |-> Unobserved] /\ gauge = NoGauge
    /\ additions = Zero /\ outcome = "accepted" /\ resets = {}
    /\ stats = [o \in Outcome |-> 0]
    /\ counters = Zero /\ self = NoSelf
    /\ callbacks = FALSE /\ ended = FALSE /\ deadline = FALSE /\ failed = FALSE
    /\ flushed = "none"
    /\ export = "idle" /\ owner = "none" /\ locked = FALSE
    /\ batch = NoBatch /\ selfBatch = NoSelf /\ exportError = FALSE /\ ticks = 0
    /\ received = [gauge |-> NoGauge, counters |-> Zero] /\ receivedSelf = NoSelf
    /\ truth = [records |-> 0, gain |-> Zero, handled |-> 0, floor |-> Zero,
                resets |-> 0, events |-> 0, errors |-> 0]

-----------------------------------------------------------------------------
(***************************************************************************)
(* Processor.Process, called by the session for one record at a time.  The *)
(* record is applied under State's mutex; statistics and observers follow, *)
(* each under locks of its own, while the reader may collect.              *)
(***************************************************************************)
Mode == IF pc = "baseline" THEN "baseline" ELSE "live"

\* State.Apply
Apply(r) ==
    LET Observed == DOMAIN r.counters
        gains == [s \in Series |->
                     IF s \in Observed
                     THEN Increment(Mode, baselines[s], r.counters[s]) ELSE 0]
    IN  /\ baselines' = [s \in Series |->
                            IF s \in Observed THEN r.counters[s] ELSE baselines[s]]
        /\ resets' = {s \in Observed : IsReset(Mode, baselines[s], r.counters[s])}
        /\ additions' = gains
        /\ gauge' = IF r.gauge THEN truth.records + 1 ELSE gauge
        /\ truth' = [truth EXCEPT
                        !.records = @ + 1,
                        !.gain = [s \in Series |-> @[s] + gains[s]],
                        !.resets = @ + Cardinality(resets')]

Process(r) ==
    /\ pc \in {"baseline", "live"} /\ truth.records < MaxRecords
    /\ Apply(r)
    /\ outcome' = IF DOMAIN r.counters # {} \/ r.gauge THEN "accepted"
                  ELSE IF r.invalid THEN "invalid" ELSE "ignored"
    /\ pc' = IF pc = "baseline" THEN "baselineStats" ELSE "stats"
    /\ UNCHANGED <<stats, counters, self, appVars, exportVars, ticks, collectorVars>>

\* NormalizeRecord fails: the record is counted and Run returns the error.
\* During the baseline InitializeSource returns it: StartFails.
ProcessInvalid ==
    /\ pc = "live" /\ truth.records < MaxRecords
    /\ outcome' = "invalid" /\ additions' = Zero /\ resets' = {}
    /\ truth' = [truth EXCEPT !.records = @ + 1]
    /\ pc' = "failingStats"
    /\ UNCHANGED <<baselines, gauge, stats, counters, self, appVars, exportVars, ticks,
                   collectorVars>>

\* recordStats; no observer is attached during the baseline
RecordStats ==
    /\ pc \in {"baselineStats", "stats", "failingStats"}
    /\ stats' = [stats EXCEPT ![outcome] = @ + 1]
    /\ pc' = CASE pc = "baselineStats" -> "baseline"
               [] pc = "stats" -> "add"
               [] pc = "failingStats" -> "failingAdd"
    /\ IF pc = "baselineStats"
       THEN /\ truth' = [truth EXCEPT !.handled = truth.records]
            /\ outcome' = "accepted"
       ELSE UNCHANGED <<truth, outcome>>
    /\ UNCHANGED <<baselines, gauge, additions, resets, counters, self, appVars,
                   exportVars, ticks, collectorVars>>

\* Mutant: the first addition ends the record
AddOnce(s) ==
    /\ pc \in {"add", "failingAdd"} /\ additions[s] > 0
    /\ counters' = [counters EXCEPT ![s] = @ + additions[s]]
    /\ additions' = Zero
    /\ UNCHANGED <<pc, baselines, gauge, outcome, resets, stats, self, appVars, exportVars,
                   ticks, collectorVars, truth>>

\* OTelRecorder.Record: the additions go to their instruments one by one.
\* Every series of "Series" has an instrument: NormalizeRecord and
\* DescribeSeries know the same ones.
Add(s) ==
    /\ pc \in {"add", "failingAdd"} /\ additions[s] > 0
    /\ counters' = [counters EXCEPT ![s] = @ + additions[s]]
    /\ additions' = [additions EXCEPT ![s] = 0]
    /\ UNCHANGED <<pc, baselines, gauge, outcome, resets, stats, self, appVars, exportVars,
                   ticks, collectorVars, truth>>

\* SelfRecorder.Record; no property tells its additions apart
RecordSelf ==
    /\ pc \in {"add", "failingAdd"} /\ additions = Zero
    /\ self' = [self EXCEPT !.records[outcome] = @ + 1,
                            !.resets = @ + Cardinality(resets)]
    /\ pc' = IF pc = "add" THEN "live" ELSE "failed"
    /\ truth' = [truth EXCEPT !.handled = truth.records, !.floor = truth.gain]
    /\ outcome' = "accepted" /\ resets' = {}
    /\ UNCHANGED <<baselines, gauge, additions, stats, counters, appVars, exportVars, ticks, collectorVars>>

\* RecordSourceEvent, from a reconciliation between two records
SourceEvent ==
    /\ pc = "live" /\ truth.events < MaxEvents
    /\ self' = [self EXCEPT !.events = @ + 1]
    /\ truth' = [truth EXCEPT !.events = @ + 1]
    /\ UNCHANGED <<pc, stateVars, counters, appVars, exportVars, ticks, collectorVars>>

-----------------------------------------------------------------------------
(***************************************************************************)
(* app.Run.                                                                *)
(***************************************************************************)

\* InitializeSource or NewPipeline fails: nothing was exported yet
StartFails ==
    /\ pc = "baseline"
    /\ pc' = "end" /\ failed' = TRUE
    /\ UNCHANGED <<stateVars, counters, self, callbacks, ended, deadline, flushed,
                   exportVars, ticks, collectorVars, truth>>

\* Mutant: the records of the baseline do not count
BuildUnseeded ==
    /\ pc = "baseline"
    /\ callbacks' = TRUE
    /\ pc' = "attach"
    /\ UNCHANGED <<stateVars, counters, self, ended, deadline, failed, flushed,
                   exportVars, ticks, collectorVars, truth>>

\* NewPipeline, up to the observer: self metrics start from the statistics of
\* the baseline, and the periodic reader starts
BuildPipeline ==
    /\ pc = "baseline"
    /\ self' = [self EXCEPT !.records = stats]
    /\ callbacks' = TRUE
    /\ pc' = "attach"
    /\ UNCHANGED <<stateVars, counters, ended, deadline, failed, flushed, exportVars,
                   ticks, collectorVars, truth>>

\* Processor.AttachObserver and SourceSession.AttachObserver, then Run
AttachObservers ==
    /\ pc = "attach"
    /\ pc' = "live"
    /\ UNCHANGED <<stateVars, counters, self, appVars, exportVars, ticks, collectorVars,
                   truth>>

\* Mutant: the gauges stay when the source ends
SourceEndsUncleared ==
    /\ pc \in {"live", "failed"}
    /\ ended' = TRUE
    /\ pc' = "flush"
    /\ UNCHANGED <<stateVars, counters, self, callbacks, deadline, failed, flushed,
                   exportVars, ticks, collectorVars, truth>>

\* Run returns with SourceEnd, with or without an error: ClearGauges
SourceEnds ==
    /\ pc \in {"live", "failed"}
    /\ ended' = TRUE /\ gauge' = NoGauge
    /\ pc' = "flush"
    /\ UNCHANGED <<baselines, additions, outcome, resets, stats, counters, self, callbacks,
                   deadline, failed, flushed, exportVars, ticks, collectorVars, truth>>

\* Run returns because the caller cancelled, or with an error
RunReturns ==
    /\ pc \in {"live", "failed"}
    /\ pc' = "flush"
    /\ UNCHANGED <<stateVars, counters, self, appVars, exportVars, ticks, collectorVars,
                   truth>>

ShutdownExpires ==
    /\ pc \in {"flush", "flushing", "unregister", "stop", "stopping"}
    /\ ~deadline
    /\ deadline' = TRUE
    /\ UNCHANGED <<pc, stateVars, counters, self, callbacks, ended, failed, flushed,
                   exportVars, ticks, collectorVars, truth>>

-----------------------------------------------------------------------------
(***************************************************************************)
(* Pipeline.Shutdown: ForceFlush, the callbacks, the provider, which       *)
(* collects and exports once more, and the exporter.                       *)
(***************************************************************************)

\* The run loop of the reader takes the request when it is idle
RequestFlush ==
    /\ pc = "flush" /\ export = "idle"
    /\ export' = "observe" /\ owner' = "flush" /\ exportError' = FALSE
    /\ pc' = "flushing"
    /\ UNCHANGED <<stateVars, counters, self, appVars, locked, batch, selfBatch, ticks,
                   collectorVars, truth>>

\* resourceExporter.ForceFlush follows a successful flush; it fails only if
\* the context has expired, and that error is counted
FlushAnswered ==
    /\ pc = "flushing" /\ flushed # "none" /\ ~locked
    /\ LET late == flushed = "ok" /\ deadline
       IN  /\ self' = IF late THEN [self EXCEPT !.errors = @ + 1] ELSE self
           /\ truth' = IF late THEN [truth EXCEPT !.errors = @ + 1] ELSE truth
           /\ failed' = (failed \/ late \/ flushed = "error")
    /\ pc' = "unregister"
    /\ UNCHANGED <<stateVars, counters, callbacks, ended, deadline, flushed, exportVars,
                   ticks, collectorVars>>

FlushExpires ==
    /\ pc \in {"flush", "flushing"} /\ deadline
    /\ failed' = TRUE
    /\ pc' = "unregister"
    /\ UNCHANGED <<stateVars, counters, self, callbacks, ended, deadline, flushed,
                   exportVars, ticks, collectorVars, truth>>

\* OTelRecorder.Close
CloseRecorder ==
    /\ pc = "unregister"
    /\ callbacks' = FALSE
    /\ pc' = "stop"
    /\ UNCHANGED <<stateVars, counters, self, ended, deadline, failed, flushed, exportVars,
                   ticks, collectorVars, truth>>

\* The run loop has ended; what is left is collected and exported
StopReader ==
    /\ pc = "stop" /\ export = "idle"
    /\ export' = "observe" /\ owner' = "stop" /\ exportError' = FALSE
    /\ pc' = "stopping"
    /\ UNCHANGED <<stateVars, counters, self, appVars, locked, batch, selfBatch, ticks,
                   collectorVars, truth>>

\* resourceExporter.Shutdown; an error is counted, and the self metrics are
\* not collected any more
ShutdownExporter ==
    /\ pc = "stopping" /\ export = "idle" /\ ~locked
    /\ \E error \in BOOLEAN :
        /\ deadline => error
        /\ self' = IF error THEN [self EXCEPT !.errors = @ + 1] ELSE self
        /\ truth' = IF error THEN [truth EXCEPT !.errors = @ + 1] ELSE truth
        /\ failed' = (failed \/ exportError \/ error)
    /\ pc' = "end"
    /\ UNCHANGED <<stateVars, counters, callbacks, ended, deadline, flushed, exportVars,
                   ticks, collectorVars>>

-----------------------------------------------------------------------------
(***************************************************************************)
(* One collection and export, of the periodic reader or of its Shutdown.   *)
(***************************************************************************)
Tick ==
    /\ pc \notin {"baseline", "baselineStats", "stopping", "end"}
    /\ export = "idle" /\ ticks < MaxTicks
    /\ export' = "observe" /\ owner' = "interval" /\ exportError' = FALSE
    /\ ticks' = ticks + 1
    /\ UNCHANGED <<pc, stateVars, counters, self, appVars, locked, batch, selfBatch,
                   collectorVars, truth>>

\* The context of an export can expire at any time, and has if the shutdown's
\* did or the run loop was cancelled
Expired == owner = "stop" /\ deadline

\* Mutant: delta temporality
CollectDelta(s) ==
    /\ export = "collect" /\ s \notin DOMAIN batch.counters
    /\ batch' = [batch EXCEPT !.counters =
                    [t \in DOMAIN @ \cup {s} |-> IF t = s THEN counters[s] ELSE @[t]]]
    /\ counters' = [counters EXCEPT ![s] = 0]
    /\ UNCHANGED <<pc, stateVars, self, appVars, export, owner, locked, selfBatch,
                   exportError, ticks, collectorVars, truth>>

\* The callback reads State.Gauges first
Observe ==
    /\ export = "observe" /\ ~Expired
    /\ batch' = [gauge |-> IF callbacks THEN gauge ELSE NoGauge,
                 counters |-> [s \in {} |-> 0],
                 handled |-> truth.handled, floor |-> truth.floor, late |-> ended]
    /\ export' = "collect"
    /\ UNCHANGED <<pc, stateVars, counters, self, appVars, owner, locked, selfBatch,
                   exportError, ticks, collectorVars, truth>>

\* then the instruments are read, one by one
Collect(s) ==
    /\ export = "collect" /\ s \notin DOMAIN batch.counters
    /\ batch' = [batch EXCEPT !.counters =
                    [t \in DOMAIN @ \cup {s} |-> IF t = s THEN counters[s] ELSE @[t]]]
    /\ UNCHANGED <<pc, stateVars, counters, self, appVars, export, owner, locked,
                   selfBatch, exportError, ticks, collectorVars, truth>>

\* resourceExporter.Export takes its mutex
Lock ==
    /\ export = "collect" /\ DOMAIN batch.counters = Series /\ ~locked
    /\ locked' = TRUE
    /\ export' = "send"
    /\ UNCHANGED <<pc, stateVars, counters, self, appVars, owner, batch, selfBatch,
                   exportError, ticks, collectorVars, truth>>

\* resourceExporter.recordError
CountError ==
    /\ self' = [self EXCEPT !.errors = @ + 1]
    /\ truth' = [truth EXCEPT !.errors = @ + 1]

\* A request that fails may have reached the collector all the same
Delivered(old, new, answered) == IF answered THEN {new} ELSE {old, new}

SendTarget(answered) ==
    /\ export = "send" /\ (answered => ~Expired)
    /\ received' \in Delivered(received, [gauge |-> batch.gauge,
                                          counters |-> batch.counters], answered)
    /\ IF answered THEN UNCHANGED <<self, truth>> ELSE CountError
    /\ exportError' = ~answered
    /\ export' = "self"
    /\ UNCHANGED <<pc, stateVars, counters, appVars, owner, locked, batch, selfBatch, ticks,
                   receivedSelf>>

\* The export is over: a flush is answered, and a shutdown goes on with the
\* error
Answer(error) ==
    /\ export' = "idle" /\ owner' = "none"
    /\ flushed' = IF owner # "flush" THEN flushed
                  ELSE IF error THEN "error" ELSE "ok"
    /\ exportError' = (owner = "stop" /\ error)
    /\ batch' = NoBatch /\ selfBatch' = NoSelf

Finish(error) == Answer(error) /\ locked' = FALSE

\* The self metrics are collected in the same export, the error just counted
\* among them
CollectSelf ==
    /\ export = "self" /\ ~Expired /\ self # NoSelf
    /\ selfBatch' = self
    /\ export' = "sendSelf"
    /\ UNCHANGED <<pc, stateVars, counters, self, appVars, owner, locked, batch,
                   exportError, ticks, collectorVars, truth>>

NoSelfMetrics ==
    /\ export = "self" /\ self = NoSelf
    /\ Finish(exportError)
    /\ UNCHANGED <<pc, stateVars, counters, self, callbacks, ended, deadline, failed,
                   ticks, collectorVars, truth>>

\* Mutant: an early return keeps the mutex
SelfFailsLocked ==
    /\ export \in {"observe", "self"}
    /\ Answer(TRUE)
    /\ UNCHANGED <<pc, stateVars, counters, self, callbacks, ended, deadline, failed,
                   locked, ticks, collectorVars, truth>>

\* A collection fails because its context has expired
CollectionFails ==
    /\ export \in {"observe", "self"}
    /\ Finish(TRUE)
    /\ UNCHANGED <<pc, stateVars, counters, self, callbacks, ended, deadline, failed,
                   ticks, collectorVars, truth>>

SendSelf(answered) ==
    /\ export = "sendSelf" /\ (answered => ~Expired)
    /\ receivedSelf' \in Delivered(receivedSelf, selfBatch, answered)
    /\ IF answered THEN UNCHANGED <<self, truth>> ELSE CountError
    /\ Finish(exportError \/ ~answered)
    /\ UNCHANGED <<pc, stateVars, counters, callbacks, ended, deadline, failed, ticks,
                   received>>

-----------------------------------------------------------------------------
Handle ==
    \/ \E r \in Content : Process(r)
    \/ ProcessInvalid \/ RecordStats \/ (\E s \in Series : Add(s)) \/ RecordSelf
    \/ SourceEvent

StartUp == StartFails \/ BuildPipeline \/ AttachObservers

RunEnds == SourceEnds \/ RunReturns

Shutdown ==
    \/ RequestFlush \/ FlushAnswered \/ FlushExpires \/ CloseRecorder \/ StopReader
    \/ ShutdownExporter

Export ==
    \/ Observe \/ (\E s \in Series : Collect(s)) \/ Lock
    \/ (\E answered \in BOOLEAN : SendTarget(answered) \/ SendSelf(answered))
    \/ CollectSelf \/ NoSelfMetrics \/ CollectionFails

Next ==
    Handle \/ StartUp \/ RunEnds \/ ShutdownExpires \/ Shutdown \/ Tick \/ Export

Spec == Init /\ [][Next]_vars

\* The goroutines run, and no request outlives its timeout; records, events
\* and intervals come as they will.
FairSpec ==
    Spec /\ WF_vars(Shutdown) /\ WF_vars(Export) /\ WF_vars(ShutdownExpires)
         /\ WF_vars(RecordStats \/ (\E s \in Series : Add(s)) \/ RecordSelf)
-----------------------------------------------------------------------------
SelfType == [records : [Outcome -> Nat], resets : Nat, events : Nat, errors : Nat]

(***************************************************************************)
(* Types.  The sums are natural numbers: no addition is negative, whatever *)
(* the counters of the source do (State.Apply, OTelRecorder.Record).       *)
(***************************************************************************)
TypeOK ==
    /\ pc \in {"baseline", "baselineStats", "attach", "live", "stats", "add",
              "failingStats", "failingAdd", "failed", "flush", "flushing",
              "unregister", "stop", "stopping", "end"}
    /\ baselines \in [Series -> Nat \cup {Unobserved}]
    /\ gauge \in Nat /\ outcome \in Outcome /\ resets \subseteq Series
    /\ additions \in [Series -> Nat] /\ counters \in [Series -> Nat]
    /\ stats \in [Outcome -> Nat]
    /\ {callbacks, ended, deadline, failed, locked, exportError} \subseteq BOOLEAN
    /\ flushed \in {"none", "ok", "error"}
    /\ owner \in {"none", "interval", "flush", "stop"}
    /\ export \in {"idle", "observe", "collect", "send", "self", "sendSelf"}
    /\ self \in SelfType /\ selfBatch \in SelfType /\ receivedSelf \in SelfType
    /\ received \in [gauge : Nat, counters : [Series -> Nat]]
    /\ truth \in Truth

(***************************************************************************)
(* What one export shows belongs together: the counters include every      *)
(* record completely handled when the gauges were read, and the gauge is   *)
(* at most one record ahead of that (Process, OTelRecorder).               *)
(***************************************************************************)
CollectedTogether ==
    export = "send" =>
        /\ batch.gauge <= batch.handled + 1
        /\ \A s \in Series : batch.counters[s] >= batch.floor[s]

(***************************************************************************)
(* The sums the collector holds never decrease, whatever exports fail, are *)
(* delivered without an answer, or are repeated (resourceExporter.Export,  *)
(* cumulative temporality).                                                *)
(***************************************************************************)
CollectorNeverGoesBack ==
    [][/\ \A s \in Series : received'.counters[s] >= received.counters[s]
       /\ \A o \in Outcome : receivedSelf'.records[o] >= receivedSelf.records[o]
       /\ receivedSelf'.errors >= receivedSelf.errors]_vars

(***************************************************************************)
(* No export that began after the source ended carries its gauges, and     *)
(* once the shutdown's flush is answered the collector holds none, though  *)
(* an interval's export begun before may have been in flight at the end    *)
(* (ClearGauges, observeGauges, resourceExporter.Export).                  *)
(***************************************************************************)
NoGaugeAfterSourceEnd ==
    /\ batch.late => batch.gauge = NoGauge
    /\ (ended /\ flushed = "ok") => received.gauge = NoGauge

(***************************************************************************)
(* A shutdown that reports no error has delivered every live increase and  *)
(* every self metric, the records of the baseline and the failed exports   *)
(* of the whole run included, and no gauge is left (Pipeline.Shutdown,     *)
(* NewPipeline, resourceExporter.Export).                                  *)
(***************************************************************************)
CleanShutdownDeliversAll ==
    (pc = "end" /\ ~failed) =>
        /\ received = [gauge |-> NoGauge, counters |-> truth.gain]
        /\ receivedSelf.records = stats
        /\ receivedSelf.resets = truth.resets
        /\ receivedSelf.events = truth.events
        /\ receivedSelf.errors = truth.errors

(***************************************************************************)
(* The shutdown ends, whatever the collector does (Pipeline.Shutdown and   *)
(* its context, resourceExporter's mutex).                                 *)
(***************************************************************************)
ShutdownEnds == pc = "flush" ~> pc = "end"
=============================================================================
