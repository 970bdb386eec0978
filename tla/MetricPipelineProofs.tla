------------------------- MODULE MetricPipelineProofs -------------------------
(***************************************************************************)
(* What a clean shutdown has delivered, and what every export holds, for   *)
(* any number of series, records and intervals.                            *)
(*                                                                         *)
(* The argument has one part for each place the numbers pass through: the  *)
(* instruments hold what was handed to Process (Accounts, SelfAccounts),   *)
(* a batch lies between what the collector has and the instruments         *)
(* (Exports), a batch begun after the source ended has no gauge (Gauges),  *)
(* and the last export leaves nothing behind (LastExport).  None of them   *)
(* is inductive alone; PipelineInv is.                                     *)
(***************************************************************************)
EXTENDS MetricPipeline, FiniteSetTheorems, TLAPS

\* Where a record is in process: handed to Process and not completely handled.
InProcess == {"baselineStats", "stats", "add", "failingStats", "failingAdd"}
\* Where the shutdown is after it has asked for a flush
Down == {"flushing", "unregister", "stop", "stopping", "end"}
\* The steps of an export whose batch is complete
Sending == {"send", "self", "sendSelf"}

\* A complete batch has every series, an incomplete one those read so far.
BatchType ==
    /\ DOMAIN batch = {"gauge", "counters", "handled", "floor", "late"}
    /\ batch.gauge \in Nat /\ batch.handled \in Nat /\ batch.late \in BOOLEAN
    /\ batch.floor \in [Series -> Nat]
    /\ batch.counters \in [DOMAIN batch.counters -> Nat]
    /\ DOMAIN batch.counters \subseteq Series
    /\ export \in Sending => DOMAIN batch.counters = Series

\* What was handed to Process is in the instruments or on its way there.
Accounts ==
    /\ truth.records = truth.handled + (IF pc \in InProcess THEN 1 ELSE 0)
    /\ gauge <= truth.records
    /\ \A s \in Series : /\ counters[s] + additions[s] = truth.gain[s]
                         /\ truth.floor[s] <= counters[s]
    /\ pc \notin {"stats", "add", "failingStats", "failingAdd"} =>
          additions = Zero /\ resets = {}

\* So it is for the self metrics; until the pipeline is built, the statistics
\* of the baseline are what they will start from.
SelfAccounts ==
    /\ self.events = truth.events /\ self.errors = truth.errors
    /\ self.resets + Cardinality(resets) = truth.resets
    /\ IsFiniteSet(resets)
    /\ \A o \in Outcome :
          IF pc \in {"baseline", "baselineStats"} THEN self.records[o] = 0
          ELSE pc # "end" \/ ~failed =>
               stats[o] = self.records[o]
                          + (IF pc \in {"add", "failingAdd"} /\ o = outcome THEN 1 ELSE 0)

\* No sum of "low" is above that of "high".
AtMost(low, high) ==
    /\ \A o \in Outcome : low.records[o] <= high.records[o]
    /\ low.resets <= high.resets /\ low.events <= high.events /\ low.errors <= high.errors

\* What was collected lies between what the collector has and the sums.
Exports ==
    /\ batch.gauge <= batch.handled + 1
    /\ \A s \in Series : /\ batch.floor[s] <= counters[s]
                         /\ received.counters[s] <= counters[s]
    /\ export \in {"collect"} \cup Sending =>
          \A s \in DOMAIN batch.counters :
              /\ batch.floor[s] <= batch.counters[s]
              /\ received.counters[s] <= batch.counters[s]
              /\ batch.counters[s] <= counters[s]
    /\ AtMost(receivedSelf, self)
    /\ export = "sendSelf" => AtMost(receivedSelf, selfBatch) /\ AtMost(selfBatch, self)

\* What begins after the source ended has no gauge, and the flush began then.
Gauges ==
    /\ ended => gauge = NoGauge /\ pc \in {"flush"} \cup Down
    /\ pc \notin Down => flushed = "none" /\ owner \in {"none", "interval"}
    /\ batch.late => batch.gauge = NoGauge
    /\ ended /\ export \in {"collect", "send"}
          /\ (owner \in {"flush", "stop"} \/ flushed # "none")
          => batch.late
    /\ ended /\ owner = "flush" /\ export \in {"self", "sendSelf"} /\ ~exportError
          => received.gauge = NoGauge
    /\ ended /\ flushed = "ok" => received.gauge = NoGauge

\* The collector holds every sum, and no gauge.
Complete ==
    received.gauge = NoGauge /\ \A s \in Series : received.counters[s] = counters[s]

\* The last export: nothing is added any more.
LastExport ==
    /\ pc \in {"stop", "stopping"} => ~callbacks
    /\ pc = "stopping" /\ export # "idle" => owner = "stop"
    /\ pc = "stopping" /\ export \in {"collect"} \cup Sending =>
          /\ batch.gauge = NoGauge
          /\ \A s \in DOMAIN batch.counters : batch.counters[s] = counters[s]
    /\ pc = "stopping" /\ export \in {"self", "sendSelf"} /\ ~exportError => Complete
    /\ pc = "stopping" /\ export = "sendSelf" => selfBatch = self
    /\ pc = "stopping" /\ export = "idle" /\ ~exportError
          => Complete /\ receivedSelf = self
    /\ pc = "end" /\ ~failed => Complete /\ receivedSelf = self /\ export = "idle"

PipelineInv ==
    /\ TypeOK /\ BatchType /\ Accounts /\ SelfAccounts /\ Exports /\ Gauges /\ LastExport

-----------------------------------------------------------------------------
\* What a record adds to the history keeps its type.
LEMMA TruthOfRecord ==
    ASSUME NEW t \in Truth, NEW g \in [Series -> Nat], NEW k \in Nat
    PROVE [t EXCEPT !.records = @ + 1, !.gain = [s \in Series |-> @[s] + g[s]],
                    !.resets = @ + k] \in Truth
  <1> DEFINE sum == [s \in Series |-> t.gain[s] + g[s]]
             first == [t EXCEPT !.records = @ + 1]
             second == [first EXCEPT !.gain = sum]
             third == [second EXCEPT !.resets = t.resets + k]
  <1>1. sum \in [Series -> Nat] BY DEF Truth
  <1>2. first \in Truth BY DEF Truth
  <1>3. second \in Truth
    <2> HIDE DEF sum, first
    <2> QED BY <1>1, <1>2 DEF Truth
  <1>4. third \in Truth
    <2> HIDE DEF sum, second
    <2> QED BY <1>3 DEF Truth
  <1> QED BY <1>4, Zenon DEF Truth

\* What a record adds to the self metrics keeps their type.
LEMMA SelfOfRecord ==
    ASSUME NEW f \in SelfType, NEW o \in Outcome, NEW k \in Nat
    PROVE [f EXCEPT !.records[o] = @ + 1, !.resets = @ + k] \in SelfType
  <1> DEFINE first == [f EXCEPT !.records[o] = @ + 1]
  <1>1. first \in SelfType /\ first.resets = f.resets
    BY DEF SelfType
  <1>2. [first EXCEPT !.resets = @ + k] \in SelfType
    <2> HIDE DEF first
    <2> QED BY <1>1 DEF SelfType
  <1>3. [first EXCEPT !.resets = @ + k]
          = [f EXCEPT !.records[o] = @ + 1, !.resets = @ + k]
   BY DEF SelfType
  <1> QED BY <1>2, <1>3
\* At most one record is not completely handled.
LEMMA GaugeIsRecent ==
    ASSUME TypeOK, Accounts
    PROVE gauge <= truth.handled + 1 /\ truth.handled \in Nat /\ gauge \in Nat
  <1>1. truth.records \in Nat /\ truth.handled \in Nat /\ gauge \in Nat
    BY DEF TypeOK, Truth
  <1>2. gauge <= truth.records /\ truth.records <= truth.handled + 1
    BY <1>1 DEF Accounts
  <1> QED
    BY <1>1, <1>2

\* Every addition is a natural number, whatever the counters of the source do.
LEMMA TypeNext ==
    ASSUME TypeOK, BatchType, IsFiniteSet(resets), [Next]_vars
    PROVE TypeOK'
  <1> USE ContentAssumption, BoundsAssumption DEF TypeOK, BatchType, SelfType,
      Truth, NoBatch, NoSelf, Outcome, Zero, NoGauge, Unobserved, Increment, Sending,
      vars, stateVars, appVars, exportVars, collectorVars
  <1>1. CASE \E r \in Content : Process(r)
    <2> SUFFICES ASSUME NEW r \in Content, Process(r) PROVE TypeOK'
      BY <1>1
    <2> USE DEF Process, Apply
    <2>1. /\ DOMAIN r.counters \subseteq Series
          /\ \A s \in DOMAIN r.counters : r.counters[s] \in Nat
      BY ContentAssumption
    <2> DEFINE gains == [s \in Series |->
                           IF s \in DOMAIN r.counters
                           THEN Increment(Mode, baselines[s], r.counters[s]) ELSE 0]
    <2>2. gains \in [Series -> Nat]
      BY <2>1 DEF Increment
    <2> HIDE DEF gains
    <2>3. additions' = gains /\ additions' \in [Series -> Nat]
      BY <2>2 DEF gains
    <2>4. resets' \subseteq Series /\ Cardinality(resets') \in Nat
      <3>1. IsFiniteSet(DOMAIN r.counters) /\ resets' \subseteq DOMAIN r.counters
        BY ContentAssumption
      <3> QED
        BY <2>1, <3>1, FS_Subset, FS_CardinalityType
    <2>5. truth' \in Truth
      <3>1. truth' = [truth EXCEPT
                        !.records = @ + 1,
                        !.gain = [s \in Series |-> @[s] + gains[s]],
                        !.resets = @ + Cardinality(resets')]
        BY DEF gains
      <3> DEFINE k == Cardinality(resets')
      <3> HIDE DEF k
      <3>2. truth \in Truth /\ k \in Nat
        BY <2>4 DEF k
      <3>3. [truth EXCEPT !.records = @ + 1, !.gain = [s \in Series |-> @[s] + gains[s]],
                          !.resets = @ + k] \in Truth
        BY <2>2, <3>2, TruthOfRecord
      <3> QED
        BY <3>1, <3>3 DEF k
    <2>6. baselines' \in [Series -> Nat \cup {Unobserved}] /\ gauge' \in Nat
      BY <2>1
    <2>7. pc' \in {"baselineStats", "stats"} /\ outcome' \in Outcome
      OBVIOUS
    <2> QED
      BY <2>3, <2>4, <2>5, <2>6, <2>7
  <1>2. CASE ProcessInvalid
    BY <1>2 DEF ProcessInvalid
  <1>3. CASE RecordStats
    BY <1>3 DEF RecordStats
  <1>4. CASE \E s \in Series : Add(s)
    BY <1>4 DEF Add
  <1>5. CASE RecordSelf
    <2>1. Cardinality(resets) \in Nat
      BY FS_CardinalityType
    <2>2. self' \in SelfType
      BY <1>5, <2>1, SelfOfRecord DEF RecordSelf
    <2>3. truth' \in Truth
      BY <1>5 DEF RecordSelf
    <2> QED
      BY <1>5, <2>2, <2>3 DEF RecordSelf
  <1>6. CASE SourceEvent
    BY <1>6 DEF SourceEvent
  <1>7. CASE StartFails
    BY <1>7 DEF StartFails
  <1>8. CASE BuildPipeline
    BY <1>8 DEF BuildPipeline
  <1>9. CASE AttachObservers
    BY <1>9 DEF AttachObservers
  <1>10. CASE SourceEnds
    BY <1>10 DEF SourceEnds
  <1>11. CASE RunReturns
    BY <1>11 DEF RunReturns
  <1>12. CASE ShutdownExpires
    BY <1>12 DEF ShutdownExpires
  <1>13. CASE RequestFlush
    BY <1>13 DEF RequestFlush
  <1>14. CASE FlushAnswered
    BY <1>14 DEF FlushAnswered
  <1>15. CASE FlushExpires
    BY <1>15 DEF FlushExpires
  <1>16. CASE CloseRecorder
    BY <1>16 DEF CloseRecorder
  <1>17. CASE StopReader
    BY <1>17 DEF StopReader
  <1>18. CASE ShutdownExporter
    BY <1>18 DEF ShutdownExporter
  <1>19. CASE Tick
    BY <1>19 DEF Tick
  <1>20. CASE Observe
    BY <1>20 DEF Observe
  <1>21. CASE \E s \in Series : Collect(s)
    BY <1>21 DEF Collect
  <1>22. CASE Lock
    BY <1>22 DEF Lock
  <1>23. CASE \E answered \in BOOLEAN : SendTarget(answered)
    BY <1>23 DEF SendTarget, Delivered, CountError
  <1>24. CASE \E answered \in BOOLEAN : SendSelf(answered)
    <2>1. PICK answered \in BOOLEAN : SendSelf(answered)
      BY <1>24
    <2>2. exportError' \in BOOLEAN /\ locked' \in BOOLEAN
      BY <2>1, Zenon DEF SendSelf, Finish, Answer
    <2>3. self' \in SelfType /\ truth' \in Truth
      BY <2>1 DEF SendSelf, CountError
    <2>4. receivedSelf' \in SelfType
      BY <2>1 DEF SendSelf, Delivered
    <2>5. export' = "idle" /\ owner' = "none" /\ flushed' \in {"none", "ok", "error"}
          /\ selfBatch' \in SelfType
      BY <2>1 DEF SendSelf, Finish, Answer
    <2> QED
      BY <2>1, <2>2, <2>3, <2>4, <2>5 DEF SendSelf
  <1>25. CASE CollectSelf
    BY <1>25 DEF CollectSelf
  <1>26. CASE NoSelfMetrics
    BY <1>26 DEF NoSelfMetrics, Finish, Answer
  <1>27. CASE CollectionFails
    BY <1>27 DEF CollectionFails, Finish, Answer
  <1>28. CASE UNCHANGED vars
    BY <1>28
  <1> QED
    BY <1>1, <1>2, <1>3, <1>4, <1>5, <1>6, <1>7, <1>8, <1>9, <1>10, <1>11, <1>12,
        <1>13, <1>14, <1>15, <1>16, <1>17, <1>18, <1>19, <1>20, <1>21, <1>22, <1>23,
        <1>24, <1>25, <1>26, <1>27, <1>28
    DEF Next, Handle, StartUp, RunEnds, Shutdown, Export

\* Only Observe begins a batch, only Collect adds to it.
LEMMA BatchNext ==
    ASSUME TypeOK, BatchType, [Next]_vars
    PROVE BatchType'
  <1> USE DEF TypeOK, BatchType, SelfType, Truth, NoBatch, NoSelf, Outcome, Zero,
      NoGauge, Sending, vars, stateVars, appVars, exportVars, collectorVars
  <1>1. CASE \E r \in Content : Process(r)
    BY <1>1 DEF Process, Apply, Mode
  <1>2. CASE ProcessInvalid
    BY <1>2 DEF ProcessInvalid
  <1>3. CASE RecordStats
    BY <1>3 DEF RecordStats
  <1>4. CASE \E s \in Series : Add(s)
    BY <1>4 DEF Add
  <1>5. CASE RecordSelf
    BY <1>5 DEF RecordSelf
  <1>6. CASE SourceEvent
    BY <1>6 DEF SourceEvent
  <1>7. CASE StartFails
    BY <1>7 DEF StartFails
  <1>8. CASE BuildPipeline
    BY <1>8 DEF BuildPipeline
  <1>9. CASE AttachObservers
    BY <1>9 DEF AttachObservers
  <1>10. CASE SourceEnds
    BY <1>10 DEF SourceEnds
  <1>11. CASE RunReturns
    BY <1>11 DEF RunReturns
  <1>12. CASE ShutdownExpires
    BY <1>12 DEF ShutdownExpires
  <1>13. CASE RequestFlush
    BY <1>13 DEF RequestFlush
  <1>14. CASE FlushAnswered
    BY <1>14 DEF FlushAnswered
  <1>15. CASE FlushExpires
    BY <1>15 DEF FlushExpires
  <1>16. CASE CloseRecorder
    BY <1>16 DEF CloseRecorder
  <1>17. CASE StopReader
    BY <1>17 DEF StopReader
  <1>18. CASE ShutdownExporter
    BY <1>18 DEF ShutdownExporter
  <1>19. CASE Tick
    BY <1>19 DEF Tick
  <1>20. CASE Observe
    BY <1>20 DEF Observe
  <1>21. CASE \E s \in Series : Collect(s)
    BY <1>21 DEF Collect
  <1>22. CASE Lock
    BY <1>22 DEF Lock
  <1>23. CASE \E answered \in BOOLEAN : SendTarget(answered)
    BY <1>23 DEF SendTarget, Delivered, CountError
  <1>24. CASE \E answered \in BOOLEAN : SendSelf(answered)
    BY <1>24 DEF SendSelf, Delivered, CountError, Finish, Answer
  <1>25. CASE CollectSelf
    BY <1>25 DEF CollectSelf
  <1>26. CASE NoSelfMetrics
    BY <1>26 DEF NoSelfMetrics, Finish, Answer
  <1>27. CASE CollectionFails
    BY <1>27 DEF CollectionFails, Finish, Answer
  <1>28. CASE UNCHANGED vars
    BY <1>28
  <1> QED
    BY <1>1, <1>2, <1>3, <1>4, <1>5, <1>6, <1>7, <1>8, <1>9, <1>10, <1>11, <1>12,
        <1>13, <1>14, <1>15, <1>16, <1>17, <1>18, <1>19, <1>20, <1>21, <1>22, <1>23,
        <1>24, <1>25, <1>26, <1>27, <1>28
    DEF Next, Handle, StartUp, RunEnds, Shutdown, Export

\* Apply decides the additions of a record, and Add moves them one by one.
LEMMA AccountsNext ==
    ASSUME TypeOK, Accounts, [Next]_vars
    PROVE Accounts'
  <1> USE ContentAssumption DEF TypeOK, Accounts, InProcess, Truth, NoBatch, NoSelf,
      Outcome, Zero, NoGauge, Unobserved, Increment, IsReset, vars, stateVars, appVars,
      exportVars, collectorVars
  <1>1. CASE \E r \in Content : Process(r)
    BY <1>1 DEF Process, Apply, Mode
  <1>2. CASE ProcessInvalid
    BY <1>2 DEF ProcessInvalid
  <1>3. CASE RecordStats
    <2> USE DEF RecordStats
    <2>1. CASE pc = "baselineStats"
      <3>1. truth' = [truth EXCEPT !.handled = truth.records] /\ pc' = "baseline"
        BY <1>3, <2>1
      <3>2. /\ truth'.records = truth.records /\ truth'.handled = truth.records
            /\ truth'.gain = truth.gain /\ truth'.floor = truth.floor
        BY <3>1
      <3> QED
        BY <1>3, <2>1, <3>1, <3>2
    <2>2. CASE pc = "stats"
      BY <1>3, <2>2
    <2>3. CASE pc = "failingStats"
      BY <1>3, <2>3
    <2> QED
      BY <1>3, <2>1, <2>2, <2>3
  <1>4. CASE \E s \in Series : Add(s)
    BY <1>4 DEF Add
  <1>5. CASE RecordSelf
    BY <1>5 DEF RecordSelf
  <1>6. CASE SourceEvent
    BY <1>6 DEF SourceEvent
  <1>7. CASE StartFails
    BY <1>7 DEF StartFails
  <1>8. CASE BuildPipeline
    BY <1>8 DEF BuildPipeline
  <1>9. CASE AttachObservers
    BY <1>9 DEF AttachObservers
  <1>10. CASE SourceEnds
    BY <1>10 DEF SourceEnds
  <1>11. CASE RunReturns
    BY <1>11 DEF RunReturns
  <1>12. CASE ShutdownExpires
    BY <1>12 DEF ShutdownExpires
  <1>13. CASE RequestFlush
    BY <1>13 DEF RequestFlush
  <1>14. CASE FlushAnswered
    BY <1>14 DEF FlushAnswered
  <1>15. CASE FlushExpires
    BY <1>15 DEF FlushExpires
  <1>16. CASE CloseRecorder
    BY <1>16 DEF CloseRecorder
  <1>17. CASE StopReader
    BY <1>17 DEF StopReader
  <1>18. CASE ShutdownExporter
    BY <1>18 DEF ShutdownExporter
  <1>19. CASE Tick
    BY <1>19 DEF Tick
  <1>20. CASE Observe
    BY <1>20 DEF Observe
  <1>21. CASE \E s \in Series : Collect(s)
    BY <1>21 DEF Collect
  <1>22. CASE Lock
    BY <1>22 DEF Lock
  <1>23. CASE \E answered \in BOOLEAN : SendTarget(answered)
    BY <1>23 DEF SendTarget, Delivered, CountError
  <1>24. CASE \E answered \in BOOLEAN : SendSelf(answered)
    BY <1>24 DEF SendSelf, Delivered, CountError, Finish, Answer
  <1>25. CASE CollectSelf
    BY <1>25 DEF CollectSelf
  <1>26. CASE NoSelfMetrics
    BY <1>26 DEF NoSelfMetrics, Finish, Answer
  <1>27. CASE CollectionFails
    BY <1>27 DEF CollectionFails, Finish, Answer
  <1>28. CASE UNCHANGED vars
    BY <1>28
  <1> QED
    BY <1>1, <1>2, <1>3, <1>4, <1>5, <1>6, <1>7, <1>8, <1>9, <1>10, <1>11, <1>12,
        <1>13, <1>14, <1>15, <1>16, <1>17, <1>18, <1>19, <1>20, <1>21, <1>22, <1>23,
        <1>24, <1>25, <1>26, <1>27, <1>28
    DEF Next, Handle, StartUp, RunEnds, Shutdown, Export

\* The statistics are ahead of the self metrics by the record in process only.
LEMMA SelfAccountsNext ==
    ASSUME TypeOK, Accounts, SelfAccounts, [Next]_vars
    PROVE SelfAccounts'
  <1> USE ContentAssumption, FS_EmptySet DEF TypeOK, SelfType, SelfAccounts,
      Accounts, InProcess, Truth, NoBatch, NoSelf, Outcome, Unobserved, IsReset, vars,
      stateVars, appVars, exportVars, collectorVars
  <1>1. CASE \E r \in Content : Process(r)
    <2> SUFFICES ASSUME NEW r \in Content, Process(r) PROVE SelfAccounts'
      BY <1>1
    <2> USE DEF Process, Apply
    <2>1. resets = {} /\ Cardinality(resets) = 0
      BY FS_EmptySet
    <2>2. IsFiniteSet(resets') /\ Cardinality(resets') \in Nat
      <3>1. IsFiniteSet(DOMAIN r.counters) /\ resets' \subseteq DOMAIN r.counters
        BY ContentAssumption
      <3> QED
        BY <3>1, FS_Subset, FS_CardinalityType
    <2>3. /\ truth'.events = truth.events /\ truth'.errors = truth.errors
          /\ truth'.resets = truth.resets + Cardinality(resets')
      OBVIOUS
    <2>4. self' = self /\ stats' = stats /\ pc' \in {"baselineStats", "stats"}
          /\ pc \in {"baseline", "live"} /\ (pc = "baseline" <=> pc' = "baselineStats")
      OBVIOUS
    <2> QED
      BY <2>1, <2>2, <2>3, <2>4
  <1>2. CASE ProcessInvalid
    BY <1>2 DEF ProcessInvalid
  <1>3. CASE RecordStats
    BY <1>3 DEF RecordStats
  <1>4. CASE \E s \in Series : Add(s)
    BY <1>4 DEF Add
  <1>5. CASE RecordSelf
    BY <1>5 DEF RecordSelf
  <1>6. CASE SourceEvent
    BY <1>6 DEF SourceEvent
  <1>7. CASE StartFails
    BY <1>7 DEF StartFails
  <1>8. CASE BuildPipeline
    BY <1>8 DEF BuildPipeline
  <1>9. CASE AttachObservers
    BY <1>9 DEF AttachObservers
  <1>10. CASE SourceEnds
    BY <1>10 DEF SourceEnds
  <1>11. CASE RunReturns
    BY <1>11 DEF RunReturns
  <1>12. CASE ShutdownExpires
    BY <1>12 DEF ShutdownExpires
  <1>13. CASE RequestFlush
    BY <1>13 DEF RequestFlush
  <1>14. CASE FlushAnswered
    BY <1>14 DEF FlushAnswered
  <1>15. CASE FlushExpires
    BY <1>15 DEF FlushExpires
  <1>16. CASE CloseRecorder
    BY <1>16 DEF CloseRecorder
  <1>17. CASE StopReader
    BY <1>17 DEF StopReader
  <1>18. CASE ShutdownExporter
    BY <1>18 DEF ShutdownExporter
  <1>19. CASE Tick
    BY <1>19 DEF Tick
  <1>20. CASE Observe
    BY <1>20 DEF Observe
  <1>21. CASE \E s \in Series : Collect(s)
    BY <1>21 DEF Collect
  <1>22. CASE Lock
    BY <1>22 DEF Lock
  <1>23. CASE \E answered \in BOOLEAN : SendTarget(answered)
    BY <1>23 DEF SendTarget, Delivered, CountError
  <1>24. CASE \E answered \in BOOLEAN : SendSelf(answered)
    BY <1>24 DEF SendSelf, Delivered, CountError, Finish, Answer
  <1>25. CASE CollectSelf
    BY <1>25 DEF CollectSelf
  <1>26. CASE NoSelfMetrics
    BY <1>26 DEF NoSelfMetrics, Finish, Answer
  <1>27. CASE CollectionFails
    BY <1>27 DEF CollectionFails, Finish, Answer
  <1>28. CASE UNCHANGED vars
    BY <1>28
  <1> QED
    BY <1>1, <1>2, <1>3, <1>4, <1>5, <1>6, <1>7, <1>8, <1>9, <1>10, <1>11, <1>12,
        <1>13, <1>14, <1>15, <1>16, <1>17, <1>18, <1>19, <1>20, <1>21, <1>22, <1>23,
        <1>24, <1>25, <1>26, <1>27, <1>28
    DEF Next, Handle, StartUp, RunEnds, Shutdown, Export

\* The instruments only grow, so what was read from them stays below them.
LEMMA ExportsNext ==
    ASSUME TypeOK, BatchType, Accounts, SelfAccounts, Exports, [Next]_vars
    PROVE Exports'
  <1> USE DEF TypeOK, BatchType, SelfType, Accounts, SelfAccounts, Exports, AtMost,
      InProcess, Truth, NoBatch, NoSelf, Outcome, Zero, NoGauge, Sending, vars,
      stateVars, appVars, exportVars, collectorVars
  <1>1. CASE \E r \in Content : Process(r)
    BY <1>1 DEF Process, Apply, Mode
  <1>2. CASE ProcessInvalid
    BY <1>2 DEF ProcessInvalid
  <1>3. CASE RecordStats
    BY <1>3 DEF RecordStats
  <1>4. CASE \E s \in Series : Add(s)
    BY <1>4 DEF Add
  <1>5. CASE RecordSelf
    <2> USE DEF RecordSelf
    <2>1. Cardinality(resets) \in Nat
      BY FS_CardinalityType
    <2>2. AtMost(self, self')
      BY <1>5, <2>1
    <2>3. UNCHANGED <<batch, counters, received, receivedSelf, selfBatch, export>>
      BY <1>5
    <2>4. self' \in SelfType
      BY <1>5, <2>1, SelfOfRecord
    <2> QED
      BY <2>2, <2>3, <2>4
  <1>6. CASE SourceEvent
    BY <1>6 DEF SourceEvent
  <1>7. CASE StartFails
    BY <1>7 DEF StartFails
  <1>8. CASE BuildPipeline
    BY <1>8 DEF BuildPipeline
  <1>9. CASE AttachObservers
    BY <1>9 DEF AttachObservers
  <1>10. CASE SourceEnds
    BY <1>10 DEF SourceEnds
  <1>11. CASE RunReturns
    BY <1>11 DEF RunReturns
  <1>12. CASE ShutdownExpires
    BY <1>12 DEF ShutdownExpires
  <1>13. CASE RequestFlush
    BY <1>13 DEF RequestFlush
  <1>14. CASE FlushAnswered
    BY <1>14 DEF FlushAnswered
  <1>15. CASE FlushExpires
    BY <1>15 DEF FlushExpires
  <1>16. CASE CloseRecorder
    BY <1>16 DEF CloseRecorder
  <1>17. CASE StopReader
    BY <1>17 DEF StopReader
  <1>18. CASE ShutdownExporter
    BY <1>18 DEF ShutdownExporter
  <1>19. CASE Tick
    BY <1>19 DEF Tick
  <1>20. CASE Observe
    <2> USE DEF Observe
    <2>1. /\ UNCHANGED <<counters, received, receivedSelf, selfBatch, self>>
          /\ export' = "collect"
      BY <1>20
    <2>2. /\ batch'.floor = truth.floor /\ batch'.handled = truth.handled
          /\ DOMAIN batch'.counters = {} /\ batch'.gauge \in {gauge, 0}
      BY <1>20
    <2>3. gauge <= truth.handled + 1
      BY GaugeIsRecent
    <2> QED
      BY <2>1, <2>2, <2>3
  <1>21. CASE \E s \in Series : Collect(s)
    BY <1>21 DEF Collect
  <1>22. CASE Lock
    BY <1>22 DEF Lock
  <1>23. CASE \E answered \in BOOLEAN : SendTarget(answered)
    BY <1>23 DEF SendTarget, Delivered, CountError
  <1>24. CASE \E answered \in BOOLEAN : SendSelf(answered)
    BY <1>24 DEF SendSelf, Delivered, CountError, Finish, Answer
  <1>25. CASE CollectSelf
    BY <1>25 DEF CollectSelf
  <1>26. CASE NoSelfMetrics
    BY <1>26 DEF NoSelfMetrics, Finish, Answer
  <1>27. CASE CollectionFails
    BY <1>27 DEF CollectionFails, Finish, Answer
  <1>28. CASE UNCHANGED vars
    BY <1>28
  <1> QED
    BY <1>1, <1>2, <1>3, <1>4, <1>5, <1>6, <1>7, <1>8, <1>9, <1>10, <1>11, <1>12,
        <1>13, <1>14, <1>15, <1>16, <1>17, <1>18, <1>19, <1>20, <1>21, <1>22, <1>23,
        <1>24, <1>25, <1>26, <1>27, <1>28
    DEF Next, Handle, StartUp, RunEnds, Shutdown, Export

\* Gauges are cleared before a flush is asked for, and a flush reads them
\* after that; its export is the last before its answer.
LEMMA GaugesNext ==
    ASSUME TypeOK, BatchType, Gauges, [Next]_vars
    PROVE Gauges'
  <1> USE DEF TypeOK, BatchType, Gauges, NoBatch, NoGauge, Sending, Down, vars,
      stateVars, appVars, exportVars, collectorVars
  <1>1. CASE \E r \in Content : Process(r)
    BY <1>1 DEF Process, Apply, Mode
  <1>2. CASE ProcessInvalid
    BY <1>2 DEF ProcessInvalid
  <1>3. CASE RecordStats
    BY <1>3 DEF RecordStats
  <1>4. CASE \E s \in Series : Add(s)
    BY <1>4 DEF Add
  <1>5. CASE RecordSelf
    BY <1>5 DEF RecordSelf
  <1>6. CASE SourceEvent
    BY <1>6 DEF SourceEvent
  <1>7. CASE StartFails
    BY <1>7 DEF StartFails
  <1>8. CASE BuildPipeline
    BY <1>8 DEF BuildPipeline
  <1>9. CASE AttachObservers
    BY <1>9 DEF AttachObservers
  <1>10. CASE SourceEnds
    BY <1>10 DEF SourceEnds
  <1>11. CASE RunReturns
    BY <1>11 DEF RunReturns
  <1>12. CASE ShutdownExpires
    BY <1>12 DEF ShutdownExpires
  <1>13. CASE RequestFlush
    BY <1>13 DEF RequestFlush
  <1>14. CASE FlushAnswered
    BY <1>14 DEF FlushAnswered
  <1>15. CASE FlushExpires
    BY <1>15 DEF FlushExpires
  <1>16. CASE CloseRecorder
    BY <1>16 DEF CloseRecorder
  <1>17. CASE StopReader
    BY <1>17 DEF StopReader
  <1>18. CASE ShutdownExporter
    BY <1>18 DEF ShutdownExporter
  <1>19. CASE Tick
    BY <1>19 DEF Tick
  <1>20. CASE Observe
    BY <1>20 DEF Observe
  <1>21. CASE \E s \in Series : Collect(s)
    BY <1>21 DEF Collect
  <1>22. CASE Lock
    BY <1>22 DEF Lock
  <1>23. CASE \E answered \in BOOLEAN : SendTarget(answered)
    <2>1. PICK answered \in BOOLEAN : SendTarget(answered)
      BY <1>23
    <2>2. /\ export = "send" /\ export' = "self"
          /\ UNCHANGED <<pc, gauge, ended, flushed, owner, batch>>
      BY <2>1 DEF SendTarget
    <2>3. CASE answered = TRUE
      <3>1. received'.gauge = batch.gauge
        BY <2>1, <2>3 DEF SendTarget, Delivered
      <3> QED
        BY <2>2, <3>1
    <2>4. CASE answered = FALSE
      <3>1. exportError' = TRUE
        BY <2>1, <2>4, Zenon DEF SendTarget
      <3>2. received'.gauge \in {received.gauge, batch.gauge}
        BY <2>1, <2>4 DEF SendTarget, Delivered
      <3> QED
        BY <2>2, <3>1, <3>2
    <2> QED
      BY <2>3, <2>4
  <1>24. CASE \E answered \in BOOLEAN : SendSelf(answered)
    <2>1. PICK answered \in BOOLEAN : SendSelf(answered)
      BY <1>24
    <2>2. /\ export = "sendSelf" /\ export' = "idle" /\ owner' = "none" /\ batch' = NoBatch
          /\ UNCHANGED <<pc, gauge, ended, received>>
      BY <2>1 DEF SendSelf, Finish, Answer
    <2>3. /\ owner # "flush" => flushed' = flushed
          /\ owner = "flush" /\ exportError => flushed' = "error"
          /\ owner = "flush" => flushed' \in {"ok", "error"}
      BY <2>1, Zenon DEF SendSelf, Finish, Answer
    <2> QED
      BY <2>2, <2>3
  <1>25. CASE CollectSelf
    BY <1>25 DEF CollectSelf
  <1>26. CASE NoSelfMetrics
    BY <1>26 DEF NoSelfMetrics, Finish, Answer
  <1>27. CASE CollectionFails
    BY <1>27 DEF CollectionFails, Finish, Answer
  <1>28. CASE UNCHANGED vars
    BY <1>28
  <1> QED
    BY <1>1, <1>2, <1>3, <1>4, <1>5, <1>6, <1>7, <1>8, <1>9, <1>10, <1>11, <1>12,
        <1>13, <1>14, <1>15, <1>16, <1>17, <1>18, <1>19, <1>20, <1>21, <1>22, <1>23,
        <1>24, <1>25, <1>26, <1>27, <1>28
    DEF Next, Handle, StartUp, RunEnds, Shutdown, Export

\* Nothing is in process any more when the reader stops, so the last export
\* reads the final sums, and reports an error unless it delivers them.
LEMMA LastExportNext ==
    ASSUME TypeOK, BatchType, Exports, LastExport, [Next]_vars
    PROVE LastExport'
  <1> USE DEF TypeOK, BatchType, SelfType, Exports, AtMost, LastExport, Complete,
      NoBatch, NoSelf, Outcome, NoGauge, Sending, vars, stateVars, appVars, exportVars,
      collectorVars
  <1>1. CASE \E r \in Content : Process(r)
    BY <1>1 DEF Process, Apply, Mode
  <1>2. CASE ProcessInvalid
    BY <1>2 DEF ProcessInvalid
  <1>3. CASE RecordStats
    BY <1>3 DEF RecordStats
  <1>4. CASE \E s \in Series : Add(s)
    BY <1>4 DEF Add
  <1>5. CASE RecordSelf
    BY <1>5 DEF RecordSelf
  <1>6. CASE SourceEvent
    BY <1>6 DEF SourceEvent
  <1>7. CASE StartFails
    BY <1>7 DEF StartFails
  <1>8. CASE BuildPipeline
    BY <1>8 DEF BuildPipeline
  <1>9. CASE AttachObservers
    BY <1>9 DEF AttachObservers
  <1>10. CASE SourceEnds
    BY <1>10 DEF SourceEnds
  <1>11. CASE RunReturns
    BY <1>11 DEF RunReturns
  <1>12. CASE ShutdownExpires
    BY <1>12 DEF ShutdownExpires
  <1>13. CASE RequestFlush
    BY <1>13 DEF RequestFlush
  <1>14. CASE FlushAnswered
    BY <1>14 DEF FlushAnswered
  <1>15. CASE FlushExpires
    BY <1>15 DEF FlushExpires
  <1>16. CASE CloseRecorder
    BY <1>16 DEF CloseRecorder
  <1>17. CASE StopReader
    BY <1>17 DEF StopReader
  <1>18. CASE ShutdownExporter
    BY <1>18 DEF ShutdownExporter
  <1>19. CASE Tick
    BY <1>19 DEF Tick
  <1>20. CASE Observe
    BY <1>20 DEF Observe
  <1>21. CASE \E s \in Series : Collect(s)
    BY <1>21 DEF Collect
  <1>22. CASE Lock
    BY <1>22 DEF Lock
  <1>23. CASE \E answered \in BOOLEAN : SendTarget(answered)
    <2>1. PICK answered \in BOOLEAN : SendTarget(answered)
      BY <1>23
    <2>2. /\ export = "send" /\ export' = "self"
          /\ UNCHANGED <<pc, callbacks, failed, owner, batch, counters>>
      BY <2>1 DEF SendTarget
    <2>3. ASSUME pc = "stopping", ~exportError' PROVE Complete'
      <3>1. answered
        BY <2>1, <2>3, Zenon DEF SendTarget
      <3>2. received' = [gauge |-> batch.gauge, counters |-> batch.counters]
        BY <2>1, <3>1, Zenon DEF SendTarget, Delivered
      <3>3. /\ batch.gauge = NoGauge /\ DOMAIN batch.counters = Series
            /\ \A s \in Series : batch.counters[s] = counters[s]
        BY <2>2, <2>3
      <3> QED
        BY <2>2, <3>2, <3>3
    <2> QED
      BY <2>2, <2>3
  <1>24. CASE \E answered \in BOOLEAN : SendSelf(answered)
    <2>1. PICK answered \in BOOLEAN : SendSelf(answered)
      BY <1>24
    <2>2. /\ export = "sendSelf" /\ export' = "idle"
          /\ UNCHANGED <<pc, callbacks, failed, counters, received>>
      BY <2>1 DEF SendSelf, Finish, Answer
    <2>3. ASSUME pc = "stopping", ~exportError' PROVE Complete' /\ receivedSelf' = self'
      <3>1. owner = "stop" /\ selfBatch = self
        BY <2>2, <2>3
      <3>2. ~exportError /\ answered
        BY <2>1, <2>3, <3>1, Zenon DEF SendSelf, Finish, Answer
      <3>3. receivedSelf' = selfBatch /\ self' = self
        BY <2>1, <3>2, Zenon DEF SendSelf, Delivered
      <3>4. Complete
        BY <2>2, <2>3, <3>2
      <3> QED
        BY <2>2, <3>1, <3>3, <3>4
    <2> QED
      BY <2>2, <2>3
  <1>25. CASE CollectSelf
    BY <1>25 DEF CollectSelf
  <1>26. CASE NoSelfMetrics
    BY <1>26 DEF NoSelfMetrics, Finish, Answer
  <1>27. CASE CollectionFails
    BY <1>27 DEF CollectionFails, Finish, Answer
  <1>28. CASE UNCHANGED vars
    BY <1>28
  <1> QED
    BY <1>1, <1>2, <1>3, <1>4, <1>5, <1>6, <1>7, <1>8, <1>9, <1>10, <1>11, <1>12,
        <1>13, <1>14, <1>15, <1>16, <1>17, <1>18, <1>19, <1>20, <1>21, <1>22, <1>23,
        <1>24, <1>25, <1>26, <1>27, <1>28
    DEF Next, Handle, StartUp, RunEnds, Shutdown, Export

-----------------------------------------------------------------------------
\* Nothing has happened yet: every sum is zero.
LEMMA PipelineInvInit == Init => PipelineInv
  <1> SUFFICES ASSUME Init PROVE PipelineInv
    OBVIOUS
  <1> USE DEF Init, NoBatch, NoSelf, Zero, NoGauge, Unobserved, Outcome
  <1>1. TypeOK
    BY DEF TypeOK, SelfType, Truth
  <1>2. BatchType
    BY DEF BatchType, Sending
  <1>3. Accounts
    BY DEF Accounts, InProcess
  <1>4. SelfAccounts
    BY FS_EmptySet DEF SelfAccounts
  <1>5. Exports
    BY DEF Exports, AtMost, Sending
  <1>6. Gauges
    BY DEF Gauges, Down
  <1>7. LastExport
    BY DEF LastExport
  <1> QED
    BY <1>1, <1>2, <1>3, <1>4, <1>5, <1>6, <1>7 DEF PipelineInv

\* The parts together are inductive.
LEMMA PipelineInvNext == PipelineInv /\ [Next]_vars => PipelineInv'
  <1> SUFFICES ASSUME PipelineInv, [Next]_vars PROVE PipelineInv'
    OBVIOUS
  <1> USE DEF PipelineInv
  <1>1. TypeOK'
    BY TypeNext DEF SelfAccounts
  <1>2. BatchType'
    BY BatchNext
  <1>3. Accounts'
    BY AccountsNext
  <1>4. SelfAccounts'
    BY SelfAccountsNext
  <1>5. Exports'
    BY ExportsNext
  <1>6. Gauges'
    BY GaugesNext
  <1>7. LastExport'
    BY LastExportNext
  <1> QED
    BY <1>1, <1>2, <1>3, <1>4, <1>5, <1>6, <1>7

\* The inductive invariant holds in every behavior.
LEMMA PipelineInvHolds == Spec => []PipelineInv
  BY PipelineInvInit, PipelineInvNext, PTL DEF Spec

(***************************************************************************)
(* No exported sum is negative and every variable has its type, whatever   *)
(* values the records hold (State.Apply, OTelRecorder.Record).             *)
(***************************************************************************)
THEOREM SumsStayNatural == Spec => []TypeOK
  BY PipelineInvHolds, PTL DEF PipelineInv

(***************************************************************************)
(* The counters of an export include every record completely handled when  *)
(* its gauges were read, and the gauges are at most one record ahead       *)
(* (Processor.Process, OTelRecorder.observeGauges).                        *)
(***************************************************************************)
THEOREM ExportsBelongTogether == Spec => []CollectedTogether
  <1>1. PipelineInv => CollectedTogether
    <2> SUFFICES ASSUME PipelineInv, export = "send"
                 PROVE /\ batch.gauge <= batch.handled + 1
                       /\ \A s \in Series : batch.counters[s] >= batch.floor[s]
      BY DEF CollectedTogether
    <2>1. DOMAIN batch.counters = Series /\ batch.counters \in [Series -> Nat]
          /\ batch.floor \in [Series -> Nat]
      BY DEF PipelineInv, BatchType, Sending
    <2> QED
      BY <2>1 DEF PipelineInv, Exports, Sending
  <1> QED
    BY <1>1, PipelineInvHolds, PTL

(***************************************************************************)
(* No export begun after the source ended carries its gauges, and after a  *)
(* successful flush the collector holds none (State.ClearGauges,           *)
(* Pipeline.Shutdown).                                                     *)
(***************************************************************************)
THEOREM NoGaugeLeft == Spec => []NoGaugeAfterSourceEnd
  <1>1. PipelineInv => NoGaugeAfterSourceEnd
    BY DEF PipelineInv, Gauges, NoGaugeAfterSourceEnd
  <1> QED
    BY <1>1, PipelineInvHolds, PTL

(***************************************************************************)
(* A shutdown that reports no error has delivered every live increase and  *)
(* every self metric, and no gauge is left (Pipeline.Shutdown,             *)
(* resourceExporter.Export).                                               *)
(***************************************************************************)
THEOREM CleanShutdownDelivers == Spec => []CleanShutdownDeliversAll
  <1>1. PipelineInv => CleanShutdownDeliversAll
    <2> SUFFICES ASSUME PipelineInv, pc = "end", ~failed
                 PROVE /\ received = [gauge |-> NoGauge, counters |-> truth.gain]
                       /\ receivedSelf.records = stats
                       /\ receivedSelf.resets = truth.resets
                       /\ receivedSelf.events = truth.events
                       /\ receivedSelf.errors = truth.errors
      BY DEF CleanShutdownDeliversAll
    <2>1. TypeOK /\ Complete /\ receivedSelf = self
      BY DEF PipelineInv, LastExport
    <2>2. additions = Zero /\ resets = {} /\ Cardinality(resets) = 0
      BY FS_EmptySet DEF PipelineInv, Accounts
    <2>3. \A s \in Series : received.counters[s] = truth.gain[s]
      <3>1. counters \in [Series -> Nat] /\ truth.gain \in [Series -> Nat]
        BY <2>1 DEF TypeOK, Truth
      <3>2. \A s \in Series : counters[s] + 0 = truth.gain[s]
        BY <2>2 DEF PipelineInv, Accounts, Zero
      <3> QED
        BY <2>1, <3>1, <3>2 DEF Complete
    <2>4. received = [gauge |-> NoGauge, counters |-> truth.gain]
      <3>1. /\ received \in [gauge : Nat, counters : [Series -> Nat]]
            /\ truth.gain \in [Series -> Nat]
        BY <2>1 DEF TypeOK, Truth
      <3>2. received.counters = truth.gain
        BY <2>3, <3>1
      <3> QED
        BY <2>1, <3>1, <3>2 DEF Complete
    <2>5. self.records \in [Outcome -> Nat] /\ stats \in [Outcome -> Nat]
          /\ self.resets \in Nat
      BY <2>1 DEF TypeOK, SelfType
    <2>6. \A o \in Outcome : stats[o] = self.records[o] + 0
      BY DEF PipelineInv, SelfAccounts
    <2>7. self.records = stats
      BY <2>5, <2>6
    <2> QED
      BY <2>1, <2>2, <2>4, <2>5, <2>7 DEF PipelineInv, SelfAccounts
  <1> QED
    BY <1>1, PipelineInvHolds, PTL

\* What the collector holds changes with a request only.
LEMMA OnlyRequestsReachTheCollector ==
    ASSUME [Next]_vars
    PROVE \/ UNCHANGED <<received, receivedSelf>>
          \/ \E answered \in BOOLEAN : SendTarget(answered) \/ SendSelf(answered)
  <1> USE DEF vars, collectorVars
  <1>1. CASE Handle
    BY <1>1 DEF Handle, Process, ProcessInvalid, RecordStats, Add, RecordSelf, SourceEvent
  <1>2. CASE StartUp
    BY <1>2 DEF StartUp, StartFails, BuildPipeline, AttachObservers
  <1>3. CASE RunEnds \/ ShutdownExpires
    BY <1>3 DEF RunEnds, SourceEnds, RunReturns, ShutdownExpires
  <1>4. CASE Shutdown
    BY <1>4 DEF Shutdown, RequestFlush, FlushAnswered, FlushExpires, CloseRecorder,
                StopReader, ShutdownExporter
  <1>5. CASE Tick
    BY <1>5 DEF Tick
  <1>6. CASE Export
    BY <1>6 DEF Export, Observe, Collect, Lock, CollectSelf, NoSelfMetrics,
        CollectionFails
  <1>7. CASE UNCHANGED vars
    BY <1>7
  <1> QED
    BY <1>1, <1>2, <1>3, <1>4, <1>5, <1>6, <1>7 DEF Next

(***************************************************************************)
(* The sums the collector holds never decrease, whichever requests fail or *)
(* arrive unanswered (resourceExporter.Export, cumulative temporality).    *)
(***************************************************************************)
THEOREM CollectorKeepsWhatItHas == Spec => CollectorNeverGoesBack
  <1> DEFINE Kept == /\ \A s \in Series : received'.counters[s] >= received.counters[s]
                     /\ \A o \in Outcome :
                           receivedSelf'.records[o] >= receivedSelf.records[o]
                     /\ receivedSelf'.errors >= receivedSelf.errors
  <1>1. PipelineInv /\ [Next]_vars => Kept
    <2> SUFFICES ASSUME PipelineInv, [Next]_vars PROVE Kept
      OBVIOUS
    <2>1. /\ received.counters \in [Series -> Nat]
          /\ receivedSelf.records \in [Outcome -> Nat] /\ receivedSelf.errors \in Nat
      BY DEF PipelineInv, TypeOK, SelfType
    <2>2. CASE UNCHANGED <<received, receivedSelf>>
      BY <2>1, <2>2
    <2>3. ASSUME NEW answered \in BOOLEAN, SendTarget(answered) PROVE Kept
      <3>1. /\ receivedSelf' = receivedSelf
            /\ received'.counters = received.counters \/ received'.counters = batch.counters
        BY <2>3 DEF SendTarget, Delivered
      <3>2. /\ batch.counters \in [Series -> Nat]
            /\ \A s \in Series : received.counters[s] <= batch.counters[s]
        BY <2>3 DEF SendTarget, PipelineInv, BatchType, Exports, Sending
      <3> QED
        BY <2>1, <3>1, <3>2
    <2>4. ASSUME NEW answered \in BOOLEAN, SendSelf(answered) PROVE Kept
      <3>1. /\ received' = received
            /\ receivedSelf' = receivedSelf \/ receivedSelf' = selfBatch
        BY <2>4 DEF SendSelf, Delivered
      <3>2. /\ selfBatch.records \in [Outcome -> Nat] /\ selfBatch.errors \in Nat
            /\ \A o \in Outcome : receivedSelf.records[o] <= selfBatch.records[o]
            /\ receivedSelf.errors <= selfBatch.errors
        BY <2>4 DEF SendSelf, PipelineInv, TypeOK, SelfType, Exports, AtMost
      <3> QED
        BY <2>1, <3>1, <3>2
    <2> QED
      BY <2>2, <2>3, <2>4, OnlyRequestsReachTheCollector
  <1> HIDE DEF Kept
  <1>2. PipelineInv /\ [Next]_vars => [Kept]_vars
    BY <1>1
  <1>3. Spec => [][Kept]_vars
    BY <1>2, PipelineInvHolds, PTL DEF Spec
  <1> QED
    BY <1>3 DEF CollectorNeverGoesBack, Kept
=============================================================================
