------------------------------ MODULE RecordExport ------------------------------
(***************************************************************************)
(* What the values of a report record become: the normalizer, the counter  *)
(* baselines and gauges of the metric state, and what the OpenTelemetry    *)
(* recorder adds and observes (internal/source/normalizer.go,              *)
(* internal/metrics/state.go, otel.go).                                    *)
(*                                                                         *)
(* A JSON value is a record with its type.  The text of a string is the    *)
(* number it starts with, -1 for none that is finite and not negative, and *)
(* the rest of it.  Numbers are counted in halves, so that some are not    *)
(* integers.                                                               *)
(***************************************************************************)
EXTENDS MetricSeries, Integers, SequencesExt

CONSTANTS SourceRecords,  \* the records the source may write, as JSON objects
          MaxExact,       \* maxExactSourceInteger, 2^53
          Int64Limit,     \* 2^63
          CardinalityLimit, \* MetricCardinalityLimit, of attribute sets per instrument
          MaxScalable,    \* largest number, in halves, that a multiplier keeps finite
          MaxRecords      \* bound: records delivered

ASSUME MaxExactAssumption == MaxExact \in Nat /\ Int64Limit \in Nat /\ MaxExact < Int64Limit
ASSUME MaxRecordsAssumption == MaxRecords \in Nat
ASSUME MaxScalableAssumption == MaxScalable \in Nat
\* the limit leaves room for all attribute sets of the tables
ASSUME CardinalityAssumption ==
    CardinalityLimit \in Nat /\ Cardinality(CounterSeries) < CardinalityLimit

\* JSON values, down to those of the fields of statistics
IsValue(raw, IsPart(_)) ==
    /\ raw.type = "number" => raw.halves \in Int
    /\ raw.type = "string" => raw.amount \in Int
    /\ raw.type = "array" =>
            /\ raw.elements \in Seq({raw.elements[i] : i \in DOMAIN raw.elements})
            /\ \A i \in DOMAIN raw.elements : IsPart(raw.elements[i])
    /\ raw.type = "object" =>
            /\ IsFiniteSet(DOMAIN raw.fields)
            /\ \A name \in DOMAIN raw.fields : IsPart(raw.fields[name])

IsFieldValue(raw) == IsValue(raw, LAMBDA part : TRUE)
IsMessageField(raw) == IsValue(raw, IsFieldValue)
IsMessage(raw) == IsValue(raw, IsMessageField)

IsRecord(record) ==
    /\ IsFiniteSet(DOMAIN record)
    /\ \A name \in DOMAIN record : IsValue(record[name], IsMessage)

ASSUME SourceRecordsAssumption == \A record \in SourceRecords : IsRecord(record)

VARIABLES
    mode,                 \* RecordModeBaseline, RecordModeLive, or the source ended
    records,              \* records delivered so far
    counterBaselines,     \* State.counterBaselines
    gauges,               \* State.gauges
    cumulative,           \* the SDK's cumulative int64 sums, by name and attributes
    droppedInvalidSeries, \* OTelRecorder.droppedInvalidSeries
    seen,                 \* history: last readable value of each source field
    risen,                \* history: what each counter field rose by since cutover
    vanished              \* history: a record had more values than were counted

exportVars == <<mode, records, counterBaselines, gauges, cumulative,
                droppedInvalidSeries, seen, risen, vanished>>

Empty == [x \in {} |-> 0]

-----------------------------------------------------------------------------
(***************************************************************************)
(* Normalizing.  Each part of a record adds counters, gauges, and counts   *)
(* of values ignored and invalid.                                          *)
(***************************************************************************)
Nothing == [counters |-> <<>>, gauges |-> <<>>, ignored |-> 0, invalid |-> 0]
Ignored(count) == [Nothing EXCEPT !.ignored = count]
Invalid == [Nothing EXCEPT !.invalid = 1]
Both(a, b) == [counters |-> a.counters \o b.counters, gauges |-> a.gauges \o b.gauges,
               ignored |-> a.ignored + b.ignored, invalid |-> a.invalid + b.invalid]
All(parts) == FoldLeft(Both, Nothing, parts)

\* decodeSourceValue into a target of that type; null decodes into none
Decodes(raw, type) == raw.type = type

\* a field that is not there adds nothing
Field(fields, name, Normalize(_)) ==
    IF name \in DOMAIN fields THEN Normalize(fields[name]) ELSE Nothing

UnknownFields(fields, known) == Ignored(Cardinality(DOMAIN fields \ known))

Uint64(n) == n % (2 * Int64Limit)
Int64(n) == IF Uint64(n) < Int64Limit THEN Uint64(n) ELSE Uint64(n) - 2 * Int64Limit

\* Mutant: integers are not bounded
IsAnyInteger(raw) ==
    Decodes(raw, "number") /\ raw.halves % 2 = 0 /\ raw.halves >= 0

IsSourceInteger(raw) ==
    Decodes(raw, "number") /\ raw.halves % 2 = 0 /\ raw.halves >= 0
    /\ raw.halves <= 2 * MaxExact

parseSourceInteger(raw) == Uint64(raw.halves \div 2)

Gauge(series, halves, power) ==
    [Nothing EXCEPT !.gauges = <<[series |-> series, value |-> <<halves, power>>]>>]

addCounter(values, name, series) ==
    Field(values, name, LAMBDA raw :
        IF IsSourceInteger(raw)
        THEN [Nothing EXCEPT
                !.counters = <<[series |-> series, value |-> parseSourceInteger(raw)]>>]
        ELSE Invalid)

addIntegerGauge(values, name, series) ==
    Field(values, name, LAMBDA raw :
        IF IsSourceInteger(raw) THEN Gauge(series, 2 * parseSourceInteger(raw), 0)
        ELSE Invalid)

\* the unit's power of 1024; Percent stands for the multiplier 0.01
Percent == -1
CacheUsageUnit == [MB |-> 2]
PercentageUnit == [u \in {"%"} |-> Percent]
MemoryUnit == [k |-> 1, K |-> 1, m |-> 2, M |-> 2, g |-> 3, G |-> 3,
               t |-> 4, T |-> 4, p |-> 5, P |-> 5, e |-> 6, E |-> 6]

parseScaledNonNegative(raw, power) ==
    raw.amount >= 0 /\ (power = Percent \/ raw.amount <= MaxScalable)

Formatted(raw, units, series) ==
    IF /\ Decodes(raw, "string")
       /\ raw.unit \in DOMAIN units
       /\ parseScaledNonNegative(raw, units[raw.unit])
    THEN Gauge(series, raw.amount, units[raw.unit])
    ELSE Invalid

addFormattedGauge(values, name, series, units) ==
    Field(values, name, LAMBDA raw : Formatted(raw, units, series))

normalizeAzStorage(values) ==
    All(<<UnknownFields(values, DOMAIN AzStorageCounters \cup {"OpenFileHandles"}),
          addCounter(values, "Bytes Downloaded", AzStorageCounters["Bytes Downloaded"]),
          addCounter(values, "Bytes Uploaded", AzStorageCounters["Bytes Uploaded"]),
          addIntegerGauge(values, "OpenFileHandles", OpenFiles("azstorage"))>>)

\* Mutant: the last operation is known and not read
NormalizeAllButLast(values) ==
    All(<<UnknownFields(values, Operation \cup {"OpenFileHandles"}),
          addIntegerGauge(values, "OpenFileHandles", OpenFiles("libfuse"))>> \o
        [i \in DOMAIN Front(operationFields) |->
            addCounter(values, operationFields[i], LibfuseCounters[operationFields[i]])])

normalizeLibfuse(values) ==
    All(<<UnknownFields(values, Operation \cup {"OpenFileHandles"}),
          addIntegerGauge(values, "OpenFileHandles", OpenFiles("libfuse"))>> \o
        [i \in DOMAIN operationFields |->
            addCounter(values, operationFields[i], LibfuseCounters[operationFields[i]])])

normalizeFileCache(values) ==
    All(<<UnknownFields(values, DOMAIN FileCacheCounters \cup DOMAIN FileCacheGauges),
          addCounter(values, "Files Downloaded", FileCacheCounters["Files Downloaded"]),
          addCounter(values, "Files served from cache",
                     FileCacheCounters["Files served from cache"]),
          addFormattedGauge(values, "Cache Usage", FileCacheGauges["Cache Usage"],
                            CacheUsageUnit),
          addFormattedGauge(values, "Usage Percent", FileCacheGauges["Usage Percent"],
                            PercentageUnit)>>)

\* a timestamp is only checked: nothing uses the time of a record
normalizeTimestamp(raw) ==
    IF Decodes(raw, "string") /\ raw.unit = "RFC3339" THEN Nothing ELSE Invalid

MessageFields == {"timestamp", "componentName", "operation", "path", "value"}

validateEventFields(fields) ==
    LET Check(name, type) ==
            Field(fields, name, LAMBDA raw : IF Decodes(raw, type) THEN Nothing ELSE Invalid)
    IN  All(<<Check("timestamp", "string"), Check("componentName", "string"),
              Check("operation", "string"), Check("path", "string"),
              Check("value", "object")>>)

normalizeStatistics(fields) ==
    IF "componentName" \notin DOMAIN fields THEN Ignored(1)
    ELSE IF ~Decodes(fields["componentName"], "string") THEN Invalid
    ELSE IF "value" \notin DOMAIN fields THEN Ignored(1)
    ELSE IF ~Decodes(fields["value"], "object") THEN Invalid
    ELSE LET values == fields["value"].fields
             component == fields["componentName"].unit
         IN  CASE component = "azstorage"  -> normalizeAzStorage(values)
               [] component = "libfuse"    -> normalizeLibfuse(values)
               [] component = "file_cache" -> normalizeFileCache(values)
               [] OTHER                    -> Ignored(1)

normalizeBlobfuseMessage(raw) ==
    IF ~Decodes(raw, "object") THEN Invalid
    ELSE LET fields == raw.fields
             isEvent == DOMAIN fields \cap {"operation", "path"} # {}
         IN  IF isEvent
             THEN All(<<UnknownFields(fields, MessageFields), validateEventFields(fields),
                        Ignored(1)>>)
             ELSE All(<<UnknownFields(fields, MessageFields),
                        Field(fields, "timestamp", normalizeTimestamp),
                        normalizeStatistics(fields)>>)

normalizeBlobfuseStats(raw) ==
    IF Decodes(raw, "array")
    THEN All([i \in DOMAIN raw.elements |-> normalizeBlobfuseMessage(raw.elements[i])])
    ELSE Invalid

normalizeMemory(raw) == Formatted(raw, MemoryUnit, MemoryVirtual)

normalizeUnsupportedArray(raw) ==
    IF Decodes(raw, "array") THEN Ignored(Len(raw.elements)) ELSE Invalid

normalizeUnsupportedString(raw) ==
    IF Decodes(raw, "string") THEN Ignored(1) ELSE Invalid

TopLevelFields == {"Timestamp", "BlobfuseStats", "FileCache", "CPUUsage", "MemoryUsage",
                   "NetworkUsage"}

NormalizeRecord(record) ==
    All(<<UnknownFields(record, TopLevelFields),
          Field(record, "Timestamp", normalizeTimestamp),
          Field(record, "BlobfuseStats", normalizeBlobfuseStats),
          Field(record, "FileCache", normalizeUnsupportedArray),
          Field(record, "CPUUsage", normalizeUnsupportedString),
          Field(record, "MemoryUsage", normalizeMemory),
          Field(record, "NetworkUsage", normalizeUnsupportedString)>>)

-----------------------------------------------------------------------------
(***************************************************************************)
(* State.Apply and OTelRecorder.Record.                                    *)
(***************************************************************************)
Put(map, key, value) ==
    [k \in DOMAIN map \cup {key} |-> IF k = key THEN value ELSE map[k]]

ApplyCounter(live, result, counter) ==
    LET observed == counter.series \in DOMAIN result.baselines
        previous == result.baselines[counter.series]
    IN  [baselines |-> Put(result.baselines, counter.series, counter.value),
         increments |->
            IF live /\ observed /\ counter.value > previous
            THEN Append(result.increments,
                        [series |-> counter.series, delta |-> counter.value - previous])
            ELSE result.increments]

ApplyCounters(live, counters) ==
    FoldLeft(LAMBDA result, counter : ApplyCounter(live, result, counter),
             [baselines |-> counterBaselines, increments |-> <<>>], counters)

ApplyGauges(updates) ==
    FoldLeft(LAMBDA result, gauge : Put(result, gauge.series, gauge.value),
             gauges, updates)

\* found /\ ok
Recordable(series, names) == series.metric \in Instruments(names) /\ Describable(series)

Value(sums, key) == IF key \in DOMAIN sums THEN sums[key] ELSE 0

\* the SDK keeps the last attribute set of an instrument for what is over the limit
PointOf(sums, key) ==
    IF key \in DOMAIN sums
       \/ Cardinality({k \in DOMAIN sums : k[1] = key[1]}) < CardinalityLimit - 1
    THEN key
    ELSE <<key[1], <<"otel.metric.overflow", "true">>>>

\* instrument.Add
Add(sums, key, delta) ==
    LET point == PointOf(sums, key)
    IN  Put(sums, point, Int64(Value(sums, point) + Int64(delta)))

RecordIncrement(result, increment) ==
    IF Recordable(increment.series, CounterName)
    THEN [result EXCEPT !.sums =
            Add(@, DescribeSeries(increment.series), increment.delta)]
    ELSE [result EXCEPT !.dropped = @ + 1]

Record(increments) ==
    FoldLeft(RecordIncrement, [sums |-> cumulative, dropped |-> droppedInvalidSeries],
             increments)

Observable(series) == Recordable(series, GaugeName) \/ Recordable(series, UpDownCounterName)

\* the points a collection makes of the gauges
observeGauges ==
    {<<DescribeSeries(s), gauges[s]>> : s \in {t \in DOMAIN gauges : Observable(t)}}

-----------------------------------------------------------------------------
(***************************************************************************)
(* What the values a source field had are, read off the record directly.   *)
(***************************************************************************)
CounterFields ==
    ({"azstorage"} \X DOMAIN AzStorageCounters) \cup ({"libfuse"} \X Operation) \cup
    ({"file_cache"} \X DOMAIN FileCacheCounters)

GaugeFields ==
    (Component \X {"OpenFileHandles"}) \cup ({"file_cache"} \X DOMAIN FileCacheGauges)

\* the key the field is exported under
KeyOf(field) ==
    LET name == field[2] IN
    CASE field[1] = "azstorage" /\ name # "OpenFileHandles" ->
            <<"azure.blobfuse.storage.io",
              <<"azure.blobfuse.io.direction",
                IF name = "Bytes Downloaded" THEN "read" ELSE "write">>>>
      [] field[1] = "libfuse" /\ name # "OpenFileHandles" ->
            <<"azure.blobfuse.fs.operations",
              <<"azure.blobfuse.operation.name", operationName[name]>>>>
      [] name = "OpenFileHandles" ->
            <<"azure.blobfuse.file.open", <<"azure.blobfuse.component.name", field[1]>>>>
      [] name = "Files Downloaded" -> <<"azure.blobfuse.cache.file.downloads", <<>>>>
      [] name = "Files served from cache" -> <<"azure.blobfuse.cache.hits", <<>>>>
      [] name = "Cache Usage" -> <<"azure.blobfuse.cache.usage", <<>>>>
      [] OTHER -> <<"azure.blobfuse.cache.utilization", <<>>>>

IsExactInteger(raw) ==
    raw.type = "number" /\ raw.halves \in {2 * n : n \in 0..MaxExact}

IsMeasure(raw, unit) ==
    raw.type = "string" /\ raw.unit = unit /\ raw.amount >= 0
    /\ (unit = "MB" => raw.amount <= MaxScalable)

Readable(field, raw) ==
    CASE field[2] = "Cache Usage" -> IsMeasure(raw, "MB")
      [] field[2] = "Usage Percent" -> IsMeasure(raw, "%")
      [] OTHER -> IsExactInteger(raw)

ComponentNames == {"azstorage", "libfuse", "file_cache"}

IsStatisticsOf(m, components) ==
    /\ m.type = "object"
    /\ {"componentName", "value"} \subseteq DOMAIN m.fields
    /\ {"operation", "path"} \cap DOMAIN m.fields = {}
    /\ m.fields["componentName"].type = "string"
    /\ m.fields["componentName"].unit \in components
    /\ m.fields["value"].type = "object"

Messages(record) ==
    IF "BlobfuseStats" \in DOMAIN record /\ record["BlobfuseStats"].type = "array"
    THEN record["BlobfuseStats"].elements ELSE <<>>

\* what statistics say of a field, if it is readable
FieldReading(values, field) ==
    IF field[2] \in DOMAIN values /\ Readable(field, values[field[2]])
    THEN LET raw == values[field[2]]
         IN  <<IF raw.type = "number" THEN raw.halves ELSE raw.amount>>
    ELSE <<>>

MessageReading(m, field) ==
    IF IsStatisticsOf(m, {field[1]}) THEN FieldReading(m.fields["value"].fields, field)
    ELSE <<>>

\* the readable values of a field in a record, in order
Readings(record, field) ==
    FoldLeft(LAMBDA read, m : read \o MessageReading(m, field), <<>>, Messages(record))

SumOf(numbers) == FoldLeft(LAMBDA a, b : a + b, 0, numbers)

\* what a sequence of readings rises by, in units
Rises(readings) ==
    SumOf([i \in 1..(Len(readings) - 1) |-> IF readings[i + 1] > readings[i]
              THEN (readings[i + 1] - readings[i]) \div 2 ELSE 0])

\* how many values a message holds: those of the statistics of a component that is
\* read, or the message as a whole, and the fields it should not have
ValuesOf(m) ==
    (IF IsStatisticsOf(m, ComponentNames)
     THEN Cardinality(DOMAIN m.fields["value"].fields) ELSE 1)
    + (IF m.type = "object" THEN Cardinality(DOMAIN m.fields \ MessageFields) ELSE 0)

\* and how many a record does, leaving out the elements of FileCache
Values(record) ==
    Cardinality(DOMAIN record \ {"Timestamp", "BlobfuseStats", "FileCache"})
    + SumOf([i \in DOMAIN Messages(record) |-> ValuesOf(Messages(record)[i])])

Counted(normalized) == Len(normalized.counters) + Len(normalized.gauges)
                       + normalized.ignored + normalized.invalid

Latest(before, readings) == IF readings = <<>> THEN before ELSE <<Last(readings)>>

-----------------------------------------------------------------------------
ExportInit ==
    /\ mode = "baseline" /\ records = 0
    /\ counterBaselines = Empty /\ gauges = Empty /\ cumulative = Empty
    /\ droppedInvalidSeries = 0
    /\ seen = [f \in CounterFields \cup GaugeFields |-> <<>>]
    /\ risen = [f \in CounterFields |-> 0]
    /\ vanished = FALSE

\* Processor.Process of a record, with the recorder attached after the cutover
Process(record) ==
    /\ mode \in {"baseline", "live"} /\ records < MaxRecords
    /\ records' = records + 1
    /\ LET normalized == NormalizeRecord(record)
           applied == ApplyCounters(mode = "live", normalized.counters)
           recorded == Record(applied.increments)
       IN  /\ counterBaselines' = applied.baselines
           /\ gauges' = ApplyGauges(normalized.gauges)
           /\ cumulative' = recorded.sums
           /\ droppedInvalidSeries' = recorded.dropped
           /\ vanished' = (vanished \/ Counted(normalized) < Values(record))
    /\ seen' = [f \in DOMAIN seen |-> Latest(seen[f], Readings(record, f))]
    /\ risen' = [f \in DOMAIN risen |-> IF mode = "live"
                    THEN risen[f] + Rises(seen[f] \o Readings(record, f)) ELSE 0]
    /\ UNCHANGED mode

Cutover ==
    /\ mode = "baseline"
    /\ mode' = "live"
    /\ UNCHANGED <<records, counterBaselines, gauges, cumulative, droppedInvalidSeries,
                   seen, risen, vanished>>

\* Mutant: gauges outlive the source
GaugesKept == UNCHANGED gauges

ClearGauges == gauges' = Empty

\* app.Run clears the gauges when the source has ended
SourceEnded ==
    /\ mode = "live"
    /\ mode' = "ended"
    /\ ClearGauges
    /\ UNCHANGED <<records, counterBaselines, cumulative, droppedInvalidSeries, seen, risen,
                   vanished>>

\* what a collection cannot make a point of is dropped
Collect ==
    /\ mode # "baseline"
    /\ droppedInvalidSeries' =
        droppedInvalidSeries + Cardinality({s \in DOMAIN gauges : ~Observable(s)})
    /\ UNCHANGED <<mode, records, counterBaselines, gauges, cumulative, seen, risen, vanished>>

ExportNext ==
    (\E record \in SourceRecords : Process(record)) \/ Cutover \/ SourceEnded \/ Collect

ExportSpec == ExportInit /\ [][ExportNext]_exportVars
-----------------------------------------------------------------------------
ExportTypeOK ==
    /\ mode \in {"baseline", "live", "ended"} /\ records \in 0..MaxRecords
    /\ DOMAIN counterBaselines \subseteq CounterSeries
    /\ \A s \in DOMAIN counterBaselines : counterBaselines[s] \in 0..MaxExact
    /\ DOMAIN gauges \subseteq GaugeSeries
    /\ \A key \in DOMAIN cumulative : cumulative[key] \in -Int64Limit..(Int64Limit - 1)

(***************************************************************************)
(* Each counter exports exactly what its own source field rose by between  *)
(* the readings it had since the cutover, modulo 2^64 as the sums of the   *)
(* SDK are, whatever else the records hold: a value that cannot be read    *)
(* neither adds nor hides one before or after it, a restart of the source  *)
(* counter adds nothing, no increase is changed by a conversion, and no    *)
(* two fields share a point (NormalizeRecord, Apply, Record).              *)
(***************************************************************************)
ExportedIsExact ==
    /\ \A f \in CounterFields : Value(cumulative, KeyOf(f)) = Int64(risen[f])
    /\ DOMAIN cumulative \subseteq {KeyOf(f) : f \in CounterFields}

(***************************************************************************)
(* A collection observes each gauge of the components at its last readable *)
(* value, under its own name, until the source ends, and none after        *)
(* (NormalizeRecord, Apply, ClearGauges, observeGauges).                   *)
(***************************************************************************)
GaugesAreCurrent ==
    \A f \in GaugeFields :
        {point[2][1] : point \in {p \in observeGauges : p[1] = KeyOf(f)}} =
        IF mode = "ended" \/ seen[f] = <<>> THEN {} ELSE {seen[f][1]}

(***************************************************************************)
(* The recorder has an instrument and attributes for each series the       *)
(* normalizer makes: nothing the source reports is dropped between the     *)
(* two packages' tables (NormalizeRecord, DescribeSeries,                  *)
(* representativeSeries).                                                  *)
(***************************************************************************)
NoSeriesDropped == droppedInvalidSeries = 0

(***************************************************************************)
(* Each value of a record is taken, or counted as ignored or invalid: an   *)
(* allowlist that knows a field which is not read would lose it without a  *)
(* trace (NormalizeRecord, normalizeAzStorage, normalizeLibfuse,           *)
(* normalizeFileCache).                                                    *)
(***************************************************************************)
NoValueVanishes == ~vanished
=============================================================================
