------------------------------ MODULE MetricSeries ------------------------------
(***************************************************************************)
(* The series of BlobFuse metrics: which field of which component's        *)
(* statistics each one comes from (the tables of                           *)
(* internal/source/normalizer.go) and the instrument and attribute it is   *)
(* exported under (internal/metrics/descriptor.go, otel.go).  The tables   *)
(* are kept by hand in two packages, and nothing but the series ties them. *)
(***************************************************************************)
EXTENDS Naturals, Sequences

None == "none"      \* the zero value of Component, Direction and Operation

Component == {"libfuse", "azstorage"}
Direction == {"read", "write"}

operationFields ==
    <<"CreateDir", "DeleteDir", "StreamDir", "RenameDir", "CreateFile", "DeleteFile",
      "RenameFile", "TruncateFile", "CreateLink", "ReadLink", "SyncFile", "SyncDir",
      "Chmod">>

\* the operations are named after the libfuse fields that count them
Operation == {operationFields[i] : i \in DOMAIN operationFields}

operationName ==
    [CreateDir |-> "create_dir", DeleteDir |-> "delete_dir", StreamDir |-> "stream_dir",
     RenameDir |-> "rename_dir", CreateFile |-> "create_file",
     DeleteFile |-> "delete_file", RenameFile |-> "rename_file",
     TruncateFile |-> "truncate_file", CreateLink |-> "create_link",
     ReadLink |-> "read_link", SyncFile |-> "sync_file", SyncDir |-> "sync_dir",
     Chmod |-> "chmod"]

Metric == {"StorageIO", "FSOperations", "OpenFiles", "CacheDownloads", "CacheHits",
           "CacheUsage", "CacheUtilization", "MemoryVirtual"}

Series == [metric : Metric, component : Component \cup {None},
           direction : Direction \cup {None}, operation : Operation \cup {None}]

Plain(metric) ==
    [metric |-> metric, component |-> None, direction |-> None, operation |-> None]

-----------------------------------------------------------------------------
(***************************************************************************)
(* From the fields of the source to series.                                *)
(***************************************************************************)
AzStorageCounters ==
    [n \in {"Bytes Downloaded", "Bytes Uploaded"} |->
        [Plain("StorageIO") EXCEPT !.direction =
            IF n = "Bytes Downloaded" THEN "read" ELSE "write"]]

LibfuseCounters ==
    [n \in Operation |-> [Plain("FSOperations") EXCEPT !.operation = n]]

FileCacheCounters ==
    [n \in {"Files Downloaded", "Files served from cache"} |->
        Plain(IF n = "Files Downloaded" THEN "CacheDownloads" ELSE "CacheHits")]

FileCacheGauges ==
    [n \in {"Cache Usage", "Usage Percent"} |->
        Plain(IF n = "Cache Usage" THEN "CacheUsage" ELSE "CacheUtilization")]

OpenFiles(component) == [Plain("OpenFiles") EXCEPT !.component = component]

MemoryVirtual == Plain("MemoryVirtual")

CounterSeries ==
    {AzStorageCounters[n] : n \in DOMAIN AzStorageCounters} \cup
    {LibfuseCounters[n] : n \in Operation} \cup
    {FileCacheCounters[n] : n \in DOMAIN FileCacheCounters}

GaugeSeries ==
    {OpenFiles(c) : c \in Component} \cup
    {FileCacheGauges[n] : n \in DOMAIN FileCacheGauges} \cup {MemoryVirtual}

-----------------------------------------------------------------------------
(***************************************************************************)
(* From series to instruments.                                             *)
(***************************************************************************)
CounterName ==
    [StorageIO |-> "azure.blobfuse.storage.io",
     FSOperations |-> "azure.blobfuse.fs.operations",
     CacheDownloads |-> "azure.blobfuse.cache.file.downloads",
     CacheHits |-> "azure.blobfuse.cache.hits"]

GaugeName ==
    [OpenFiles |-> "azure.blobfuse.file.open",
     CacheUsage |-> "azure.blobfuse.cache.usage",
     CacheUtilization |-> "azure.blobfuse.cache.utilization"]

UpDownCounterName == [MemoryVirtual |-> "process.memory.virtual"]

\* Mutant: open files are accepted of libfuse only
DescribableOfLibfuse(series) ==
    CASE series.metric = "StorageIO" ->
            series.component = None /\ series.operation = None
            /\ series.direction \in Direction
      [] series.metric = "FSOperations" ->
            series.component = None /\ series.direction = None
            /\ series.operation \in Operation
      [] series.metric = "OpenFiles" ->
            series.direction = None /\ series.operation = None
            /\ series.component = "libfuse"
      [] OTHER -> series = Plain(series.metric)

\* DescribeSeries returns no error
Describable(series) ==
    CASE series.metric = "StorageIO" ->
            series.component = None /\ series.operation = None
            /\ series.direction \in Direction
      [] series.metric = "FSOperations" ->
            series.component = None /\ series.direction = None
            /\ series.operation \in Operation
      [] series.metric = "OpenFiles" ->
            series.direction = None /\ series.operation = None
            /\ series.component \in Component
      [] OTHER -> series = Plain(series.metric)

InstrumentName(metric) ==
    CASE metric \in DOMAIN CounterName -> CounterName[metric]
      [] metric \in DOMAIN GaugeName -> GaugeName[metric]
      [] OTHER -> UpDownCounterName[metric]

AttributeOf(series) ==
    CASE series.metric = "StorageIO" -> <<"azure.blobfuse.io.direction", series.direction>>
      [] series.metric = "FSOperations" ->
            <<"azure.blobfuse.operation.name", operationName[series.operation]>>
      [] series.metric = "OpenFiles" ->
            <<"azure.blobfuse.component.name", series.component>>
      [] OTHER -> <<>>

\* the name and attribute set a describable series is exported under
DescribeSeries(series) == <<InstrumentName(series.metric), AttributeOf(series)>>

representativeSeries ==
    {[Plain("StorageIO") EXCEPT !.direction = "read"],
     [Plain("FSOperations") EXCEPT !.operation = "CreateFile"],
     OpenFiles("libfuse")} \cup
    {Plain(m) : m \in {"CacheDownloads", "CacheHits", "CacheUsage", "CacheUtilization",
                       "MemoryVirtual"}}

\* the metrics NewOTelRecorder has an instrument for, by kind
Instruments(names) == {s.metric : s \in representativeSeries} \cap DOMAIN names
=============================================================================
