------------------------------ MODULE MCSourceParts ------------------------------
(***************************************************************************)
(* Four parts of the exporter that share no state, each checked by itself: *)
(* a behaviour is one of one part, chosen initially.                       *)
(***************************************************************************)
EXTENDS ProcessIdentity, RecordExport, WatchWait, Settings

VARIABLE part

vars == <<part, identityVars, exportVars, waitVars, settingsVars>>

One(S) == CHOOSE x \in S : TRUE

Init ==
    /\ part \in {"identity", "export", "wait", "settings"}
    /\ IdentityInit /\ ExportInit /\ WaitInit /\ SettingsInit
    /\ part # "identity" => offset = One(BootOffsets)
    /\ part # "settings" => command = One(Commands)

Next ==
    /\ UNCHANGED part
    /\ \/ part = "identity" /\ IdentityNext /\ UNCHANGED <<exportVars, waitVars, settingsVars>>
       \/ part = "export" /\ ExportNext /\ UNCHANGED <<identityVars, waitVars, settingsVars>>
       \/ part = "wait" /\ WaitNext /\ UNCHANGED <<identityVars, exportVars, settingsVars>>
       \/ part = "settings" /\ SettingsNext /\ UNCHANGED <<identityVars, exportVars, waitVars>>

\* IdentityFairness, of the identity part
Fairness ==
    /\ WF_vars(part = "identity" /\ Reader /\ UNCHANGED <<part, exportVars, waitVars, settingsVars>>)
    /\ WF_vars(part = "identity" /\ Recheck
               /\ UNCHANGED <<part, exportVars, waitVars, settingsVars>>)

Spec == Init /\ [][Next]_vars /\ Fairness

-----------------------------------------------------------------------------
\* Records, from the JSON values they hold.
Null == [type |-> "null"]
Number(n) == [type |-> "number", halves |-> 2 * n]
Text(t) == [type |-> "string", amount |-> -1, unit |-> t]
Measure(n, u) == [type |-> "string", amount |-> n, unit |-> u]
Array(s) == [type |-> "array", elements |-> s]
Object(f) == [type |-> "object", fields |-> f]
Only(name, value) == [n \in {name} |-> value]
Stats(component, values) ==
    Object([timestamp |-> Text("RFC3339"), componentName |-> Text(component),
            value |-> Object(values)])
Report(messages) == [Timestamp |-> Text("RFC3339"), BlobfuseStats |-> Array(messages)]

\* every field of every component, and memory
Full(n) ==
    Report(<<Stats("azstorage",
                   [x \in DOMAIN AzStorageCounters \cup {"OpenFileHandles"} |-> Number(n)]),
             Stats("libfuse", [x \in Operation \cup {"OpenFileHandles"} |-> Number(n)]),
             Stats("file_cache", [x \in DOMAIN FileCacheCounters |-> Number(n)] @@
                ("Cache Usage" :> Measure(n, "MB")) @@ ("Usage Percent" :> Measure(n, "%")))>>)
    @@ ("MemoryUsage" :> Measure(n, "k"))

Numbers == {Number(n) : n \in {0, 2, 3, 4, 70, -1}} \cup
           {[type |-> "number", halves |-> 3], Text("2"), Null}

Measures == {Measure(1, "%"), Measure(30, "%"), Measure(1, "MB"), Measure(30, "MB"),
             Measure(-1, "%"), Number(2)}

OneField ==
    {Report(<<Stats("azstorage", Only("Bytes Uploaded", v))>>) : v \in Numbers} \cup
    {Report(<<Stats("libfuse", Only("OpenFileHandles", v))>>) : v \in Numbers} \cup
    {Report(<<Stats("file_cache", ("Cache Usage" :> v) @@ ("Usage Percent" :> v))>>) :
        v \in Measures}

\* messages that are no statistics of a component that is read
OtherMessages ==
    {Null, Number(1), Object(Only("value", Number(1))),
     Object(Only("componentName", Number(1))), Object(Only("componentName", Text("libfuse"))),
     Stats("block_cache", Only("Bytes Uploaded", Number(1))),
     Object([componentName |-> Text("libfuse"), value |-> Number(3)]),
     Object([componentName |-> Text("azstorage"), timestamp |-> Null, note |-> Null,
             value |-> Object(Only("Bytes Uploaded", Number(3))),
             operation |-> Null, path |-> Text("a")])}

Good(n) == Stats("azstorage", ("Bytes Uploaded" :> Number(n)) @@
                              ("Bytes Downloaded" :> Number(0)) @@ ("Chmod" :> Number(1)))
Bad(n) == Stats("azstorage", ("Bytes Uploaded" :> Number(n)) @@ ("Bytes Downloaded" :> Null))

Mixed == {Report(<<Good(3), Bad(1), Good(2)>>)} \cup
         {Report(<<m, Bad(2)>>) : m \in OtherMessages}

TopLevel ==
    {Empty,
     [Timestamp |-> Text("yesterday"), BlobfuseStats |-> Null, FileCache |-> Null,
      CPUUsage |-> Number(1), MemoryUsage |-> Measure(3, "B"), NetworkUsage |-> Null,
      Version |-> Number(1)],
     [FileCache |-> Array(<<Null, Number(1)>>), CPUUsage |-> Text("3%"),
      NetworkUsage |-> Text("1k"), MemoryUsage |-> Measure(2, "G")]}

AllRecords == {Full(1), Full(3)} \cup OneField \cup Mixed \cup TopLevel

-----------------------------------------------------------------------------
\* Command lines: the default settings, and each of them changed, to what is
\* accepted and to what is not.
GoodEndpoint == [parses |-> TRUE, scheme |-> "http", user |-> FALSE, query |-> FALSE,
                 host |-> "loopback", metricsPath |-> TRUE]

Default ==
    [reportDirectory |-> "absolute", pid |-> 7, otlpEndpoint |-> GoodEndpoint,
     duration |-> [rescanInterval |-> 40, initializationTimeout |-> 240,
                   sourceDrainTimeout |-> 80, exportInterval |-> 240, exportTimeout |-> 80,
                   shutdownTimeout |-> 40],
     maxRecordBytes |-> 16, logLevel |-> "info"]

Configs ==
    {Default} \cup
    {[Default EXCEPT !.reportDirectory = d] : d \in {"none", "relative"}} \cup
    {[Default EXCEPT !.pid = p] : p \in {-1, 0, 1}} \cup
    {[Default EXCEPT !.otlpEndpoint.parses = FALSE],
     [Default EXCEPT !.otlpEndpoint.scheme = "other"],
     [Default EXCEPT !.otlpEndpoint.user = TRUE],
     [Default EXCEPT !.otlpEndpoint.query = TRUE],
     [Default EXCEPT !.otlpEndpoint.host = "remote"],
     [Default EXCEPT !.otlpEndpoint.metricsPath = FALSE]} \cup
    {[Default EXCEPT !.duration[d] = t] : d \in Durations, t \in {-4, 0, 1, 3, 8, 100, 240}} \cup
    {[Default EXCEPT !.maxRecordBytes = b] : b \in {-1, 0, 1, 64, 65}} \cup
    {[Default EXCEPT !.logLevel = "other"]}

AllCommands ==
    {[parsed |-> p, config |-> Default] : p \in Parsed} \cup
    {[parsed |-> "config", config |-> c] : c \in Configs}
=============================================================================
