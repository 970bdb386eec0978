-------------------------------- MODULE Settings --------------------------------
(***************************************************************************)
(* The settings of a run: Config.Validate, which the command line, app.Run *)
(* and the exporter each call, what the stages of app.Run that take a      *)
(* setting demand of it themselves, the retry intervals derived from the   *)
(* export timeout, and the exit code (internal/config, main.go,            *)
(* internal/app/run_linux.go, internal/telemetry/exporter.go).             *)
(***************************************************************************)
EXTENDS Integers

CONSTANTS Commands,            \* what the command line may say
          Second,              \* units of time in a second; the unit is 1 ns
          MinimumRecordBytes,  \* 1 MiB
          MaximumRecordBytes   \* 64 MiB

ASSUME SecondAssumption == Second \in Nat \ {0}
ASSUME RecordBytesAssumption ==
    /\ MinimumRecordBytes \in Nat \ {0} /\ MaximumRecordBytes \in Nat
    /\ MinimumRecordBytes <= MaximumRecordBytes

Durations == {"rescanInterval", "initializationTimeout", "sourceDrainTimeout",
              "exportInterval", "exportTimeout", "shutdownTimeout"}

\* flag.Parse gives help, an error, positional arguments, or a Config
Parsed == {"help", "error", "positional", "config"}

Endpoint == [parses : BOOLEAN, scheme : {"http", "other"}, user : BOOLEAN,
             query : BOOLEAN, host : {"none", "loopback", "remote"}, metricsPath : BOOLEAN]

Config == [reportDirectory : {"none", "relative", "absolute"}, pid : Int,
           otlpEndpoint : Endpoint, duration : [Durations -> Int], maxRecordBytes : Int,
           logLevel : {"debug", "info", "warn", "error", "other"}]

ASSUME CommandsAssumption == Commands \subseteq [parsed : Parsed, config : Config]

VARIABLES
    command,    \* the command line
    stage,      \* what runs, or "exited"
    exitCode,   \* of run, or Running
    refusedAt   \* history: the stage that did not accept a setting

settingsVars == <<command, stage, exitCode, refusedAt>>

Running == -1

-----------------------------------------------------------------------------
\* isLoopbackHost; the conditions on opaque URLs, fragments and escaped paths are
\* those on the scheme, the query and the path
ParseOTLPEndpoint(e) ==
    /\ e.parses /\ e.scheme = "http" /\ ~e.user /\ ~e.query
    /\ e.host = "loopback" /\ e.metricsPath

\* Mutant: the drain timeout is not in the table
ValidExceptDrain(c) ==
    /\ c.reportDirectory = "absolute"
    /\ c.pid > 0
    /\ ParseOTLPEndpoint(c.otlpEndpoint)
    /\ \A d \in Durations \ {"sourceDrainTimeout"} : c.duration[d] > 0
    /\ c.duration["exportTimeout"] < c.duration["exportInterval"]
    /\ c.maxRecordBytes \in MinimumRecordBytes..MaximumRecordBytes
    /\ c.logLevel # "other"

Validate(c) ==
    /\ c.reportDirectory = "absolute"
    /\ c.pid > 0
    /\ ParseOTLPEndpoint(c.otlpEndpoint)
    /\ \A d \in Durations : c.duration[d] > 0
    /\ c.duration["exportTimeout"] < c.duration["exportInterval"]
    /\ c.maxRecordBytes \in MinimumRecordBytes..MaximumRecordBytes
    /\ c.logLevel # "other"

minDuration(left, right) == IF left < right THEN left ELSE right

\* NewOTLPHTTPExporter; a duration divides towards zero, and is not negative here
retryInitial(timeout) ==
    LET quarter == minDuration(Second, timeout \div 4) IN IF quarter <= 0 THEN 1 ELSE quarter

retryMaximum(timeout) ==
    LET half == minDuration(5 * Second, timeout \div 2)
    IN  IF half < retryInitial(timeout) THEN retryInitial(timeout) ELSE half

\* what the transport needs of its retry intervals
RetryIsUsable(timeout) ==
    0 < retryInitial(timeout) /\ retryInitial(timeout) <= retryMaximum(timeout)
    /\ retryMaximum(timeout) <= timeout

\* the stages that demand something of a setting, in their order
Stages == <<"identity", "directory", "initialize", "exporter", "run", "drain">>

Accepts(at, c) ==
    CASE at = "identity"   -> c.pid > 0
      [] at = "directory"  -> c.reportDirectory = "absolute"
      [] at = "initialize" -> /\ c.maxRecordBytes > 0
                              /\ c.duration["rescanInterval"] > 0
                              /\ c.duration["initializationTimeout"] > 0
      [] at = "exporter"   -> Validate(c) /\ RetryIsUsable(c.duration["exportTimeout"])
      [] at = "run"        -> /\ c.duration["rescanInterval"] > 0
                              /\ c.duration["sourceDrainTimeout"] > 0
      [] OTHER             -> /\ c.duration["sourceDrainTimeout"] > 0
                              /\ c.duration["rescanInterval"] > 0

-----------------------------------------------------------------------------
SettingsInit ==
    /\ command \in Commands
    /\ stage = "parse" /\ exitCode = Running /\ refusedAt = "none"

Exit(code) == stage' = "exited" /\ exitCode' = code

\* config.Parse, and what run makes of its error
Parse ==
    /\ stage = "parse"
    /\ \/ command.parsed = "help" /\ Exit(0)
       \/ /\ command.parsed = "config" /\ Validate(command.config)
          /\ stage' = "identity" /\ UNCHANGED exitCode
       \/ /\ command.parsed # "help"
          /\ ~(command.parsed = "config" /\ Validate(command.config))
          /\ Exit(2)
    /\ UNCHANGED <<command, refusedAt>>

\* a stage refuses its settings or fails for another reason, gives way to the next,
\* or, with the source running or drained, ends
Step(i) ==
    /\ stage = Stages[i]
    /\ \/ /\ refusedAt' = IF Accepts(stage, command.config) THEN refusedAt ELSE stage
          /\ Exit(1)
       \/ /\ Accepts(stage, command.config) /\ i < 6
          /\ stage' = Stages[i + 1] /\ UNCHANGED <<exitCode, refusedAt>>
       \/ /\ Accepts(stage, command.config) /\ i \in {5, 6}
          /\ Exit(0) /\ UNCHANGED refusedAt
    /\ UNCHANGED command

SettingsNext == Parse \/ \E i \in 1..6 : Step(i)

SettingsSpec == SettingsInit /\ [][SettingsNext]_settingsVars
-----------------------------------------------------------------------------
SettingsTypeOK ==
    /\ command \in Commands
    /\ stage \in {"parse", "exited", "identity", "directory", "initialize", "exporter",
                  "run", "drain"}
    /\ exitCode \in {Running, 0, 1, 2}
    /\ refusedAt \in {"none", "identity", "directory", "initialize", "exporter", "run",
                      "drain"}

(***************************************************************************)
(* No stage demands more than Validate has granted: the stages repeat its  *)
(* checks one after the other once the command line was accepted, and an   *)
(* export timeout of a few nanoseconds leaves retry intervals that are     *)
(* positive, ordered and within it (Validate, InitializeSource, Run,       *)
(* DrainSource, NewOTLPHTTPExporter).                                      *)
(***************************************************************************)
ValidSettingsAreAccepted == refusedAt = "none"
=============================================================================
