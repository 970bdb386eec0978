---------------------------- MODULE ProcessIdentity ----------------------------
(***************************************************************************)
(* The identity of the monitored process: how the exporter captures it     *)
(* from procfs, checks on every rescan that the PID still belongs to the   *)
(* same process, and reads process metrics, while processes end, the PID   *)
(* is used again, the wall clock is stepped, the host reboots and the      *)
(* exporter is restarted (internal/source/identity_linux.go,               *)
(* recheck_linux.go, process_metrics_linux.go).                            *)
(*                                                                         *)
(* Only the configured PID is modelled.  Times are counted in clock ticks. *)
(* Each file of /proc that is read is a step of its own.                   *)
(***************************************************************************)
EXTENDS Integers

CONSTANTS ClockTicks,     \* clock ticks per second
          NoIdentity,     \* no identity captured
          MaxTicks,       \* bound: ticks a boot lasts
          MaxBoots,       \* bound: boots of the host
          MaxLifetimes,   \* bound: processes that use the PID
          BootOffsets     \* bound: wall-clock times of the boot, in ticks

ASSUME ClockTicksAssumption == ClockTicks \in Nat \ {0}
ASSUME MaxLifetimesAssumption ==
    /\ MaxTicks \in Nat /\ MaxBoots \in Nat /\ MaxLifetimes \in Nat
ASSUME BootOffsetsAssumption == BootOffsets \subseteq Nat

Lifetime == 1..MaxLifetimes
NoLifetime == 0
Identity == [boot : Nat, ticks : Nat, creation : Int]
ASSUME NoIdentityAssumption == NoIdentity \notin Identity

VARIABLES
    boot,        \* /proc/sys/kernel/random/boot_id, boots counted from 1
    now,         \* ticks since the boot
    offset,      \* wall-clock time of the boot as the clock has it now, in ticks
    stepped,     \* history: the wall clock was stepped since the boot
    occupant,    \* the process that has the PID, or NoLifetime
    lifetimes,   \* how many processes have had the PID
    born         \* boot and start ticks of each of them

hostVars == <<boot, now, offset, stepped, occupant, lifetimes, born>>

VARIABLES
    at,          \* what the exporter does
    readTicks,   \* processIdentityReader.read: start ticks read first
    readBoot,    \* boot ID read
    readTime,    \* btime read, in seconds
    captured,    \* ProcessIdentity of the session, or NoIdentity
    source,      \* history: the process captured is the identity of
    sampled,     \* history: whose process metrics were last exported
    known,       \* history: identities captured, with the process each is of
    unread       \* history: the last lookup met a file it could not read

exporterVars ==
    <<at, readTicks, readBoot, readTime, captured, source, sampled, known, unread>>
identityVars == <<hostVars, exporterVars>>

Reading == {"ticks", "bootID", "bootTime", "verify"}

IdentityInit ==
    /\ boot = 1 /\ now = 0 /\ offset \in BootOffsets /\ stepped = FALSE
    /\ occupant = NoLifetime /\ lifetimes = 0
    /\ born = [n \in Lifetime |-> [boot |-> 0, ticks |-> 0]]
    /\ at = "off" /\ readTicks = 0 /\ readBoot = 0 /\ readTime = 0
    /\ captured = NoIdentity /\ source = NoLifetime /\ sampled = NoLifetime
    /\ known = {} /\ unread = FALSE

-----------------------------------------------------------------------------
(***************************************************************************)
(* The host.                                                               *)
(***************************************************************************)
Tick ==
    /\ now < MaxTicks
    /\ now' = now + 1
    /\ UNCHANGED <<boot, offset, stepped, occupant, lifetimes, born, exporterVars>>

\* PIDs are given out in turn, so one is not used twice within a tick
ProcessStarts ==
    /\ occupant = NoLifetime /\ lifetimes < MaxLifetimes
    /\ LET start == [boot |-> boot, ticks |-> now] IN
       /\ \A n \in 1..lifetimes : born[n] # start
       /\ born' = [born EXCEPT ![lifetimes + 1] = start]
    /\ lifetimes' = lifetimes + 1
    /\ occupant' = lifetimes + 1
    /\ UNCHANGED <<boot, now, offset, stepped, exporterVars>>

ProcessExits ==
    /\ occupant # NoLifetime
    /\ occupant' = NoLifetime
    /\ UNCHANGED <<boot, now, offset, stepped, lifetimes, born, exporterVars>>

ClockStepped ==
    /\ \E time \in BootOffsets \ {offset} : offset' = time
    /\ stepped' = TRUE
    /\ UNCHANGED <<boot, now, occupant, lifetimes, born, exporterVars>>

Stop ==
    /\ at' = "off"
    /\ captured' = NoIdentity /\ source' = NoLifetime /\ sampled' = NoLifetime
    /\ UNCHANGED <<readTicks, readBoot, readTime, known, unread>>

Reboot ==
    /\ boot < MaxBoots
    /\ boot' = boot + 1 /\ now' = 0 /\ stepped' = FALSE
    /\ occupant' = NoLifetime
    /\ Stop
    /\ UNCHANGED <<offset, lifetimes, born>>

ExporterStops ==
    /\ at # "off"
    /\ Stop
    /\ UNCHANGED hostVars

-----------------------------------------------------------------------------
(***************************************************************************)
(* processIdentityReader.read, for app.Run and for verifyProcessIdentity.  *)
(***************************************************************************)

\* Mutant: a process that cannot be read is taken for a passing failure
ReadFailsTolerated ==
    /\ at' = IF captured = NoIdentity THEN "off" ELSE "reconciling"
    /\ UNCHANGED <<readTicks, readBoot, readTime, captured, source, sampled, known>>

\* app.Run returns the error; a recheck takes any error for the end
ReadFails ==
    /\ at' = IF captured = NoIdentity THEN "off" ELSE "ended"
    /\ UNCHANGED <<readTicks, readBoot, readTime, captured, source, sampled, known>>

\* a file that is there cannot be opened, read or parsed
Unreadable == ReadFails /\ unread' = TRUE

NoProcess == occupant = NoLifetime /\ ReadFails /\ UNCHANGED unread

Read(step) ==
    /\ at' = step
    /\ UNCHANGED <<captured, source, sampled, known, unread>>

\* app.Run reads the identity before anything else
StartExporter ==
    /\ at = "off"
    /\ at' = "ticks" /\ unread' = FALSE
    /\ UNCHANGED <<hostVars, readTicks, readBoot, readTime, captured, source, sampled,
                   known>>

\* Run reads it again whenever Wait returns
Recheck ==
    /\ at = "running"
    /\ at' = "ticks" /\ unread' = FALSE
    /\ UNCHANGED <<hostVars, readTicks, readBoot, readTime, captured, source, sampled,
                   known>>

\* the initialization or Reconcile ends, and Run waits for the next event
Reconciled ==
    /\ at = "reconciling"
    /\ at' = "running"
    /\ UNCHANGED <<hostVars, readTicks, readBoot, readTime, captured, source, sampled,
                   known, unread>>

ReadTicks ==
    /\ at = "ticks"
    /\ \/ NoProcess
       \/ Unreadable
       \/ /\ occupant # NoLifetime
          /\ readTicks' = born[occupant].ticks
          /\ Read("bootID")
          /\ UNCHANGED <<readBoot, readTime>>
    /\ UNCHANGED hostVars

ReadBootID ==
    /\ at = "bootID"
    /\ \/ Unreadable
       \/ /\ readBoot' = boot
          /\ Read("bootTime")
          /\ UNCHANGED <<readTicks, readTime>>
    /\ UNCHANGED hostVars

\* /proc/stat gives the boot time in whole seconds
ReadBootTime ==
    /\ at = "bootTime"
    /\ \/ Unreadable
       \/ /\ readTime' = offset \div ClockTicks
          /\ Read("verify")
          /\ UNCHANGED <<readTicks, readBoot>>
    /\ UNCHANGED hostVars

\* Mutant: the start is taken in whole seconds
WholeSeconds(bootTime, ticks) == (bootTime + ticks \div ClockTicks) * ClockTicks

\* processCreationTime: whole seconds, and the rest in nanoseconds
CreationTime(bootTime, ticks) ==
    (bootTime + ticks \div ClockTicks) * ClockTicks + (ticks % ClockTicks)

\* Mutant: the boot is not compared
SameTicks(a, b) == a.ticks = b.ticks

\* Mutant: all fields are compared
SameFields(a, b) == a = b

SameSession(a, b) == a.boot = b.boot /\ a.ticks = b.ticks

\* the second reading finds the PID with other start ticks
ProcessChanged ==
    /\ occupant # NoLifetime /\ born[occupant].ticks # readTicks
    /\ ReadFails
    /\ UNCHANGED unread

\* the first identity is the session's, a later one is compared with it
Identified(current) ==
    \/ /\ captured = NoIdentity
       /\ captured' = current /\ source' = occupant
       /\ known' = known \cup {<<current, occupant>>}
       /\ at' = "reconciling"
    \/ /\ captured # NoIdentity
       /\ at' = IF SameSession(captured, current) THEN "reconciling" ELSE "ended"
       /\ UNCHANGED <<captured, source, known>>

\* the second reading of the start ticks, and what becomes of the identity
VerifyTicks ==
    /\ at = "verify"
    /\ \/ NoProcess
       \/ Unreadable
       \/ ProcessChanged
       \/ /\ occupant # NoLifetime /\ born[occupant].ticks = readTicks
          /\ Identified([boot |-> readBoot, ticks |-> readTicks,
                          creation |-> CreationTime(readTime, readTicks)])
          /\ UNCHANGED <<readTicks, readBoot, readTime, sampled, unread>>
    /\ UNCHANGED hostVars

\* Mutant: process metrics are those of whoever has the PID
SampleUnbound ==
    /\ captured # NoIdentity /\ at # "off"
    /\ sampled' = occupant
    /\ UNCHANGED <<hostVars, at, readTicks, readBoot, readTime, captured, source, known,
                   unread>>

\* ProcessRecorder.observe at a collection: one read of /proc/<pid>/stat, which
\* goes unexported when it fails or has other start ticks
Sample ==
    /\ captured # NoIdentity /\ at # "off"
    /\ \/ sampled' = NoLifetime
       \/ /\ occupant # NoLifetime /\ born[occupant].ticks = captured.ticks
          /\ sampled' = occupant
    /\ UNCHANGED <<hostVars, at, readTicks, readBoot, readTime, captured, source, known,
                   unread>>

Host == Tick \/ ProcessStarts \/ ProcessExits \/ ClockStepped \/ Reboot \/ ExporterStops

Reader == ReadTicks \/ ReadBootID \/ ReadBootTime \/ VerifyTicks

IdentityNext == Host \/ StartExporter \/ Recheck \/ Reconciled \/ Reader \/ Sample

IdentitySpec == IdentityInit /\ [][IdentityNext]_identityVars

\* A read of procfs ends, and Wait returns when the rescan interval has passed.
\* That a reconciliation ends is not assumed: its loop has no bound.
IdentityFairness == WF_identityVars(Reader) /\ WF_identityVars(Recheck)
-----------------------------------------------------------------------------
IdentityTypeOK ==
    /\ boot \in Nat /\ now \in Nat /\ offset \in Nat /\ stepped \in BOOLEAN
    /\ occupant \in Lifetime \cup {NoLifetime}
    /\ lifetimes \in 0..MaxLifetimes
    /\ born \in [Lifetime -> [boot : Nat, ticks : Nat]]
    /\ at \in {"off", "reconciling", "running", "ended"} \cup Reading
    /\ readTicks \in Nat /\ readBoot \in Nat /\ readTime \in Nat
    /\ captured \in Identity \cup {NoIdentity}
    /\ source \in Lifetime \cup {NoLifetime}
    /\ sampled \in Lifetime \cup {NoLifetime}
    /\ known \subseteq Identity \X Lifetime
    /\ unread \in BOOLEAN

(***************************************************************************)
(* Two identities, captured by whatever runs of the exporter, are of the   *)
(* same session exactly when they are of the same process, although the    *)
(* reading is four steps, the PID is used again, the wall clock is stepped *)
(* and start ticks repeat from one boot to the next; InstanceID depends on *)
(* the same three fields (read, SameSession, InstanceID).                  *)
(***************************************************************************)
IdentityTellsLifetimes ==
    \A a, b \in known : SameSession(a[1], b[1]) <=> a[2] = b[2]

(***************************************************************************)
(* Process metrics are never those of another process than the session's,  *)
(* although nothing checks the identity around a collection                *)
(* (processMetricsReader.read, ProcessRecorder.observe).                   *)
(***************************************************************************)
SamplesTheSource == sampled \in {NoLifetime, source}

(***************************************************************************)
(* A recheck ends the session exactly if the process of the session is     *)
(* gone, although the reading is four steps, the PID is used again and a   *)
(* step of the wall clock changes the creation time read; the one          *)
(* exception is a file that cannot be read, which ends the session of a    *)
(* living process too (verifyProcessIdentity, SameSession).                *)
(***************************************************************************)
RecheckIsExact ==
    [][captured # NoIdentity /\ at \in Reading /\ at' \in {"reconciling", "ended"}
          => (at' = "ended" <=> (occupant # source \/ unread'))]_identityVars

(***************************************************************************)
(* The report files of the session's process pass the age check of         *)
(* OpenReport, and a report a process left a second or more before the     *)
(* session's process started does not: unless the wall clock was stepped,  *)
(* the creation time is at most the real one and less than a second before *)
(* it (processCreationTime, OpenReport).                                   *)
(***************************************************************************)
CreationIsCloseToStart ==
    captured # NoIdentity /\ ~stepped =>
        captured.creation \in (offset + born[source].ticks - ClockTicks + 1)..
                              (offset + born[source].ticks)

(***************************************************************************)
(* A source that is gone is noticed, even when its PID is in use again,    *)
(* unless the reconciliation under way never ends: Run looks at the        *)
(* identity only between reconciliations (run, verifyProcessIdentity).     *)
(***************************************************************************)
EndIsNoticed ==
    (captured # NoIdentity /\ occupant # source)
        ~> (at \in {"ended", "off"} \/ [](at = "reconciling"))
=============================================================================
