---------------------------- MODULE ReportDirectory ----------------------------
(***************************************************************************)
(* The source side of a session: the report directory bfusemon writes, the *)
(* process identity it writes for, and the inotify queue of the exporter's *)
(* DirectoryWatcher.                                                       *)
(*                                                                         *)
(* A generation is one report file, numbered in the order of creation (the *)
(* GenerationID, device and inode, of the code); rotation r of the         *)
(* directory holds the file monitor_<pid>[_r].json.  Records carry the     *)
(* value of one process-lifetime counter, which every record raises by     *)
(* one: the k-th record of generation g has value first[g] + k.  A record  *)
(* counts as written when its delimiter is in the file; partial records    *)
(* are the business of GenerationReader.                                   *)
(*                                                                         *)
(* bfusemon is not part of src/: it is modelled from docs/                 *)
(* source-contract.md and from what the session relies on.                 *)
(***************************************************************************)
EXTENDS Integers

CONSTANTS MaxRotation,     \* highest rotation reportName accepts (9)
          MaxGeneration,   \* bound: generations the writer creates
          MaxRecords,      \* bound: records the writer writes in all
          Faults           \* what the environment may do, see Fault

Fault == {"activity", "overflow", "invalidate", "cancel", "error", "lookup"}

ASSUME MaxRotationAssumption == MaxRotation \in Nat
ASSUME MaxGenerationAssumption == MaxGeneration \in Nat
ASSUME MaxRecordsAssumption == MaxRecords \in Nat
ASSUME FaultsAssumption == Faults \subseteq Fault

VARIABLES
    slot,       \* the generation each rotation's name points to, None if none
    newest,     \* the last generation created
    first,      \* counter value before a generation's first record
    written,    \* complete records in a generation
    bracket,    \* whether a generation has its closing bracket
    shift,      \* the rename a rotation under way does next, Idle if none
    alive,      \* whether the process identity of the session still exists
    watching,   \* whether the directory watch is registered
    events      \* what the queued inotify events say (DirectoryEvents)

directoryVars == <<slot, newest, first, written, bracket, shift>>
watchVars == <<watching, events>>
sourceVars == <<directoryVars, alive, watchVars>>

None == 0
Idle == -1
Generation == 1..MaxGeneration
Rotation == 0..MaxRotation
NoEvents == [changed |-> FALSE, overflowed |-> FALSE, invalidated |-> FALSE]
DirectoryEvents ==
    [changed : BOOLEAN, overflowed : BOOLEAN, invalidated : BOOLEAN]

Linked(g) == \E r \in Rotation : slot[r] = g
Value(g, k) == first[g] + k
Latest == IF newest = None THEN 0 ELSE Value(newest, written[newest])

SourceInit ==
    /\ slot = [r \in Rotation |-> None]
    /\ newest = None
    /\ first = [g \in Generation |-> 0]
    /\ written = [g \in Generation |-> 0]
    /\ bracket = [g \in Generation |-> FALSE]
    /\ shift = Idle
    /\ alive = TRUE
    /\ watching = FALSE
    /\ events = NoEvents

\* Any operation on a file of the directory queues an event
Post ==
    /\ events' = IF watching THEN [events EXCEPT !.changed = TRUE] ELSE events
    /\ UNCHANGED watching

-----------------------------------------------------------------------------
(***************************************************************************)
(* bfusemon.  It writes the current report only; the record that crosses   *)
(* the size threshold is followed by the closing bracket, and then the     *)
(* files are renamed one by one, oldest first, and a new one is created.   *)
(***************************************************************************)
WriteRecord(last) ==
    /\ shift = Idle /\ newest # None /\ ~bracket[newest]
    /\ Latest < MaxRecords
    /\ written' = [written EXCEPT ![newest] = @ + 1]
    /\ bracket' = [bracket EXCEPT ![newest] = last]
    /\ Post
    /\ UNCHANGED <<slot, newest, first, shift, alive>>

\* The rotation starts above the oldest file, or by deleting it when the
\* directory already holds all the rotations
StartRotation ==
    /\ shift = Idle /\ newest < MaxGeneration
    /\ newest # None => bracket[newest]
    /\ shift' \in 0..(MaxRotation + 1)
    /\ \A r \in Rotation : slot[r] # None <=> r < shift'
    /\ UNCHANGED <<slot, newest, first, written, bracket, alive, watchVars>>

DeleteOldest ==
    /\ shift = MaxRotation + 1
    /\ slot' = [slot EXCEPT ![MaxRotation] = None]
    /\ shift' = MaxRotation
    /\ Post
    /\ UNCHANGED <<newest, first, written, bracket, alive>>

ShiftUp ==
    /\ shift \in 1..MaxRotation
    /\ slot' = [slot EXCEPT ![shift] = slot[shift - 1], ![shift - 1] = None]
    /\ shift' = shift - 1
    /\ Post
    /\ UNCHANGED <<newest, first, written, bracket, alive>>

CreateCurrent ==
    /\ shift = 0
    /\ newest' = newest + 1
    /\ slot' = [slot EXCEPT ![0] = newest']
    /\ first' = [first EXCEPT ![newest'] = Latest]
    /\ shift' = Idle
    /\ Post
    /\ UNCHANGED <<written, bracket, alive>>

\* The monitored process ends, or its PID goes to another process
EndProcess ==
    /\ alive
    /\ alive' = FALSE
    /\ UNCHANGED <<directoryVars, watchVars>>

Bfusemon ==
    \/ \E last \in BOOLEAN : WriteRecord(last)
    \/ StartRotation \/ DeleteOldest \/ ShiftUp \/ CreateCurrent
    \/ EndProcess

-----------------------------------------------------------------------------
(***************************************************************************)
(* What else happens to the watched directory.                             *)
(***************************************************************************)

\* An operation on a file that is no report of this process
UnrelatedActivity ==
    /\ "activity" \in Faults
    /\ Post
    /\ UNCHANGED <<directoryVars, alive>>

\* The queue is full: the kernel drops events and leaves an overflow event
QueueOverflow ==
    /\ "overflow" \in Faults /\ events.changed
    /\ events' = [events EXCEPT !.overflowed = TRUE]
    /\ UNCHANGED <<directoryVars, alive, watching>>

\* The directory is moved or removed, or the watch is
InvalidateWatch ==
    /\ "invalidate" \in Faults /\ watching
    /\ events' = [events EXCEPT !.changed = TRUE, !.invalidated = TRUE]
    /\ UNCHANGED <<directoryVars, alive, watching>>

Surroundings == UnrelatedActivity \/ QueueOverflow \/ InvalidateWatch

-----------------------------------------------------------------------------
(***************************************************************************)
(* The watcher's operations, as the session's steps use them.              *)
(***************************************************************************)
WatchReportDirectory == watching' = TRUE /\ events' = NoEvents
DrainEvents == events' = NoEvents /\ UNCHANGED watching
CloseWatch == watching' = FALSE /\ events' = NoEvents

SourceTypeOK ==
    /\ slot \in [Rotation -> Generation \cup {None}]
    /\ newest \in Generation \cup {None}
    /\ first \in [Generation -> Nat]
    /\ written \in [Generation -> Nat]
    /\ bracket \in [Generation -> BOOLEAN]
    /\ shift \in {Idle} \cup 0..(MaxRotation + 1)
    /\ shift # Idle => newest < MaxGeneration
    /\ alive \in BOOLEAN
    /\ watching \in BOOLEAN
    /\ events \in DirectoryEvents
=============================================================================
