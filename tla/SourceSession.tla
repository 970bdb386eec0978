----------------------------- MODULE SourceSession -----------------------------
(***************************************************************************)
(* One source session, from InitializeSource through SourceSession.Run,    *)
(* Reconcile and DrainSource to Close (internal/source), against the       *)
(* report directory bfusemon keeps changing under it.                      *)
(*                                                                         *)
(* Init and live passes have one shape: check the context, enumerate the   *)
(* directory, open the reports one by one, register them, drain every      *)
(* registered reader oldest first, drain the watcher, then decide whether  *)
(* to go round again.  "stage" says on whose behalf the pass runs.         *)
(***************************************************************************)
EXTENDS ReportDirectory, CounterState, FiniteSets

CONSTANT CoarseClock    \* whether two reports may have equal modification times
ASSUME CoarseClockAssumption == CoarseClock \in BOOLEAN

VARIABLES
    stage,        \* InitializeSource, Run, DrainSource, its last pass, or closed
    pc,           \* the step the session takes next
    names,        \* ScanReports: rotations enumerated and not opened yet
    found,        \* ScanReports: discovered generation -> rotation
    rotation,     \* registry: generation -> rotation of its reader
    registered,   \* how many readers the pass registered
    todo,         \* readers the pass has still to drain
    reading,      \* the reader being drained, None between two readers
    applied,      \* records each reader committed
    closedSeen,   \* whether each reader consumed the closing bracket
    fds,          \* open descriptors on each generation
    cancelled,    \* the caller cancelled the context
    expired,      \* the timer of the stage ran out
    err,          \* why the session failed, "none" if it did not
    reported,     \* reasons of the discontinuities notified
    unclean       \* DrainSource: generations reported as not closed cleanly

VARIABLES
    base,         \* metrics.State: baseline of the counter series
    total,        \* what was added to the exported counter
    resets,       \* counter resets counted
    origin,       \* history: the highest value applied before counting started
    highest,      \* history: the highest value applied so far
    inOrder       \* history: no generation was read after a newer one

scanVars == <<names, found>>
registryVars == <<rotation, applied, closedSeen>>
passVars == <<registered, todo, reading>>
endVars == <<cancelled, expired, err, reported, unclean>>
metricVars == <<base, total, resets, origin, highest, inOrder>>
sessionVars == <<stage, pc, scanVars, registryVars, passVars, fds, endVars, metricVars>>
vars == <<sourceVars, sessionVars>>

NotFound == -1
Discontinuity == {"generation_truncated", "oversize_record", "stale_generation"}
Registered == {g \in Generation : rotation[g] # NotFound}
Found == {g \in Generation : found[g] # NotFound}
Mode == IF stage = "init" THEN "baseline" ELSE "live"

Init ==
    /\ SourceInit
    /\ stage = "init" /\ pc = "watch"
    /\ names = {} /\ found = [g \in Generation |-> NotFound]
    /\ rotation = [g \in Generation |-> NotFound]
    /\ applied = [g \in Generation |-> 0]
    /\ closedSeen = [g \in Generation |-> FALSE]
    /\ registered = 0 /\ todo = {} /\ reading = None
    /\ fds = [g \in Generation |-> 0]
    /\ cancelled = FALSE /\ expired = FALSE
    /\ err = "none" /\ reported = {} /\ unclean = {}
    /\ base = Unobserved /\ total = 0 /\ resets = 0
    /\ origin = 0 /\ highest = 0 /\ inOrder = TRUE

-----------------------------------------------------------------------------
(***************************************************************************)
(* Leaving a pass with an error.  Live passes notify the discontinuity the *)
(* error stands for; the caller closes the session.  DrainSource tolerates *)
(* a cancelled last pass and goes on to report unclean generations.        *)
(***************************************************************************)

\* Mutant: every error of a live pass is a discontinuity
FailReportsAll(reason) ==
    /\ err' = reason
    /\ reported' = IF stage # "init" THEN reported \cup {reason} ELSE reported
    /\ pc' = IF stage = "final" /\ reason = "cancelled" THEN "report" ELSE "close"
    /\ UNCHANGED <<cancelled, expired, unclean>>

\* notifyDiscontinuity knows three errors (discontinuityForError)
Fail(reason) ==
    /\ err' = reason
    /\ reported' = IF stage # "init" THEN reported \cup ({reason} \cap Discontinuity)
                   ELSE reported
    /\ pc' = IF stage = "final" /\ reason = "cancelled" THEN "report" ELSE "close"
    /\ UNCHANGED <<cancelled, expired, unclean>>

WatchDirectory ==
    /\ pc = "watch"
    /\ WatchReportDirectory
    /\ pc' = "check"
    /\ UNCHANGED <<directoryVars, alive, stage, scanVars, registryVars, passVars,
                   fds, endVars, metricVars>>

\* InitializeSource returns without a session
WatchFails ==
    /\ pc = "watch" /\ "error" \in Faults
    /\ err' = "other"
    /\ stage' = "closed" /\ pc' = "end"
    /\ UNCHANGED <<sourceVars, scanVars, registryVars, passVars, fds, cancelled,
                   expired, reported, unclean, metricVars>>

\* Mutant: the initialization timeout is left to waitForRescan
CheckCallerOnly ==
    /\ pc = "check" /\ ~cancelled
    /\ pc' = "names"
    /\ UNCHANGED <<sourceVars, stage, scanVars, registryVars, passVars, fds,
                   endVars, metricVars>>

\* Mutant: a pass under way ignores the caller
CheckTimeoutOnly ==
    /\ pc = "check" /\ ~(stage = "init" /\ expired)
    /\ pc' = "names"
    /\ UNCHANGED <<sourceVars, stage, scanVars, registryVars, passVars, fds,
                   endVars, metricVars>>

\* The context check at the head of the init loop and of Reconcile's loop
CheckContext ==
    /\ pc = "check" /\ ~cancelled
    /\ ~(stage = "init" /\ expired)
    /\ pc' = "names"
    /\ UNCHANGED <<sourceVars, stage, scanVars, registryVars, passVars, fds,
                   endVars, metricVars>>

ContextDone ==
    /\ pc \in {"check", "rescan", "wait"} \/ (pc = "pause" /\ ~expired)
    /\ \/ cancelled /\ Fail("cancelled")
       \/ stage = "init" /\ expired /\ Fail("timeout")
    /\ UNCHANGED <<sourceVars, stage, scanVars, registryVars, passVars, fds,
                   metricVars>>

-----------------------------------------------------------------------------
(***************************************************************************)
(* ScanReports.  The enumeration is one system call; the reports are       *)
(* opened by name afterwards, in whatever order it returned the names.     *)
(***************************************************************************)
ReadEntryNames ==
    /\ pc = "names"
    /\ names' = {r \in Rotation : slot[r] # None}
    /\ pc' = "open"
    /\ UNCHANGED <<sourceVars, stage, found, registryVars, passVars, fds, endVars,
                   metricVars>>

\* The file disappeared after the enumeration: left for the next rescan
OpenDisappeared(r) ==
    /\ pc = "open" /\ r \in names /\ slot[r] = None
    /\ names' = names \ {r}
    /\ UNCHANGED <<sourceVars, stage, pc, found, registryVars, passVars, fds,
                   endVars, metricVars>>

\* Mutant: a report found under two names keeps both descriptors
OpenReportTwice(r) ==
    /\ pc = "open" /\ r \in names /\ slot[r] # None
    /\ names' = names \ {r}
    /\ found' = [found EXCEPT ![slot[r]] = IF r > @ THEN r ELSE @]
    /\ fds' = [fds EXCEPT ![slot[r]] = @ + 1]
    /\ UNCHANGED <<sourceVars, stage, pc, registryVars, passVars, endVars,
                   metricVars>>

\* A generation already found under another name keeps the higher rotation,
\* and the second descriptor is closed again
OpenReport(r) ==
    /\ pc = "open" /\ r \in names /\ slot[r] # None
    /\ names' = names \ {r}
    /\ found' = [found EXCEPT ![slot[r]] = IF r > @ THEN r ELSE @]
    /\ fds' = [fds EXCEPT ![slot[r]] = IF slot[r] \in Found THEN @ ELSE @ + 1]
    /\ UNCHANGED <<sourceVars, stage, pc, registryVars, passVars, endVars,
                   metricVars>>

\* Any other error of an open or a validation fails the scan closed
ScanFails(reason) ==
    /\ pc = "open" /\ "error" \in Faults
    /\ reason \in {"stale_generation", "other"}
    /\ fds' = [g \in Generation |-> IF g \in Found THEN fds[g] - 1 ELSE fds[g]]
    /\ names' = {} /\ found' = [g \in Generation |-> NotFound]
    /\ Fail(reason)
    /\ UNCHANGED <<sourceVars, stage, registryVars, passVars, metricVars>>

\* Mutant: a pass drains the newly registered readers only
RegisterAndDrainNew ==
    /\ pc = "open" /\ names = {}
    /\ rotation' = [g \in Generation |->
                       IF found[g] > rotation[g] THEN found[g] ELSE rotation[g]]
    /\ fds' = [g \in Generation |->
                  IF g \in Found \cap Registered THEN fds[g] - 1 ELSE fds[g]]
    /\ registered' = Cardinality(Found \ Registered)
    /\ todo' = Found \ Registered
    /\ reading' = None
    /\ found' = [g \in Generation |-> NotFound]
    /\ pc' = "drain"
    /\ UNCHANGED <<sourceVars, stage, names, applied, closedSeen, endVars,
                   metricVars>>

\* register: new generations get a reader, which takes the descriptor over;
\* known ones keep theirs, and raise its rotation
RegisterFound ==
    /\ pc = "open" /\ names = {}
    /\ rotation' = [g \in Generation |->
                       IF found[g] > rotation[g] THEN found[g] ELSE rotation[g]]
    /\ fds' = [g \in Generation |->
                  IF g \in Found \cap Registered THEN fds[g] - 1 ELSE fds[g]]
    /\ registered' = Cardinality(Found \ Registered)
    /\ todo' = Found \cup Registered
    /\ reading' = None
    /\ found' = [g \in Generation |-> NotFound]
    /\ pc' = "drain"
    /\ UNCHANGED <<sourceVars, stage, names, applied, closedSeen, endVars,
                   metricVars>>

-----------------------------------------------------------------------------
(***************************************************************************)
(* OrderGenerationsOldestFirst: by rotation, then by the modification time *)
(* read when the descriptor was opened.  Of two reports seen at the same   *)
(* rotation the older one was opened before the younger one was created,   *)
(* so its time is lower, or the same on a coarse clock; then the inodes    *)
(* decide, which may be either way round.                                  *)
(***************************************************************************)

\* Mutant: the current report first
NewestFirst(g, h) ==
    \/ rotation[g] < rotation[h]
    \/ rotation[g] = rotation[h] /\ g < h /\ ~CoarseClock

Before(g, h) ==
    \/ rotation[g] > rotation[h]
    \/ rotation[g] = rotation[h] /\ g < h /\ ~CoarseClock

StartReader(g) ==
    /\ pc = "drain" /\ reading = None /\ g \in todo
    /\ \A h \in todo : ~Before(h, g)
    /\ reading' = g
    /\ UNCHANGED <<sourceVars, stage, pc, scanVars, registryVars, registered, todo,
                   fds, endVars, metricVars>>

\* generationReader.drain hands one record to Processor.Process, which applies
\* it to metrics.State, and commits it
ApplyRecord ==
    /\ pc = "drain" /\ reading # None
    /\ applied[reading] < written[reading]
    /\ LET k == applied[reading] + 1
           value == Value(reading, k)
       IN  /\ applied' = [applied EXCEPT ![reading] = k]
           /\ closedSeen' = [closedSeen EXCEPT ![reading] =
                                bracket[reading] /\ k = written[reading]]
           /\ base' = value
           /\ total' = total + Increment(Mode, base, value)
           /\ resets' = IF IsReset(Mode, base, value) THEN resets + 1 ELSE resets
           /\ inOrder' = (inOrder /\ highest <= Value(reading, written[reading]))
           /\ highest' = IF value > highest THEN value ELSE highest
           /\ origin' = IF Mode = "baseline" \/ base = Unobserved
                        THEN highest' ELSE origin
    /\ UNCHANGED <<sourceVars, stage, pc, scanVars, rotation, passVars, fds,
                   endVars>>

\* fstat finds no byte beyond the read offset, or the report is closed
FinishReader ==
    /\ pc = "drain" /\ reading # None
    /\ applied[reading] = written[reading]
    /\ todo' = todo \ {reading}
    /\ reading' = None
    /\ UNCHANGED <<sourceVars, stage, pc, scanVars, registryVars, registered, fds,
                   endVars, metricVars>>

\* Framing, size limit, truncation, read error, or a record the handler rejects
ReaderFails(reason) ==
    /\ pc = "drain" /\ reading # None /\ "error" \in Faults
    /\ reason \in {"generation_truncated", "oversize_record", "other"}
    /\ Fail(reason)
    /\ UNCHANGED <<sourceVars, stage, scanVars, registryVars, passVars, fds,
                   metricVars>>

AllDrained ==
    /\ pc = "drain" /\ todo = {}
    /\ pc' = "events"
    /\ UNCHANGED <<sourceVars, stage, scanVars, registryVars, passVars, fds,
                   endVars, metricVars>>

-----------------------------------------------------------------------------
(***************************************************************************)
(* watcher.Drain and the decision at the end of a pass.                    *)
(***************************************************************************)
WatchInvalidated ==
    /\ pc = "events" /\ events.invalidated
    /\ DrainEvents
    /\ Fail("invalidated")
    /\ UNCHANGED <<directoryVars, alive, stage, scanVars, registryVars, passVars,
                   fds, metricVars>>

\* Reading or polling the inotify descriptor fails
WatcherFails ==
    /\ pc \in {"events", "wait"} /\ "error" \in Faults
    /\ Fail("other")
    /\ UNCHANGED <<sourceVars, stage, scanVars, registryVars, passVars, fds,
                   metricVars>>

\* Mutant: queued events do not matter
NothingNew == registered = 0

\* Nothing was registered and nothing happened since the last Drain
PassIsStable == registered = 0 /\ ~events.changed

\* Baseline is established; the caller builds the pipeline and calls Run
CutOver ==
    /\ pc = "events" /\ ~events.invalidated
    /\ stage = "init" /\ PassIsStable /\ Registered # {}
    /\ DrainEvents
    /\ stage' = "run" /\ pc' = "wait" /\ expired' = FALSE
    /\ UNCHANGED <<directoryVars, alive, scanVars, registryVars, passVars, fds,
                   cancelled, err, reported, unclean, metricVars>>

\* Nothing to read yet
AwaitReport ==
    /\ pc = "events" /\ ~events.invalidated
    /\ stage = "init" /\ PassIsStable /\ Registered = {}
    /\ DrainEvents
    /\ pc' = "rescan"
    /\ UNCHANGED <<directoryVars, alive, stage, scanVars, registryVars, passVars,
                   fds, endVars, metricVars>>

\* Reconcile returns to Run or to DrainSource
Reconciled ==
    /\ pc = "events" /\ ~events.invalidated
    /\ stage # "init" /\ PassIsStable
    /\ DrainEvents
    /\ pc' = CASE stage = "run" -> "wait"
               [] stage = "drain" -> "pause"
               [] stage = "final" -> "report"
    /\ UNCHANGED <<directoryVars, alive, stage, scanVars, registryVars, passVars,
                   fds, endVars, metricVars>>

NextPass ==
    /\ pc = "events" /\ ~events.invalidated
    /\ ~PassIsStable
    /\ DrainEvents
    /\ pc' = "check"
    /\ UNCHANGED <<directoryVars, alive, stage, scanVars, registryVars, passVars,
                   fds, endVars, metricVars>>

-----------------------------------------------------------------------------
(***************************************************************************)
(* Between passes.                                                         *)
(***************************************************************************)

\* waitForRescan of the init loop: the rescan interval elapses
RescanInterval ==
    /\ pc = "rescan"
    /\ pc' = "check"
    /\ UNCHANGED <<sourceVars, stage, scanVars, registryVars, passVars, fds,
                   endVars, metricVars>>

\* Run: watcher.Wait returns, on an event or after the rescan interval
WaitReturns ==
    /\ pc = "wait"
    /\ pc' = "verify"
    /\ UNCHANGED <<sourceVars, stage, scanVars, registryVars, passVars, fds,
                   endVars, metricVars>>

IdentityHolds ==
    /\ pc = "verify" /\ alive
    /\ pc' = "check"
    /\ UNCHANGED <<sourceVars, stage, scanVars, registryVars, passVars, fds,
                   endVars, metricVars>>

\* The identity changed, or could not be read: DrainSource
SourceEnds ==
    /\ pc = "verify" /\ (~alive \/ "lookup" \in Faults)
    /\ stage' = "drain" /\ pc' = "check"
    /\ UNCHANGED <<sourceVars, scanVars, registryVars, passVars, fds, endVars,
                   metricVars>>

\* DrainSource waits for the rescan interval, or for what remains of the window
DrainAgain ==
    /\ pc = "pause" /\ ~expired
    /\ pc' = "check"
    /\ UNCHANGED <<sourceVars, stage, scanVars, registryVars, passVars, fds,
                   endVars, metricVars>>

DrainDeadline ==
    /\ pc = "pause" /\ expired
    /\ stage' = "final" /\ pc' = "check"
    /\ UNCHANGED <<sourceVars, scanVars, registryVars, passVars, fds, endVars,
                   metricVars>>

\* Mutant: a report read to its end counts as closed
ReportUnread ==
    /\ pc = "report"
    /\ unclean' = {g \in Registered : applied[g] < written[g]}
    /\ reported' = IF unclean' = {} THEN reported
                   ELSE reported \cup {"unclean_close"}
    /\ pc' = "close"
    /\ UNCHANGED <<sourceVars, stage, scanVars, registryVars, passVars, fds,
                   cancelled, expired, err, metricVars>>

\* The generations without a closing bracket are reported, in one event
ReportUnclean ==
    /\ pc = "report"
    /\ unclean' = {g \in Registered : ~closedSeen[g]}
    /\ reported' = IF unclean' = {} THEN reported
                   ELSE reported \cup {"unclean_close"}
    /\ pc' = "close"
    /\ UNCHANGED <<sourceVars, stage, scanVars, registryVars, passVars, fds,
                   cancelled, expired, err, metricVars>>

\* Close: the watcher, then every registered descriptor
Close ==
    /\ pc = "close"
    /\ CloseWatch
    /\ fds' = [g \in Generation |->
                  IF g \in Registered THEN fds[g] - 1 ELSE fds[g]]
    /\ rotation' = [g \in Generation |-> NotFound]
    /\ stage' = "closed" /\ pc' = "end"
    /\ UNCHANGED <<directoryVars, alive, scanVars, applied, closedSeen, passVars,
                   endVars, metricVars>>

-----------------------------------------------------------------------------
(***************************************************************************)
(* Timers and the caller.                                                  *)
(***************************************************************************)

\* The initialization timeout, or the source drain timeout
TimerExpires ==
    /\ stage \in {"init", "drain"} /\ ~expired
    /\ expired' = TRUE
    /\ UNCHANGED <<sourceVars, stage, pc, scanVars, registryVars, passVars, fds,
                   cancelled, err, reported, unclean, metricVars>>

Cancel ==
    /\ "cancel" \in Faults /\ ~cancelled /\ stage # "closed"
    /\ cancelled' = TRUE
    /\ UNCHANGED <<sourceVars, stage, pc, scanVars, registryVars, passVars, fds,
                   expired, err, reported, unclean, metricVars>>

Source == (Bfusemon \/ Surroundings) /\ UNCHANGED sessionVars

Scan ==
    \/ ReadEntryNames
    \/ \E r \in Rotation : OpenDisappeared(r) \/ OpenReport(r)
    \/ RegisterFound

Drain ==
    \/ \E g \in Generation : StartReader(g)
    \/ ApplyRecord \/ FinishReader \/ AllDrained

Decide == WatchInvalidated \/ CutOver \/ AwaitReport \/ Reconciled \/ NextPass

BetweenPasses ==
    \/ RescanInterval \/ WaitReturns \/ IdentityHolds \/ SourceEnds
    \/ DrainAgain \/ DrainDeadline \/ ReportUnclean

Step ==
    \/ WatchDirectory \/ CheckContext \/ ContextDone \/ Scan \/ Drain \/ Decide
    \/ BetweenPasses \/ Close

PassFails ==
    \/ \E reason \in Discontinuity \cup {"other"} :
           ScanFails(reason) \/ ReaderFails(reason)
    \/ WatchFails \/ WatcherFails

Next == Source \/ Step \/ PassFails \/ TimerExpires \/ Cancel

Spec == Init /\ [][Next]_vars

\* The exporter's goroutine keeps running and timers fire; nobody promises
\* that the source does anything.
FairSpec == Spec /\ WF_vars(Step) /\ WF_vars(TimerExpires)
-----------------------------------------------------------------------------
PassTypeOK ==
    /\ stage \in {"init", "run", "drain", "final", "closed"}
    /\ pc \in {"watch", "check", "names", "open", "drain", "events", "rescan",
              "wait", "verify", "pause", "report", "close", "end"}
    /\ stage = "closed" <=> pc = "end"
    /\ names \subseteq Rotation
    /\ found \in [Generation -> Rotation \cup {NotFound}]
    /\ registered \in Nat
    /\ todo \subseteq Generation
    /\ reading \in Generation \cup {None}

RegistryTypeOK ==
    /\ rotation \in [Generation -> Rotation \cup {NotFound}]
    /\ applied \in [Generation -> Nat]
    /\ closedSeen \in [Generation -> BOOLEAN]
    /\ fds \in [Generation -> Int]

EndTypeOK ==
    /\ cancelled \in BOOLEAN /\ expired \in BOOLEAN
    /\ err \in {"none", "cancelled", "timeout", "invalidated", "other"} \cup Discontinuity
    /\ reported \subseteq Discontinuity \cup {"unclean_close"}
    /\ unclean \subseteq Generation

MetricTypeOK ==
    /\ base \in Nat \cup {Unobserved} /\ total \in Nat /\ resets \in Nat
    /\ origin \in Nat /\ highest \in Nat /\ inOrder \in BOOLEAN

(***************************************************************************)
(* Types.  Of all errors only the discontinuities discontinuityForError    *)
(* knows, and unclean closes, are ever reported.                           *)
(***************************************************************************)
TypeOK == SourceTypeOK /\ PassTypeOK /\ RegistryTypeOK /\ EndTypeOK /\ MetricTypeOK

\* A pass has ended without error and the session waits
AtRest == pc \in {"rescan", "wait", "pause", "report"} /\ err = "none"

(***************************************************************************)
(* No lost wakeup: while the session rests and no event is queued, every   *)
(* report in the directory has a reader, and every reader has applied all  *)
(* there is, the closing bracket included.  So the cutover and every       *)
(* return of Reconcile stand at the true end of the source, and whatever   *)
(* is written later wakes the session (InitializeSource, Reconcile).       *)
(***************************************************************************)
CaughtUpWhenQuiet ==
    (AtRest /\ ~events.changed) =>
        /\ \A r \in Rotation : slot[r] # None => slot[r] \in Registered
        /\ \A g \in Registered :
              applied[g] = written[g] /\ closedSeen[g] = bracket[g]

\* The inductive invariant behind CaughtUpWhenQuiet: as long as no event was
\* queued since the watcher was drained, what a pass has done so far holds of
\* the directory as it is now.
WatchStands == watching <=> pc \notin {"watch", "end"}

WatermarksInFile ==
    \A g \in Generation :
        /\ applied[g] <= written[g]
        /\ closedSeen[g] <=> bracket[g] /\ applied[g] = written[g]

OpenedSoFar ==
    (~events.changed /\ pc = "open") =>
        \A r \in Rotation : slot[r] # None /\ r \notin names => slot[r] \in Found

DrainedSoFar ==
    (~events.changed /\ (pc \in {"drain", "events"} \/ AtRest)) =>
        /\ \A r \in Rotation : slot[r] # None => slot[r] \in Registered
        /\ \A g \in Registered :
              applied[g] = written[g] \/ (pc = "drain" /\ g \in todo)

PassInv ==
    /\ WatchStands
    /\ WatermarksInFile
    /\ pc = "events" => todo = {}
    /\ OpenedSoFar
    /\ DrainedSoFar

(***************************************************************************)
(* Every open report descriptor has one owner, the scan under way or the   *)
(* registry, whatever was found twice, was known already or failed, and    *)
(* none is left when the session is closed (ScanReports, register, Close). *)
(***************************************************************************)
DescriptorsAreOwned ==
    /\ \A g \in Generation :
          fds[g] = (IF g \in Found THEN 1 ELSE 0)
                   + (IF g \in Registered THEN 1 ELSE 0)
    /\ pc = "end" => ~watching /\ \A g \in Generation : fds[g] = 0

\* The inductive invariant behind DescriptorsAreOwned: found reports change
\* hands before the readers are drained, and nothing is registered before the
\* watch or after Close.
OwnerInv ==
    /\ DescriptorsAreOwned
    /\ pc # "open" => Found = {}
    /\ pc \in {"watch", "end"} => Registered = {}

(***************************************************************************)
(* In a pass during which the directory does not change, the readers of    *)
(* the reports still in it are drained in the order the reports were       *)
(* written, whatever rotations they were registered at (register,          *)
(* OrderGenerationsOldestFirst).                                           *)
(***************************************************************************)
QuietPassReadsOldestFirst ==
    (pc = "drain" /\ reading # None /\ Linked(reading) /\ ~events.changed) =>
        \A g \in todo : Linked(g) => g >= reading

\* The inductive invariant behind QuietPassReadsOldestFirst: files only move to
\* higher rotations, so what was noted of a report never exceeds the rotation
\* it has now, and is that rotation if no event was queued since.
SlotsHoldNewestFirst ==
    /\ \A r \in Rotation : slot[r] <= newest
    /\ \A r, s \in Rotation :
          r < s /\ slot[r] # None /\ slot[s] # None => slot[r] > slot[s]

SeenAreCreated ==
    \A g \in Generation : g > newest => found[g] = NotFound /\ rotation[g] = NotFound

RotationsLag ==
    \A r \in Rotation : slot[r] # None => found[slot[r]] <= r /\ rotation[slot[r]] <= r

RotationsAreCurrent ==
    ~events.changed =>
        \A r \in Rotation : slot[r] # None =>
            /\ pc = "open" /\ r \notin names => found[slot[r]] = r
            /\ pc = "drain" => rotation[slot[r]] = r

OrderInv ==
    /\ SlotsHoldNewestFirst
    /\ SeenAreCreated
    /\ RotationsLag
    /\ RotationsAreCurrent
    /\ QuietPassReadsOldestFirst

(***************************************************************************)
(* As long as no generation is read after a newer one, the exported total  *)
(* is the increase since counting started, over any number of passes,      *)
(* rotations and rescans: nothing counted twice, nothing skipped, no       *)
(* reset seen where there was none (State.Apply, register, Commit).        *)
(***************************************************************************)
CountsEachIncreaseOnce ==
    inOrder => /\ resets = 0
               /\ base # Unobserved => base = highest /\ total = highest - origin

\* The inductive invariant behind CountsEachIncreaseOnce: the generations
\* continue each other's counter, so a value that is no higher than the end of
\* a generation comes from that generation or an older one.
GenerationsContinue ==
    /\ \A g \in Generation : g > newest => first[g] = 0 /\ written[g] = 0
    /\ \A g, h \in Generation :
          g < h /\ h <= newest => Value(g, written[g]) <= first[h]

HighestWasApplied ==
    /\ highest <= Latest
    /\ \A g \in Generation :
          highest <= Value(g, written[g]) => highest <= Value(g, applied[g])

CountInv ==
    /\ GenerationsContinue
    /\ HighestWasApplied
    /\ stage = "init" \/ base = Unobserved => total = 0
    /\ CountsEachIncreaseOnce

(***************************************************************************)
(* DrainSource reports as unclean exactly the generations that have no     *)
(* closing bracket: those still in the directory all of them, unless the   *)
(* directory changed after the last pass or that pass was cancelled.       *)
(***************************************************************************)
UncleanReportIsExact ==
    (pc = "close" /\ stage = "final" /\ err = "none" /\ ~events.changed) =>
        /\ unclean = {g \in Registered : ~bracket[g]}
        /\ \A g \in Generation : Linked(g) /\ ~bracket[g] => g \in unclean

\* The inductive invariant behind UncleanReportIsExact: what the last pass
\* found holds until the session is closed, as long as no event is queued.
UncleanInv ==
    (pc = "close" /\ err = "none" /\ ~events.changed) =>
        /\ \A r \in Rotation : slot[r] # None => slot[r] \in Registered
        /\ \A g \in Registered : applied[g] = written[g]
        /\ unclean = {g \in Registered : ~closedSeen[g]}

(***************************************************************************)
(* InitializeSource returns, with a session or an error, whatever goes on  *)
(* in the directory: its timeout is checked in every pass.                 *)
(***************************************************************************)
InitializationEnds == stage = "init" ~> stage # "init"

(***************************************************************************)
(* A cancelled session is closed, whatever goes on in the directory.       *)
(***************************************************************************)
CancelCloses == cancelled ~> stage = "closed"

(***************************************************************************)
(* A record written while the session runs is applied, unless its report   *)
(* left the directory before any scan opened it, or the session ends.      *)
(***************************************************************************)
RecordsAreApplied ==
    \A g \in Generation : \A k \in 1..MaxRecords :
        (stage = "run" /\ written[g] >= k) ~>
            (\/ applied[g] >= k \/ stage \notin {"run", "drain", "final"}
             \/ ~Linked(g) /\ g \notin Registered)
=============================================================================
