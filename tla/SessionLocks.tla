----------------------------- MODULE SessionLocks -----------------------------
(***************************************************************************)
(* The locks of a published SourceSession (internal/source): several       *)
(* goroutines call Run, Reconcile, CurrentWatermarks, Close,               *)
(* AttachObserver and the accessors, and close the report directory, while *)
(* the record handler and the observer are called back.                    *)
(*                                                                         *)
(* A critical section is two steps, taking the lock and leaving it; what   *)
(* is read or written under the lock happens in one of the two.  The Go    *)
(* RWMutex is modelled with the rule that a writer that has asked for the  *)
(* lock keeps new readers out.                                             *)
(***************************************************************************)
EXTENDS Naturals

CONSTANTS Thread,         \* goroutines
          None,           \* no goroutine
          MayCall,        \* the operations each goroutine calls
          MaxActivity     \* bound: records and directory changes to come

Call == {"run", "reconcile", "watermarks", "close", "attach", "read", "dirClose"}

ASSUME NoneAssumption == None \notin Thread
ASSUME MayCallAssumption == MayCall \in [Thread -> SUBSET Call]
ASSUME MaxActivityAssumption == MaxActivity \in Nat

VARIABLES
    pc,             \* the step each goroutine takes next
    caller,         \* on whose behalf Reconcile runs
    ret,            \* where notify, a callback or an accessor returns to
    outcome,        \* the error of Reconcile
    again,          \* whether the pass has registered a generation
    op,             \* holder of operationMutex
    watch,          \* holder of DirectoryWatcher.mutex
    stateReaders,   \* readers of stateMutex
    stateWriter,    \* the goroutine that asked for, or has, stateMutex
    dirReaders,     \* readers of ReportDirectory.mutex
    dirWriter,      \* the goroutine that asked for ReportDirectory.mutex
    closed,         \* SourceSession.closed
    observer,       \* whether an observer is attached
    watching,       \* the inotify descriptor is open
    registryOpen,   \* registry.readers is not nil
    dirOpen,        \* the directory descriptor is open
    cancelled,      \* the context is cancelled
    ended,          \* the monitored process has ended
    activity        \* records and directory changes still to come

localVars == <<caller, ret, outcome, again>>
stateLock == <<stateReaders, stateWriter>>
dirLock == <<dirReaders, dirWriter>>
locks == <<op, watch, stateLock, dirLock>>
sessionVars == <<closed, observer, watching, registryOpen>>
outside == <<dirOpen, cancelled, ended, activity>>
vars == <<pc, localVars, locks, sessionVars, outside>>

Outcome == {"ok", "closed", "cancelled", "discontinuity", "other"}
Caller == {"user", "run", "drain", "final"}

RunSteps == {"run", "polling", "verify", "verifying"}
ReadSteps == {"verifying", "checking", "checkingMarks", "reading", "notifying"}
PassSteps == {"pass", "scan", "scanning", "drain", "handled", "events",
              "readingEvents", "overflow", "overflowing", "defer", "unlock"}
CloseSteps == {"marking", "mark", "closeWatcher", "closingWatcher", "closeRegistry",
               "closeUnlock"}
Step == RunSteps \cup ReadSteps \cup PassSteps \cup CloseSteps
        \cup {"idle", "reconcile", "check", "watermarks", "checkMarks", "marks",
              "close", "attach", "attaching", "read", "dirClose",
              "dirClosing", "notify", "callback"}

Goto(t, step) == pc' = [pc EXCEPT ![t] = step]
Back(t) == Goto(t, ret[t]) /\ ret' = [ret EXCEPT ![t] = "idle"]
At(t, step) == pc[t] = step

Init ==
    /\ pc = [t \in Thread |-> "idle"]
    /\ caller = [t \in Thread |-> "user"]
    /\ ret = [t \in Thread |-> "idle"]
    /\ outcome = [t \in Thread |-> "ok"]
    /\ again = [t \in Thread |-> FALSE]
    /\ op = None /\ watch = None
    /\ stateReaders = {} /\ stateWriter = None
    /\ dirReaders = {} /\ dirWriter = None
    /\ closed = FALSE /\ observer = FALSE
    /\ watching = TRUE /\ registryOpen = TRUE /\ dirOpen = TRUE
    /\ cancelled = FALSE /\ ended = FALSE
    /\ activity = MaxActivity

-----------------------------------------------------------------------------
(***************************************************************************)
(* Locks.                                                                  *)
(***************************************************************************)
LockOperation(t, from, to) ==
    /\ At(t, from) /\ op = None
    /\ op' = t
    /\ Goto(t, to)
    /\ UNCHANGED <<localVars, watch, stateLock, dirLock, sessionVars, outside>>

\* stateMutex.RLock
ReadState(t, from, to) ==
    /\ At(t, from) /\ stateWriter = None
    /\ stateReaders' = stateReaders \cup {t}
    /\ Goto(t, to)
    /\ UNCHANGED <<localVars, op, watch, stateWriter, dirLock, sessionVars, outside>>

LeaveState(t) ==
    /\ stateReaders' = stateReaders \ {t}
    /\ UNCHANGED <<op, watch, stateWriter, dirLock, sessionVars, outside>>

\* stateMutex.Lock: ask for the lock, which keeps new readers out
AskState(t, from, to) ==
    /\ At(t, from) /\ stateWriter = None
    /\ stateWriter' = t
    /\ Goto(t, to)
    /\ UNCHANGED <<localVars, op, watch, stateReaders, dirLock, sessionVars, outside>>

HoldsState(t) == stateWriter = t /\ stateReaders = {}

-----------------------------------------------------------------------------
(***************************************************************************)
(* Calls.  A goroutine that is not in a call starts one.                   *)
(***************************************************************************)
Start(t) ==
    /\ At(t, "idle")
    /\ \E call \in MayCall[t] : Goto(t, call)
    /\ UNCHANGED <<localVars, locks, sessionVars, outside>>

\* Identity, Cutover, NotificationOverflows
Read(t) == ReadState(t, "read", "reading")

Reading(t) ==
    /\ At(t, "reading")
    /\ LeaveState(t)
    /\ Back(t)
    /\ UNCHANGED <<caller, outcome, again>>

Attach(t) == AskState(t, "attach", "attaching")

\* a closed session and a second observer are refused
Attaching(t) ==
    /\ At(t, "attaching") /\ HoldsState(t)
    /\ observer' = (observer \/ ~closed)
    /\ stateWriter' = None
    /\ Back(t)
    /\ UNCHANGED <<caller, outcome, again, op, watch, stateReaders, dirLock, closed,
                   watching, registryOpen, outside>>

\* ReportDirectory.Close
DirClose(t) ==
    /\ At(t, "dirClose") /\ dirWriter = None
    /\ dirWriter' = t
    /\ Goto(t, "dirClosing")
    /\ UNCHANGED <<localVars, op, watch, stateLock, dirReaders, sessionVars, outside>>

DirClosing(t) ==
    /\ At(t, "dirClosing") /\ dirReaders = {}
    /\ dirOpen' = FALSE
    /\ dirWriter' = None
    /\ Goto(t, "idle")
    /\ UNCHANGED <<localVars, op, watch, stateLock, dirReaders, sessionVars, cancelled,
                   ended, activity>>

(***************************************************************************)
(* notify reads the observer under stateMutex and calls it outside; the    *)
(* observer and the record handler may call the session's accessors and    *)
(* AttachObserver, which take stateMutex only.                             *)
(***************************************************************************)
Notify(t) == ReadState(t, "notify", "notifying")

Notifying(t) ==
    /\ At(t, "notifying")
    /\ LeaveState(t)
    /\ IF observer THEN Goto(t, "callback") /\ UNCHANGED ret ELSE Back(t)
    /\ UNCHANGED <<caller, outcome, again>>

Callback(t) ==
    /\ At(t, "callback")
    /\ \/ Back(t)
       \/ Goto(t, "read") /\ UNCHANGED ret
       \/ Goto(t, "attach") /\ UNCHANGED ret
    /\ UNCHANGED <<caller, outcome, again, locks, sessionVars, outside>>

-----------------------------------------------------------------------------
(***************************************************************************)
(* Close.                                                                  *)
(***************************************************************************)

\* Mutant: Close does not wait for a reconciliation under way
CloseUnserialized(t) ==
    /\ At(t, "close")
    /\ Goto(t, "mark")
    /\ UNCHANGED <<localVars, locks, sessionVars, outside>>

Close(t) == LockOperation(t, "close", "mark")

Mark(t) == AskState(t, "mark", "marking")

\* stateMutex is released on both paths, by an Unlock each
MarkClosed(t, writerOfRepeatedClose) ==
    /\ At(t, "marking") /\ HoldsState(t)
    /\ closed' = TRUE
    /\ stateWriter' = IF closed THEN writerOfRepeatedClose ELSE None
    /\ Goto(t, IF closed THEN "closeUnlock" ELSE "closeWatcher")
    /\ UNCHANGED <<localVars, op, watch, stateReaders, dirLock, observer, watching,
                   registryOpen, outside>>

\* Mutant: a repeated Close returns with stateMutex still locked
MarkLeaks(t) == MarkClosed(t, t)

Marking(t) == MarkClosed(t, None)

\* DirectoryWatcher.Close waits for a poll or a drain of the watcher
CloseWatcher(t) ==
    /\ At(t, "closeWatcher") /\ watch = None
    /\ watch' = t
    /\ Goto(t, "closingWatcher")
    /\ UNCHANGED <<localVars, op, stateLock, dirLock, sessionVars, outside>>

ClosingWatcher(t) ==
    /\ At(t, "closingWatcher")
    /\ watching' = FALSE
    /\ watch' = None
    /\ Goto(t, "closeRegistry")
    /\ UNCHANGED <<localVars, op, stateLock, dirLock, closed, observer, registryOpen,
                   outside>>

CloseRegistry(t) ==
    /\ At(t, "closeRegistry")
    /\ registryOpen' = FALSE
    /\ op' = None
    /\ Goto(t, "idle")
    /\ UNCHANGED <<localVars, watch, stateLock, dirLock, closed, observer, watching, outside>>

\* a repeated Close
CloseUnlock(t) ==
    /\ At(t, "closeUnlock")
    /\ op' = None
    /\ Goto(t, "idle")
    /\ UNCHANGED <<localVars, watch, stateLock, dirLock, sessionVars, outside>>

CloseNext(t) ==
    \/ Close(t) \/ Mark(t) \/ Marking(t) \/ CloseWatcher(t) \/ ClosingWatcher(t)
    \/ CloseRegistry(t) \/ CloseUnlock(t)

-----------------------------------------------------------------------------
(***************************************************************************)
(* Reconcile, from a caller or from Run or DrainSource.                    *)
(***************************************************************************)
Reconcile(t) == LockOperation(t, "reconcile", "check")

Check(t) == ReadState(t, "check", "checking")

Checking(t) ==
    /\ At(t, "checking")
    /\ LeaveState(t)
    /\ outcome' = [outcome EXCEPT ![t] = IF closed THEN "closed" ELSE "ok"]
    /\ Goto(t, IF closed THEN "unlock" ELSE "pass")
    /\ UNCHANGED <<caller, ret, again>>

\* the pass ends with an error
Fail(t, error) ==
    /\ outcome' = [outcome EXCEPT ![t] = error]
    /\ Goto(t, "defer")
    /\ UNCHANGED <<caller, ret, again>>

Pass(t) ==
    /\ At(t, "pass")
    /\ \/ cancelled /\ Fail(t, "cancelled")
       \/ ~cancelled /\ Goto(t, "scan") /\ UNCHANGED localVars
    /\ UNCHANGED <<locks, sessionVars, outside>>

\* ReportDirectory.mutex.RLock and the check that the directory is open: once
\* to enumerate and once for every report
Scan(t) ==
    /\ At(t, "scan") /\ dirWriter = None
    /\ \/ /\ dirOpen
          /\ dirReaders' = dirReaders \cup {t}
          /\ Goto(t, "scanning")
          /\ UNCHANGED localVars
       \/ ~dirOpen /\ Fail(t, "other") /\ UNCHANGED dirReaders
    /\ UNCHANGED <<op, watch, stateLock, dirWriter, sessionVars, outside>>

\* there are more reports to open; or one is refused, or all are known, or the
\* registry takes a new generation, whose rotation is notified
RegisterReports(t, before) ==
    /\ At(t, "scanning")
    /\ dirReaders' = dirReaders \ {t}
    /\ \/ /\ activity > 0 /\ activity' = activity - 1
          /\ Goto(t, "scan") /\ UNCHANGED localVars
       \/ \E error \in {"discontinuity", "other"} : Fail(t, error) /\ UNCHANGED activity
       \/ /\ again' = [again EXCEPT ![t] = before]
          /\ Goto(t, "drain")
          /\ UNCHANGED <<caller, ret, outcome, activity>>
       \/ /\ activity > 0 /\ activity' = activity - 1
          /\ again' = [again EXCEPT ![t] = TRUE]
          /\ ret' = [ret EXCEPT ![t] = "drain"]
          /\ Goto(t, "notify")
          /\ UNCHANGED <<caller, outcome>>
    /\ UNCHANGED <<op, watch, stateLock, dirWriter, sessionVars, dirOpen, cancelled, ended>>

\* Mutant: the count of registered generations is not reset between passes
ScanningAccumulates(t) == RegisterReports(t, again[t])

Scanning(t) == RegisterReports(t, FALSE)

\* the readers are drained: a record is handed over, a reader fails, or all
\* are caught up
Drain(t) ==
    /\ At(t, "drain")
    /\ \/ /\ activity > 0 /\ activity' = activity - 1
          /\ ret' = [ret EXCEPT ![t] = "handled"]
          /\ Goto(t, "callback")
          /\ UNCHANGED <<caller, outcome, again>>
       \/ \E error \in {"discontinuity", "other"} : Fail(t, error) /\ UNCHANGED activity
       \/ Goto(t, "events") /\ UNCHANGED <<localVars, activity>>
    /\ UNCHANGED <<locks, sessionVars, dirOpen, cancelled, ended>>

Handled(t) ==
    /\ At(t, "handled")
    /\ \/ Fail(t, "other")
       \/ Goto(t, "drain") /\ UNCHANGED localVars
    /\ UNCHANGED <<locks, sessionVars, outside>>

\* DirectoryWatcher.Drain
Events(t) ==
    /\ At(t, "events") /\ watch = None
    /\ \/ watching /\ watch' = t /\ Goto(t, "readingEvents") /\ UNCHANGED localVars
       \/ ~watching /\ Fail(t, "other") /\ UNCHANGED watch
    /\ UNCHANGED <<op, stateLock, dirLock, sessionVars, outside>>

\* the watch is invalidated; or changed, maybe overflowed; or quiet
ReadingEvents(t) ==
    /\ At(t, "readingEvents")
    /\ watch' = None
    /\ \/ Fail(t, "other") /\ UNCHANGED activity
       \/ /\ activity > 0 /\ activity' = activity - 1
          /\ Goto(t, "pass") \/ Goto(t, "overflow")
          /\ UNCHANGED localVars
       \/ /\ Goto(t, IF again[t] THEN "pass" ELSE "defer")
          /\ UNCHANGED <<localVars, activity>>
    /\ UNCHANGED <<op, stateLock, dirLock, sessionVars, dirOpen, cancelled, ended>>

Overflow(t) == AskState(t, "overflow", "overflowing")

\* notificationOverflows++ and another pass
Overflowing(t) ==
    /\ At(t, "overflowing") /\ HoldsState(t)
    /\ stateWriter' = None
    /\ Goto(t, "pass")
    /\ UNCHANGED <<localVars, op, watch, stateReaders, dirLock, sessionVars, outside>>

DeferWith(t, holder) ==
    /\ At(t, "defer")
    /\ op' = holder
    /\ IF outcome[t] = "discontinuity"
       THEN ret' = [ret EXCEPT ![t] = "unlock"] /\ Goto(t, "notify")
       ELSE UNCHANGED ret /\ Goto(t, "unlock")
    /\ UNCHANGED <<caller, outcome, again, watch, stateLock, dirLock, sessionVars, outside>>

\* Mutant: operationMutex is given back before the discontinuity is notified
DeferUnlocksFirst(t) == DeferWith(t, None)

\* the deferred notifyDiscontinuity runs before the deferred Unlock
Defer(t) == DeferWith(t, op)

\* Run waits again after a success; DrainSource reconciles until its window
\* is over and once more, and reads the watermarks even if that was cancelled
Unlock(t) ==
    /\ At(t, "unlock")
    /\ op' = None
    /\ LET fine == outcome[t] = "ok"
           Go(step, for) == Goto(t, step) /\ caller' = [caller EXCEPT ![t] = for]
       IN
       \/ caller[t] = "run" /\ fine /\ Go("run", "user") /\ UNCHANGED activity
       \/ /\ caller[t] = "drain" /\ fine
          /\ activity > 0 /\ activity' = activity - 1
          /\ Go("reconcile", "drain")
       \/ caller[t] = "drain" /\ fine /\ Go("reconcile", "final") /\ UNCHANGED activity
       \/ /\ \/ caller[t] = "drain" /\ fine /\ cancelled
             \/ caller[t] = "user"
             \/ caller[t] = "final" /\ outcome[t] \notin {"ok", "cancelled"}
             \/ caller[t] \in {"run", "drain"} /\ ~fine
          /\ Go("idle", "user") /\ UNCHANGED activity
       \/ /\ caller[t] = "final" /\ outcome[t] \in {"ok", "cancelled"}
          /\ Go("watermarks", "final") /\ UNCHANGED activity
    /\ outcome' = [outcome EXCEPT ![t] = "ok"]
    /\ again' = [again EXCEPT ![t] = FALSE]
    /\ UNCHANGED <<ret, watch, stateLock, dirLock, sessionVars, dirOpen, cancelled, ended>>

ReconcileNext(t) ==
    \/ Reconcile(t) \/ Check(t) \/ Checking(t) \/ Pass(t) \/ Scan(t) \/ Scanning(t)
    \/ Drain(t) \/ Handled(t) \/ Events(t) \/ ReadingEvents(t)
    \/ Overflow(t) \/ Overflowing(t) \/ Defer(t) \/ Unlock(t)

-----------------------------------------------------------------------------
(***************************************************************************)
(* CurrentWatermarks; DrainSource then reports the generations that were   *)
(* not closed, after operationMutex is free again.                         *)
(***************************************************************************)
Watermarks(t) == LockOperation(t, "watermarks", "checkMarks")

CheckMarks(t) == ReadState(t, "checkMarks", "checkingMarks")

CheckingMarks(t) ==
    /\ At(t, "checkingMarks")
    /\ LeaveState(t)
    /\ outcome' = [outcome EXCEPT ![t] = IF closed THEN "closed" ELSE "ok"]
    /\ Goto(t, "marks")
    /\ UNCHANGED <<caller, ret, again>>

Marks(t) ==
    /\ At(t, "marks")
    /\ op' = None
    /\ \/ Goto(t, "idle")
       \/ caller[t] = "final" /\ outcome[t] = "ok" /\ Goto(t, "notify")
    /\ caller' = [caller EXCEPT ![t] = "user"]
    /\ outcome' = [outcome EXCEPT ![t] = "ok"]
    /\ UNCHANGED <<ret, again, watch, stateLock, dirLock, sessionVars, outside>>

(***************************************************************************)
(* Run waits for the watcher in slices, holding its mutex while it polls,  *)
(* then checks the process identity and reconciles.                        *)
(***************************************************************************)

WaitWith(t, holder) ==
    /\ At(t, "run") /\ watch = None
    /\ ~cancelled /\ watching
    /\ watch' = holder
    /\ Goto(t, "polling")
    /\ UNCHANGED <<localVars, op, stateLock, dirLock, sessionVars, outside>>

\* Mutant: the mutex only protects the check of the descriptor
WaitUnlocked(t) == WaitWith(t, None)

Wait(t) == WaitWith(t, t)

\* the context is done, or the descriptor is closed
WaitFails(t) ==
    /\ At(t, "run")
    /\ cancelled \/ (watch = None /\ ~watching)
    /\ Goto(t, "idle")
    /\ UNCHANGED <<localVars, locks, sessionVars, outside>>

\* maxWait is over
WaitOver(t) ==
    /\ At(t, "run") /\ ~cancelled
    /\ Goto(t, "verify")
    /\ UNCHANGED <<localVars, locks, sessionVars, outside>>

\* nothing within the slice, or readable, or an error
Polling(t) ==
    /\ At(t, "polling")
    /\ watch' = None
    /\ \E step \in {"run", "verify", "idle"} : Goto(t, step)
    /\ UNCHANGED <<localVars, op, stateLock, dirLock, sessionVars, outside>>

Verify(t) == ReadState(t, "verify", "verifying")

Verifying(t) ==
    /\ At(t, "verifying")
    /\ LeaveState(t)
    /\ caller' = [caller EXCEPT ![t] = IF ended THEN "drain" ELSE "run"]
    /\ Goto(t, "reconcile")
    /\ UNCHANGED <<ret, outcome, again>>

RunNext(t) ==
    \/ Wait(t) \/ WaitFails(t) \/ WaitOver(t) \/ Polling(t) \/ Verify(t) \/ Verifying(t)

MarksNext(t) ==
    \/ Watermarks(t) \/ CheckMarks(t) \/ CheckingMarks(t) \/ Marks(t)

LeafNext(t) ==
    \/ Read(t) \/ Reading(t) \/ Attach(t) \/ Attaching(t) \/ DirClose(t)
    \/ DirClosing(t) \/ Notify(t) \/ Notifying(t) \/ Callback(t)

Continue(t) == CloseNext(t) \/ ReconcileNext(t) \/ MarksNext(t) \/ RunNext(t) \/ LeafNext(t)

Cancel ==
    /\ ~cancelled /\ cancelled' = TRUE
    /\ UNCHANGED <<pc, localVars, locks, sessionVars, dirOpen, ended, activity>>

SourceEnds ==
    /\ ~ended /\ ended' = TRUE
    /\ UNCHANGED <<pc, localVars, locks, sessionVars, dirOpen, cancelled, activity>>

Next ==
    \/ \E t \in Thread : Start(t) \/ Continue(t)
    \/ Cancel \/ SourceEnds

Spec == Init /\ [][Next]_vars

\* A goroutine in a call is scheduled, and one that waits for a lock gets it
\* when it is free again and again: sync.Mutex hands the lock to a goroutine
\* that has waited for 1 ms, and RWMutex lets the readers that waited for a
\* writer in before the next one.  Callbacks return, and Wait looks at its
\* deadline between two slices.
FairSpec == Spec /\ \A t \in Thread : SF_vars(Continue(t)) /\ SF_vars(WaitOver(t))

-----------------------------------------------------------------------------
TypeOK ==
    /\ pc \in [Thread -> Step]
    /\ caller \in [Thread -> Caller]
    /\ ret \in [Thread -> {"idle", "drain", "handled", "unlock"}]
    /\ outcome \in [Thread -> Outcome] /\ again \in [Thread -> BOOLEAN]
    /\ op \in Thread \cup {None} /\ watch \in Thread \cup {None}
    /\ stateReaders \subseteq Thread /\ stateWriter \in Thread \cup {None}
    /\ dirReaders \subseteq Thread /\ dirWriter \in Thread \cup {None}
    /\ {closed, observer, watching, registryOpen, dirOpen, cancelled, ended} \subseteq BOOLEAN
    /\ activity \in Nat

Nested == {"notify", "notifying", "callback", "read", "reading", "attach", "attaching"}

\* t is inside Reconcile, CurrentWatermarks or Close, callbacks included
Operating(t) ==
    \/ pc[t] \in PassSteps \cup CloseSteps
                 \cup {"check", "checking", "checkMarks", "checkingMarks", "marks",
                       "mark"}
    \/ pc[t] \in Nested /\ ret[t] # "idle"

(***************************************************************************)
(* Every lock is held by exactly the goroutines whose next step is inside  *)
(* its critical section: no return path of Wait, Close, Reconcile or       *)
(* notify keeps a lock or gives one up early.                              *)
(***************************************************************************)
LocksFollowSteps ==
    \A t \in Thread :
        /\ op = t <=> Operating(t)
        /\ watch = t <=> pc[t] \in {"polling", "readingEvents", "closingWatcher"}
        /\ t \in stateReaders <=> pc[t] \in ReadSteps
        /\ stateWriter = t <=> pc[t] \in {"attaching", "marking", "overflowing"}
        /\ t \in dirReaders <=> pc[t] = "scanning"
        /\ dirWriter = t <=> pc[t] = "dirClosing"

\* the steps that use the registry of readers, their callbacks included
UsesSession(t) ==
    \/ pc[t] \in {"pass", "scan", "scanning", "drain", "handled",
                  "events", "readingEvents", "overflow", "overflowing"}
    \/ pc[t] = "marks" /\ outcome[t] = "ok"
    \/ pc[t] \in Nested /\ ret[t] \in {"drain", "handled"}

(***************************************************************************)
(* No reconciliation or reading of watermarks under way sees the session   *)
(* closed, and no two share the registry: what Reconcile learnt from the   *)
(* closed flag stays true until it returns, although stateMutex is long    *)
(* released (Reconcile, CurrentWatermarks, Close).                         *)
(***************************************************************************)
SessionUsedOpen ==
    \A t \in Thread : UsesSession(t) =>
        /\ ~closed /\ registryOpen
        /\ \A u \in Thread \ {t} : ~UsesSession(u)

(***************************************************************************)
(* A poll, a read of the watcher or an open of a report never uses a       *)
(* descriptor another goroutine closed after it was checked (Wait, Drain,  *)
(* OpenReport, readEntryNames, DirectoryWatcher.Close,                     *)
(* ReportDirectory.Close).                                                 *)
(***************************************************************************)
DescriptorsUsedOpen ==
    \A t \in Thread :
        /\ pc[t] \in {"polling", "readingEvents"} => watching
        /\ pc[t] = "scanning" => dirOpen

\* a Close that did the work has returned
Shut == closed /\ \A t \in Thread : pc[t] \notin CloseSteps

\* Reports a caller of DrainSource is about to notify
UncleanReport(t) == pc[t] \in {"notify", "notifying"} /\ ret[t] = "idle"

(***************************************************************************)
(* Once Close has returned no record is handled and no event is notified,  *)
(* but for the unclean-close report of a DrainSource under way, which      *)
(* notifies after it released operationMutex (Reconcile, notify).          *)
(***************************************************************************)
QuietAfterClose ==
    [][ \A t \in Thread :
          Shut /\ pc[t] # "callback" /\ pc'[t] = "callback" => UncleanReport(t) ]_vars

InRun(t) == pc[t] \in RunSteps \/ caller[t] = "run"

(***************************************************************************)
(* Every call returns, whatever the callbacks call under stateMutex: no    *)
(* set of goroutines waits for each other.  Run returns once the context   *)
(* is cancelled, the process has ended or the session is closed.           *)
(***************************************************************************)
CallsReturn ==
    \A t \in Thread :
        (pc[t] # "idle" /\ (InRun(t) => cancelled \/ ended \/ closed)) ~> pc[t] = "idle"
=============================================================================
