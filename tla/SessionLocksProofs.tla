------------------------- MODULE SessionLocksProofs -------------------------
(***************************************************************************)
(* The locks of a session exclude each other, for any number of goroutines *)
(* and whatever each of them calls.  Every lock is held by exactly the     *)
(* goroutines inside its critical section (LocksFollowSteps), which is     *)
(* inductive together with the discipline of returns (ReturnsHome); what   *)
(* was checked under a lock then stays true until the lock is left         *)
(* (OpenInUse, ClosedInOrder), because only the holder can change it.      *)
(***************************************************************************)
EXTENDS SessionLocks, TLAPS

\* Only a nested call has a step to return to, and Close has marked the
\* session before it takes anything apart.
ReturnsHome ==
    \A t \in Thread :
        /\ pc[t] \notin Nested => ret[t] = "idle"
        /\ pc[t] \in {"closeWatcher", "closingWatcher", "closeRegistry"} => closed

\* t has found the session open and still holds operationMutex
InUse(t) ==
    \/ pc[t] \in PassSteps \ {"unlock"}
    \/ pc[t] = "marks" /\ outcome[t] = "ok"
    \/ pc[t] \in Nested /\ ret[t] # "idle"

OpenInUse == \A t \in Thread : InUse(t) => ~closed

\* Only a session marked as closed is taken apart.
ClosedInOrder == ~watching \/ ~registryOpen => closed

LocksInv ==
    /\ TypeOK /\ ReturnsHome /\ LocksFollowSteps
    /\ OpenInUse /\ ClosedInOrder /\ DescriptorsUsedOpen

LEMMA LocksInvInit == Init => LocksInv
  <1> SUFFICES ASSUME Init PROVE LocksInv
    OBVIOUS
  <1> USE NoneAssumption DEF Init
  <1>1. /\ closed = FALSE /\ observer = FALSE /\ cancelled = FALSE /\ ended = FALSE
        /\ watching = TRUE /\ registryOpen = TRUE /\ dirOpen = TRUE
    BY Zenon
  <1>2. {closed, observer, watching, registryOpen, dirOpen, cancelled, ended}
            \subseteq BOOLEAN
    BY <1>1, Zenon
  <1>3. again \in [Thread -> BOOLEAN]
    BY Zenon
  <1>4. TypeOK
    BY <1>2, <1>3, MaxActivityAssumption DEF TypeOK, Step, Caller, Outcome
  <1>5. ReturnsHome
    BY DEF ReturnsHome
  <1>6. LocksFollowSteps
    BY DEF LocksFollowSteps, Operating, Nested, ReadSteps, PassSteps, CloseSteps
  <1>7. OpenInUse /\ ClosedInOrder /\ DescriptorsUsedOpen
    BY DEF OpenInUse, ClosedInOrder, DescriptorsUsedOpen
  <1> QED
    BY <1>4, <1>5, <1>6, <1>7 DEF LocksInv

LEMMA ThreadKeepsType ==
    ASSUME TypeOK, NEW t \in Thread, Start(t) \/ Continue(t)
    PROVE TypeOK'
  <1> USE NoneAssumption, MayCallAssumption DEF TypeOK, Goto, At, Step,
      RunSteps, ReadSteps, PassSteps, CloseSteps, Caller, Outcome, Call, vars,
      localVars, locks, stateLock, dirLock, sessionVars, outside
  <1>1. CASE Start(t)
    BY <1>1 DEF Start
  <1>2. CASE Close(t)
    BY <1>2 DEF Close, LockOperation
  <1>3. CASE Mark(t)
    BY <1>3 DEF Mark, AskState
  <1>4. CASE Marking(t)
    BY <1>4 DEF Marking, MarkClosed, HoldsState
  <1>5. CASE CloseWatcher(t)
    BY <1>5 DEF CloseWatcher
  <1>6. CASE ClosingWatcher(t)
    BY <1>6 DEF ClosingWatcher
  <1>7. CASE CloseRegistry(t)
    BY <1>7 DEF CloseRegistry
  <1>8. CASE CloseUnlock(t)
    BY <1>8 DEF CloseUnlock
  <1>9. CASE Reconcile(t)
    BY <1>9 DEF Reconcile, LockOperation
  <1>10. CASE Check(t)
    BY <1>10 DEF Check, ReadState
  <1>11. CASE Checking(t)
    BY <1>11 DEF Checking, LeaveState
  <1>12. CASE Pass(t)
    BY <1>12 DEF Pass, Fail
  <1>13. CASE Scan(t)
    BY <1>13 DEF Scan, Fail
  <1>14. CASE Scanning(t)
    <2>1. again' = [again EXCEPT ![t] = FALSE] \/ again' = [again EXCEPT ![t] = TRUE]
          \/ again' = again
      BY <1>14 DEF Scanning, RegisterReports, Fail
    <2>2. again' \in [Thread -> BOOLEAN]
      BY <2>1, Zenon
    <2> QED
      BY <1>14, <2>2 DEF Scanning, RegisterReports, Fail
  <1>15. CASE Drain(t)
    BY <1>15 DEF Drain, Fail
  <1>16. CASE Handled(t)
    BY <1>16 DEF Handled, Fail
  <1>17. CASE Events(t)
    BY <1>17 DEF Events, Fail
  <1>18. CASE ReadingEvents(t)
    BY <1>18 DEF ReadingEvents, Fail
  <1>19. CASE Overflow(t)
    BY <1>19 DEF Overflow, AskState
  <1>20. CASE Overflowing(t)
    BY <1>20 DEF Overflowing, HoldsState
  <1>21. CASE Defer(t)
    BY <1>21 DEF Defer, DeferWith
  <1>22. CASE Unlock(t)
    BY <1>22 DEF Unlock
  <1>23. CASE Watermarks(t)
    BY <1>23 DEF Watermarks, LockOperation
  <1>24. CASE CheckMarks(t)
    BY <1>24 DEF CheckMarks, ReadState
  <1>25. CASE CheckingMarks(t)
    BY <1>25 DEF CheckingMarks, LeaveState
  <1>26. CASE Marks(t)
    BY <1>26 DEF Marks
  <1>27. CASE Wait(t)
    BY <1>27 DEF Wait, WaitWith
  <1>28. CASE WaitFails(t)
    BY <1>28 DEF WaitFails
  <1>29. CASE WaitOver(t)
    BY <1>29 DEF WaitOver
  <1>30. CASE Polling(t)
    BY <1>30 DEF Polling
  <1>31. CASE Verify(t)
    BY <1>31 DEF Verify, ReadState
  <1>32. CASE Verifying(t)
    BY <1>32 DEF Verifying, LeaveState
  <1>33. CASE Read(t)
    BY <1>33 DEF Read, ReadState
  <1>34. CASE Reading(t)
    BY <1>34 DEF Reading, LeaveState, Back
  <1>35. CASE Attach(t)
    BY <1>35 DEF Attach, AskState
  <1>36. CASE Attaching(t)
    BY <1>36 DEF Attaching, HoldsState, Back
  <1>37. CASE DirClose(t)
    BY <1>37 DEF DirClose
  <1>38. CASE DirClosing(t)
    BY <1>38 DEF DirClosing
  <1>39. CASE Notify(t)
    BY <1>39 DEF Notify, ReadState
  <1>40. CASE Notifying(t)
    BY <1>40 DEF Notifying, LeaveState, Back
  <1>41. CASE Callback(t)
    BY <1>41 DEF Callback, Back
  <1> QED
    BY <1>1, <1>2, <1>3, <1>4, <1>5, <1>6, <1>7, <1>8, <1>9, <1>10, <1>11, <1>12,
        <1>13, <1>14, <1>15, <1>16, <1>17, <1>18, <1>19, <1>20, <1>21, <1>22, <1>23,
        <1>24, <1>25, <1>26, <1>27, <1>28, <1>29, <1>30, <1>31, <1>32, <1>33, <1>34,
        <1>35, <1>36, <1>37, <1>38, <1>39, <1>40, <1>41
    DEF Continue, CloseNext, ReconcileNext, MarksNext, RunNext, LeafNext

LEMMA ThreadReturnsHome ==
    ASSUME TypeOK, ReturnsHome, NEW t \in Thread, Start(t) \/ Continue(t)
    PROVE ReturnsHome'
  <1> USE NoneAssumption, MayCallAssumption DEF ReturnsHome, TypeOK, Goto, At,
      Nested, Call, vars, localVars, locks, stateLock, dirLock, sessionVars,
      outside
  <1>1. CASE Start(t)
    BY <1>1 DEF Start
  <1>2. CASE Close(t)
    BY <1>2 DEF Close, LockOperation
  <1>3. CASE Mark(t)
    BY <1>3 DEF Mark, AskState
  <1>4. CASE Marking(t)
    BY <1>4 DEF Marking, MarkClosed, HoldsState
  <1>5. CASE CloseWatcher(t)
    BY <1>5 DEF CloseWatcher
  <1>6. CASE ClosingWatcher(t)
    BY <1>6 DEF ClosingWatcher
  <1>7. CASE CloseRegistry(t)
    BY <1>7 DEF CloseRegistry
  <1>8. CASE CloseUnlock(t)
    BY <1>8 DEF CloseUnlock
  <1>9. CASE Reconcile(t)
    BY <1>9 DEF Reconcile, LockOperation
  <1>10. CASE Check(t)
    BY <1>10 DEF Check, ReadState
  <1>11. CASE Checking(t)
    BY <1>11 DEF Checking, LeaveState
  <1>12. CASE Pass(t)
    BY <1>12 DEF Pass, Fail
  <1>13. CASE Scan(t)
    BY <1>13 DEF Scan, Fail
  <1>14. CASE Scanning(t)
    BY <1>14 DEF Scanning, RegisterReports, Fail
  <1>15. CASE Drain(t)
    BY <1>15 DEF Drain, Fail
  <1>16. CASE Handled(t)
    BY <1>16 DEF Handled, Fail
  <1>17. CASE Events(t)
    BY <1>17 DEF Events, Fail
  <1>18. CASE ReadingEvents(t)
    BY <1>18 DEF ReadingEvents, Fail
  <1>19. CASE Overflow(t)
    BY <1>19 DEF Overflow, AskState
  <1>20. CASE Overflowing(t)
    BY <1>20 DEF Overflowing, HoldsState
  <1>21. CASE Defer(t)
    BY <1>21 DEF Defer, DeferWith
  <1>22. CASE Unlock(t)
    BY <1>22 DEF Unlock
  <1>23. CASE Watermarks(t)
    BY <1>23 DEF Watermarks, LockOperation
  <1>24. CASE CheckMarks(t)
    BY <1>24 DEF CheckMarks, ReadState
  <1>25. CASE CheckingMarks(t)
    BY <1>25 DEF CheckingMarks, LeaveState
  <1>26. CASE Marks(t)
    BY <1>26 DEF Marks
  <1>27. CASE Wait(t)
    BY <1>27 DEF Wait, WaitWith
  <1>28. CASE WaitFails(t)
    BY <1>28 DEF WaitFails
  <1>29. CASE WaitOver(t)
    BY <1>29 DEF WaitOver
  <1>30. CASE Polling(t)
    BY <1>30 DEF Polling
  <1>31. CASE Verify(t)
    BY <1>31 DEF Verify, ReadState
  <1>32. CASE Verifying(t)
    BY <1>32 DEF Verifying, LeaveState
  <1>33. CASE Read(t)
    BY <1>33 DEF Read, ReadState
  <1>34. CASE Reading(t)
    BY <1>34 DEF Reading, LeaveState, Back
  <1>35. CASE Attach(t)
    BY <1>35 DEF Attach, AskState
  <1>36. CASE Attaching(t)
    BY <1>36 DEF Attaching, HoldsState, Back
  <1>37. CASE DirClose(t)
    BY <1>37 DEF DirClose
  <1>38. CASE DirClosing(t)
    BY <1>38 DEF DirClosing
  <1>39. CASE Notify(t)
    BY <1>39 DEF Notify, ReadState
  <1>40. CASE Notifying(t)
    BY <1>40 DEF Notifying, LeaveState, Back
  <1>41. CASE Callback(t)
    BY <1>41 DEF Callback, Back
  <1> QED
    BY <1>1, <1>2, <1>3, <1>4, <1>5, <1>6, <1>7, <1>8, <1>9, <1>10, <1>11, <1>12,
        <1>13, <1>14, <1>15, <1>16, <1>17, <1>18, <1>19, <1>20, <1>21, <1>22, <1>23,
        <1>24, <1>25, <1>26, <1>27, <1>28, <1>29, <1>30, <1>31, <1>32, <1>33, <1>34,
        <1>35, <1>36, <1>37, <1>38, <1>39, <1>40, <1>41
    DEF Continue, CloseNext, ReconcileNext, MarksNext, RunNext, LeafNext

LEMMA ThreadFollowsLocks ==
    ASSUME TypeOK, ReturnsHome, LocksFollowSteps, NEW t \in Thread, Start(t) \/ Continue(t)
    PROVE LocksFollowSteps'
  <1> USE NoneAssumption, MayCallAssumption DEF LocksFollowSteps, Operating,
      ReturnsHome, TypeOK, Goto, At, Nested, Call, RunSteps, ReadSteps,
      PassSteps, CloseSteps, vars, localVars, locks, stateLock, dirLock,
      sessionVars, outside
  <1>1. CASE Start(t)
    BY <1>1 DEF Start
  <1>2. CASE Close(t)
    BY <1>2 DEF Close, LockOperation
  <1>3. CASE Mark(t)
    BY <1>3 DEF Mark, AskState
  <1>4. CASE Marking(t)
    BY <1>4 DEF Marking, MarkClosed, HoldsState
  <1>5. CASE CloseWatcher(t)
    BY <1>5 DEF CloseWatcher
  <1>6. CASE ClosingWatcher(t)
    BY <1>6 DEF ClosingWatcher
  <1>7. CASE CloseRegistry(t)
    BY <1>7 DEF CloseRegistry
  <1>8. CASE CloseUnlock(t)
    BY <1>8 DEF CloseUnlock
  <1>9. CASE Reconcile(t)
    BY <1>9 DEF Reconcile, LockOperation
  <1>10. CASE Check(t)
    BY <1>10 DEF Check, ReadState
  <1>11. CASE Checking(t)
    BY <1>11 DEF Checking, LeaveState
  <1>12. CASE Pass(t)
    BY <1>12 DEF Pass, Fail
  <1>13. CASE Scan(t)
    BY <1>13 DEF Scan, Fail
  <1>14. CASE Scanning(t)
    BY <1>14 DEF Scanning, RegisterReports, Fail
  <1>15. CASE Drain(t)
    BY <1>15 DEF Drain, Fail
  <1>16. CASE Handled(t)
    BY <1>16 DEF Handled, Fail
  <1>17. CASE Events(t)
    BY <1>17 DEF Events, Fail
  <1>18. CASE ReadingEvents(t)
    BY <1>18 DEF ReadingEvents, Fail
  <1>19. CASE Overflow(t)
    BY <1>19 DEF Overflow, AskState
  <1>20. CASE Overflowing(t)
    BY <1>20 DEF Overflowing, HoldsState
  <1>21. CASE Defer(t)
    BY <1>21 DEF Defer, DeferWith
  <1>22. CASE Unlock(t)
    BY <1>22 DEF Unlock
  <1>23. CASE Watermarks(t)
    BY <1>23 DEF Watermarks, LockOperation
  <1>24. CASE CheckMarks(t)
    BY <1>24 DEF CheckMarks, ReadState
  <1>25. CASE CheckingMarks(t)
    BY <1>25 DEF CheckingMarks, LeaveState
  <1>26. CASE Marks(t)
    BY <1>26 DEF Marks
  <1>27. CASE Wait(t)
    BY <1>27 DEF Wait, WaitWith
  <1>28. CASE WaitFails(t)
    BY <1>28 DEF WaitFails
  <1>29. CASE WaitOver(t)
    BY <1>29 DEF WaitOver
  <1>30. CASE Polling(t)
    BY <1>30 DEF Polling
  <1>31. CASE Verify(t)
    BY <1>31 DEF Verify, ReadState
  <1>32. CASE Verifying(t)
    BY <1>32 DEF Verifying, LeaveState
  <1>33. CASE Read(t)
    BY <1>33 DEF Read, ReadState
  <1>34. CASE Reading(t)
    BY <1>34 DEF Reading, LeaveState, Back
  <1>35. CASE Attach(t)
    BY <1>35 DEF Attach, AskState
  <1>36. CASE Attaching(t)
    BY <1>36 DEF Attaching, HoldsState, Back
  <1>37. CASE DirClose(t)
    BY <1>37 DEF DirClose
  <1>38. CASE DirClosing(t)
    BY <1>38 DEF DirClosing
  <1>39. CASE Notify(t)
    BY <1>39 DEF Notify, ReadState
  <1>40. CASE Notifying(t)
    BY <1>40 DEF Notifying, LeaveState, Back
  <1>41. CASE Callback(t)
    BY <1>41 DEF Callback, Back
  <1> QED
    BY <1>1, <1>2, <1>3, <1>4, <1>5, <1>6, <1>7, <1>8, <1>9, <1>10, <1>11, <1>12,
        <1>13, <1>14, <1>15, <1>16, <1>17, <1>18, <1>19, <1>20, <1>21, <1>22, <1>23,
        <1>24, <1>25, <1>26, <1>27, <1>28, <1>29, <1>30, <1>31, <1>32, <1>33, <1>34,
        <1>35, <1>36, <1>37, <1>38, <1>39, <1>40, <1>41
    DEF Continue, CloseNext, ReconcileNext, MarksNext, RunNext, LeafNext

LEMMA ThreadUsesOpen ==
    ASSUME LocksInv, NEW t \in Thread, Start(t) \/ Continue(t)
    PROVE OpenInUse' /\ ClosedInOrder' /\ DescriptorsUsedOpen'
  <1> USE NoneAssumption, MayCallAssumption DEF LocksInv, OpenInUse, InUse,
      ClosedInOrder, DescriptorsUsedOpen, LocksFollowSteps, Operating,
      ReturnsHome, TypeOK, Goto, At, Nested, Call, RunSteps, ReadSteps,
      PassSteps, CloseSteps, vars, localVars, locks, stateLock, dirLock,
      sessionVars, outside
  <1>1. CASE Start(t)
    BY <1>1 DEF Start
  <1>2. CASE Close(t)
    BY <1>2 DEF Close, LockOperation
  <1>3. CASE Mark(t)
    BY <1>3 DEF Mark, AskState
  <1>4. CASE Marking(t)
    BY <1>4 DEF Marking, MarkClosed, HoldsState
  <1>5. CASE CloseWatcher(t)
    BY <1>5 DEF CloseWatcher
  <1>6. CASE ClosingWatcher(t)
    BY <1>6 DEF ClosingWatcher
  <1>7. CASE CloseRegistry(t)
    BY <1>7 DEF CloseRegistry
  <1>8. CASE CloseUnlock(t)
    BY <1>8 DEF CloseUnlock
  <1>9. CASE Reconcile(t)
    BY <1>9 DEF Reconcile, LockOperation
  <1>10. CASE Check(t)
    BY <1>10 DEF Check, ReadState
  <1>11. CASE Checking(t)
    BY <1>11 DEF Checking, LeaveState
  <1>12. CASE Pass(t)
    BY <1>12 DEF Pass, Fail
  <1>13. CASE Scan(t)
    BY <1>13 DEF Scan, Fail
  <1>14. CASE Scanning(t)
    BY <1>14 DEF Scanning, RegisterReports, Fail
  <1>15. CASE Drain(t)
    BY <1>15 DEF Drain, Fail
  <1>16. CASE Handled(t)
    BY <1>16 DEF Handled, Fail
  <1>17. CASE Events(t)
    BY <1>17 DEF Events, Fail
  <1>18. CASE ReadingEvents(t)
    BY <1>18 DEF ReadingEvents, Fail
  <1>19. CASE Overflow(t)
    BY <1>19 DEF Overflow, AskState
  <1>20. CASE Overflowing(t)
    BY <1>20 DEF Overflowing, HoldsState
  <1>21. CASE Defer(t)
    BY <1>21 DEF Defer, DeferWith
  <1>22. CASE Unlock(t)
    BY <1>22 DEF Unlock
  <1>23. CASE Watermarks(t)
    BY <1>23 DEF Watermarks, LockOperation
  <1>24. CASE CheckMarks(t)
    BY <1>24 DEF CheckMarks, ReadState
  <1>25. CASE CheckingMarks(t)
    BY <1>25 DEF CheckingMarks, LeaveState
  <1>26. CASE Marks(t)
    BY <1>26 DEF Marks
  <1>27. CASE Wait(t)
    BY <1>27 DEF Wait, WaitWith
  <1>28. CASE WaitFails(t)
    BY <1>28 DEF WaitFails
  <1>29. CASE WaitOver(t)
    BY <1>29 DEF WaitOver
  <1>30. CASE Polling(t)
    BY <1>30 DEF Polling
  <1>31. CASE Verify(t)
    BY <1>31 DEF Verify, ReadState
  <1>32. CASE Verifying(t)
    BY <1>32 DEF Verifying, LeaveState
  <1>33. CASE Read(t)
    BY <1>33 DEF Read, ReadState
  <1>34. CASE Reading(t)
    BY <1>34 DEF Reading, LeaveState, Back
  <1>35. CASE Attach(t)
    BY <1>35 DEF Attach, AskState
  <1>36. CASE Attaching(t)
    BY <1>36 DEF Attaching, HoldsState, Back
  <1>37. CASE DirClose(t)
    BY <1>37 DEF DirClose
  <1>38. CASE DirClosing(t)
    BY <1>38 DEF DirClosing
  <1>39. CASE Notify(t)
    BY <1>39 DEF Notify, ReadState
  <1>40. CASE Notifying(t)
    BY <1>40 DEF Notifying, LeaveState, Back
  <1>41. CASE Callback(t)
    BY <1>41 DEF Callback, Back
  <1> QED
    BY <1>1, <1>2, <1>3, <1>4, <1>5, <1>6, <1>7, <1>8, <1>9, <1>10, <1>11, <1>12,
        <1>13, <1>14, <1>15, <1>16, <1>17, <1>18, <1>19, <1>20, <1>21, <1>22, <1>23,
        <1>24, <1>25, <1>26, <1>27, <1>28, <1>29, <1>30, <1>31, <1>32, <1>33, <1>34,
        <1>35, <1>36, <1>37, <1>38, <1>39, <1>40, <1>41
    DEF Continue, CloseNext, ReconcileNext, MarksNext, RunNext, LeafNext

LEMMA LocksInvNext == LocksInv /\ [Next]_vars => LocksInv'
  <1> SUFFICES ASSUME LocksInv, [Next]_vars PROVE LocksInv'
    OBVIOUS
  <1>1. CASE \E t \in Thread : Start(t) \/ Continue(t)
    BY <1>1, ThreadKeepsType, ThreadReturnsHome, ThreadFollowsLocks, ThreadUsesOpen
    DEF LocksInv
  <1>2. CASE Cancel \/ SourceEnds
    <2> USE <1>2 DEF Cancel, SourceEnds, LocksInv, vars, localVars, locks, stateLock,
            dirLock, sessionVars, outside
    <2>1. UNCHANGED <<pc, localVars, locks, sessionVars, dirOpen, activity>>
      OBVIOUS
    <2>2. cancelled' \in BOOLEAN /\ ended' \in BOOLEAN
      <3>1. cancelled \in BOOLEAN /\ ended \in BOOLEAN
        BY DEF TypeOK
      <3> QED
        BY <3>1, Zenon
    <2>3. TypeOK'
      BY <2>1, <2>2 DEF TypeOK
    <2> QED
      BY <2>1, <2>3
      DEF ReturnsHome, LocksFollowSteps, OpenInUse, ClosedInOrder, DescriptorsUsedOpen,
          Operating, InUse
  <1>3. CASE UNCHANGED vars
    BY <1>3
    DEF LocksInv, TypeOK, ReturnsHome, LocksFollowSteps, OpenInUse, ClosedInOrder,
        DescriptorsUsedOpen, Operating, InUse, vars, localVars, locks, stateLock,
        dirLock, sessionVars, outside
  <1> QED
    BY <1>1, <1>2, <1>3 DEF Next

LEMMA LocksInvHolds == Spec => []LocksInv
  BY LocksInvInit, LocksInvNext, PTL DEF Spec

\* No return path keeps a lock or gives one up early.
THEOREM LocksHeldInSections == Spec => []LocksFollowSteps
  <1>1. LocksInv => LocksFollowSteps
    BY DEF LocksInv
  <1> QED
    BY <1>1, LocksInvHolds, PTL

\* Reconcile and CurrentWatermarks use a session that stays open, alone.
THEOREM SessionStaysOpen == Spec => []SessionUsedOpen
  <1>1. LocksInv => SessionUsedOpen
    <2> SUFFICES ASSUME LocksInv, NEW t \in Thread, UsesSession(t)
                 PROVE /\ ~closed /\ registryOpen
                       /\ \A u \in Thread \ {t} : ~UsesSession(u)
      BY DEF SessionUsedOpen
    <2>1. \A u \in Thread : UsesSession(u) => InUse(u) /\ Operating(u)
      BY DEF UsesSession, InUse, Operating, PassSteps, CloseSteps
    <2>2. ~closed /\ registryOpen
      BY <2>1 DEF LocksInv, OpenInUse, ClosedInOrder
    <2>3. \A u \in Thread : UsesSession(u) => op = u
      BY <2>1 DEF LocksInv, LocksFollowSteps
    <2> QED
      BY <2>2, <2>3
  <1> QED
    BY <1>1, LocksInvHolds, PTL

\* No poll, read or open uses a descriptor another goroutine has closed.
THEOREM DescriptorsStayOpen == Spec => []DescriptorsUsedOpen
  <1>1. LocksInv => DescriptorsUsedOpen
    BY DEF LocksInv
  <1> QED
    BY <1>1, LocksInvHolds, PTL

LEMMA CallbackBegins ==
    ASSUME TypeOK, NEW t \in Thread, Start(t) \/ Continue(t),
           NEW u \in Thread, pc[u] # "callback", pc'[u] = "callback"
    PROVE pc[u] \in {"drain", "notifying"}
  <1> USE NoneAssumption, MayCallAssumption DEF TypeOK, Goto, At, Call, vars,
      localVars, locks, stateLock, dirLock, sessionVars, outside
  <1>1. CASE Start(t)
    BY <1>1 DEF Start
  <1>2. CASE Close(t)
    BY <1>2 DEF Close, LockOperation
  <1>3. CASE Mark(t)
    BY <1>3 DEF Mark, AskState
  <1>4. CASE Marking(t)
    BY <1>4 DEF Marking, MarkClosed, HoldsState
  <1>5. CASE CloseWatcher(t)
    BY <1>5 DEF CloseWatcher
  <1>6. CASE ClosingWatcher(t)
    BY <1>6 DEF ClosingWatcher
  <1>7. CASE CloseRegistry(t)
    BY <1>7 DEF CloseRegistry
  <1>8. CASE CloseUnlock(t)
    BY <1>8 DEF CloseUnlock
  <1>9. CASE Reconcile(t)
    BY <1>9 DEF Reconcile, LockOperation
  <1>10. CASE Check(t)
    BY <1>10 DEF Check, ReadState
  <1>11. CASE Checking(t)
    BY <1>11 DEF Checking, LeaveState
  <1>12. CASE Pass(t)
    BY <1>12 DEF Pass, Fail
  <1>13. CASE Scan(t)
    BY <1>13 DEF Scan, Fail
  <1>14. CASE Scanning(t)
    BY <1>14 DEF Scanning, RegisterReports, Fail
  <1>15. CASE Drain(t)
    BY <1>15 DEF Drain, Fail
  <1>16. CASE Handled(t)
    BY <1>16 DEF Handled, Fail
  <1>17. CASE Events(t)
    BY <1>17 DEF Events, Fail
  <1>18. CASE ReadingEvents(t)
    BY <1>18 DEF ReadingEvents, Fail
  <1>19. CASE Overflow(t)
    BY <1>19 DEF Overflow, AskState
  <1>20. CASE Overflowing(t)
    BY <1>20 DEF Overflowing, HoldsState
  <1>21. CASE Defer(t)
    BY <1>21 DEF Defer, DeferWith
  <1>22. CASE Unlock(t)
    BY <1>22 DEF Unlock
  <1>23. CASE Watermarks(t)
    BY <1>23 DEF Watermarks, LockOperation
  <1>24. CASE CheckMarks(t)
    BY <1>24 DEF CheckMarks, ReadState
  <1>25. CASE CheckingMarks(t)
    BY <1>25 DEF CheckingMarks, LeaveState
  <1>26. CASE Marks(t)
    BY <1>26 DEF Marks
  <1>27. CASE Wait(t)
    BY <1>27 DEF Wait, WaitWith
  <1>28. CASE WaitFails(t)
    BY <1>28 DEF WaitFails
  <1>29. CASE WaitOver(t)
    BY <1>29 DEF WaitOver
  <1>30. CASE Polling(t)
    BY <1>30 DEF Polling
  <1>31. CASE Verify(t)
    BY <1>31 DEF Verify, ReadState
  <1>32. CASE Verifying(t)
    BY <1>32 DEF Verifying, LeaveState
  <1>33. CASE Read(t)
    BY <1>33 DEF Read, ReadState
  <1>34. CASE Reading(t)
    BY <1>34 DEF Reading, LeaveState, Back
  <1>35. CASE Attach(t)
    BY <1>35 DEF Attach, AskState
  <1>36. CASE Attaching(t)
    BY <1>36 DEF Attaching, HoldsState, Back
  <1>37. CASE DirClose(t)
    BY <1>37 DEF DirClose
  <1>38. CASE DirClosing(t)
    BY <1>38 DEF DirClosing
  <1>39. CASE Notify(t)
    BY <1>39 DEF Notify, ReadState
  <1>40. CASE Notifying(t)
    BY <1>40 DEF Notifying, LeaveState, Back
  <1>41. CASE Callback(t)
    BY <1>41 DEF Callback, Back
  <1> QED
    BY <1>1, <1>2, <1>3, <1>4, <1>5, <1>6, <1>7, <1>8, <1>9, <1>10, <1>11, <1>12,
        <1>13, <1>14, <1>15, <1>16, <1>17, <1>18, <1>19, <1>20, <1>21, <1>22, <1>23,
        <1>24, <1>25, <1>26, <1>27, <1>28, <1>29, <1>30, <1>31, <1>32, <1>33, <1>34,
        <1>35, <1>36, <1>37, <1>38, <1>39, <1>40, <1>41
    DEF Continue, CloseNext, ReconcileNext, MarksNext, RunNext, LeafNext

\* Once Close has returned nothing is handled or notified any more, but for
\* the unclean-close report of a DrainSource under way.
THEOREM QuietOnceClosed == Spec => QuietAfterClose
  <1>1. LocksInv /\ [Next]_vars =>
          [\A t \in Thread :
             Shut /\ pc[t] # "callback" /\ pc'[t] = "callback" => UncleanReport(t)]_vars
    <2> SUFFICES ASSUME LocksInv, Next, NEW u \in Thread, Shut,
                        pc[u] # "callback", pc'[u] = "callback"
                 PROVE UncleanReport(u)
      BY Zenon
    <2>1. CASE \E t \in Thread : Start(t) \/ Continue(t)
      <3>1. pc[u] \in {"drain", "notifying"}
        BY <2>1, CallbackBegins DEF LocksInv
      <3>2. closed
        BY DEF Shut
      <3>3. ~InUse(u)
        BY <3>2 DEF LocksInv, OpenInUse
      <3> QED
        BY <3>1, <3>3 DEF InUse, UncleanReport, PassSteps, Nested
    <2>2. CASE Cancel \/ SourceEnds
      BY <2>2 DEF Cancel, SourceEnds
    <2> QED
      BY <2>1, <2>2 DEF Next
  <1> QED
    BY <1>1, LocksInvHolds, PTL DEF QuietAfterClose, Spec
=============================================================================
