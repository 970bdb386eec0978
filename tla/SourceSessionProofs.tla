------------------------- MODULE SourceSessionProofs -------------------------
(***************************************************************************)
(* Theorems about SourceSession, for any number of generations, rotations  *)
(* and records and any set of faults.                                      *)
(***************************************************************************)
EXTENDS SourceSession, FiniteSetTheorems, TLAPS

USE MaxRotationAssumption, MaxGenerationAssumption, MaxRecordsAssumption
USE DEF None, NotFound, Idle, Unobserved

(***************************************************************************)
(* Type correctness.                                                       *)
(***************************************************************************)

(***************************************************************************)
(* Queueing an event keeps the watch well-typed.                           *)
(***************************************************************************)
LEMMA PostKeepsTypes ==
    ASSUME SourceTypeOK, Post
    PROVE  watching' \in BOOLEAN /\ events' \in DirectoryEvents
BY DEF SourceTypeOK, Post, DirectoryEvents

(***************************************************************************)
(* A step of the source keeps the directory well-typed.                    *)
(***************************************************************************)
LEMMA SourceStepKeepsTypes ==
    ASSUME SourceTypeOK, Bfusemon \/ Surroundings
    PROVE  SourceTypeOK'
<1> USE DEF SourceTypeOK, directoryVars, watchVars
<1>1. ASSUME NEW last \in BOOLEAN, WriteRecord(last) PROVE SourceTypeOK'
  <2>1. written' \in [Generation -> Nat]
    BY <1>1 DEF WriteRecord
  <2>2. bracket' \in [Generation -> BOOLEAN]
    BY <1>1 DEF WriteRecord
  <2> QED BY <1>1, <2>1, <2>2, PostKeepsTypes DEF WriteRecord
<1>2. CASE StartRotation
  BY <1>2 DEF StartRotation
<1>3. CASE DeleteOldest
  <2>1. slot' \in [Rotation -> Generation \cup {None}]
    BY <1>3 DEF DeleteOldest
  <2> QED BY <1>3, <2>1, PostKeepsTypes DEF DeleteOldest
<1>4. CASE ShiftUp
  <2>1. slot' \in [Rotation -> Generation \cup {None}]
    BY <1>4 DEF ShiftUp, Rotation
  <2> QED BY <1>4, <2>1, PostKeepsTypes DEF ShiftUp
<1>5. CASE CreateCurrent
  <2>1. newest' \in Generation
    BY <1>5 DEF CreateCurrent, Generation
  <2>2. slot' \in [Rotation -> Generation \cup {None}]
    BY <1>5, <2>1 DEF CreateCurrent
  <2>3. first' \in [Generation -> Nat]
    BY <1>5, <2>1 DEF CreateCurrent, Latest, Value
  <2> QED BY <1>5, <2>1, <2>2, <2>3, PostKeepsTypes DEF CreateCurrent
<1>6. CASE EndProcess
  BY <1>6 DEF EndProcess
<1>7. CASE UnrelatedActivity
  BY <1>7, PostKeepsTypes DEF UnrelatedActivity
<1>8. CASE QueueOverflow
  BY <1>8 DEF QueueOverflow, DirectoryEvents
<1>9. CASE InvalidateWatch
  BY <1>9 DEF InvalidateWatch, DirectoryEvents
<1> QED BY <1>1, <1>2, <1>3, <1>4, <1>5, <1>6, <1>7, <1>8, <1>9
        DEF Bfusemon, Surroundings

(***************************************************************************)
(* The steps of the exporter touch the source only through the watch.      *)
(***************************************************************************)
LEMMA SessionStepKeepsSourceTypes ==
    ASSUME SourceTypeOK, Step \/ PassFails \/ TimerExpires \/ Cancel
    PROVE  SourceTypeOK' /\ UNCHANGED <<directoryVars, alive>>
<1> USE DEF SourceTypeOK, sourceVars, directoryVars, watchVars, NoEvents,
            DirectoryEvents
<1>1. CASE WatchDirectory
  BY <1>1 DEF WatchDirectory, WatchReportDirectory
<1>2. CASE Close
  BY <1>2 DEF Close, CloseWatch
<1>3. CASE Decide
  <2>1. DrainEvents /\ UNCHANGED <<directoryVars, alive>>
    BY <1>3 DEF Decide, WatchInvalidated, CutOver, AwaitReport, Reconciled, NextPass
  <2> QED BY <2>1 DEF DrainEvents
<1>4. CASE UNCHANGED sourceVars
  BY <1>4
<1>5. CASE Scan
  BY <1>5 DEF Scan, ReadEntryNames, OpenDisappeared, OpenReport, RegisterFound
<1>6. CASE Drain
  BY <1>6 DEF Drain, StartReader, ApplyRecord, FinishReader, AllDrained
<1>7. CASE BetweenPasses
  BY <1>7 DEF BetweenPasses, RescanInterval, WaitReturns, IdentityHolds, SourceEnds,
              DrainAgain, DrainDeadline, ReportUnclean
<1>8. CASE CheckContext \/ ContextDone \/ PassFails \/ TimerExpires \/ Cancel
  BY <1>8 DEF CheckContext, ContextDone, PassFails, ScanFails, ReaderFails,
              WatchFails, WatcherFails, TimerExpires, Cancel
<1> QED BY <1>1, <1>2, <1>3, <1>5, <1>6, <1>7, <1>8 DEF Step

(***************************************************************************)
(* A step of the exporter keeps its counters, its registry and its outcome *)
(* well-typed.                                                             *)
(***************************************************************************)
LEMMA IncrementType ==
    ASSUME NEW mode, NEW previous \in Nat \cup {Unobserved}, NEW value \in Nat
    PROVE  Increment(mode, previous, value) \in Nat
BY DEF Increment

(***************************************************************************)
(* Handing a record to State.Apply and committing it.                      *)
(***************************************************************************)
LEMMA ApplyRecordKeepsTypes ==
    ASSUME TypeOK, ApplyRecord
    PROVE  RegistryTypeOK' /\ MetricTypeOK' /\ PassTypeOK' /\ EndTypeOK'
<1> DEFINE value == Value(reading, applied[reading] + 1)
<1>1. reading \in Generation /\ value \in Nat
  BY DEF ApplyRecord, TypeOK, SourceTypeOK, PassTypeOK, RegistryTypeOK, Value
<1>2. Increment(Mode, base, value) \in Nat
  BY <1>1, IncrementType DEF TypeOK, MetricTypeOK
<1>3. MetricTypeOK'
  <2>1. base' = value /\ total' = total + Increment(Mode, base, value)
    BY DEF ApplyRecord
  <2>2. highest' = IF value > highest THEN value ELSE highest
    BY DEF ApplyRecord
  <2>3. highest' \in Nat
    BY <1>1, <2>2 DEF TypeOK, MetricTypeOK
  <2>4. resets' \in Nat /\ origin' \in Nat
    BY <2>3 DEF ApplyRecord, TypeOK, MetricTypeOK
  <2>5. inOrder' \in BOOLEAN
    BY DEF ApplyRecord
  <2> HIDE DEF value
  <2> QED BY <1>1, <1>2, <2>1, <2>3, <2>4, <2>5 DEF TypeOK, MetricTypeOK
<1>4. RegistryTypeOK'
  <2>1. applied' \in [Generation -> Nat]
    BY <1>1 DEF ApplyRecord, TypeOK, RegistryTypeOK
  <2>2. closedSeen' \in [Generation -> BOOLEAN]
    BY <1>1 DEF ApplyRecord, TypeOK, RegistryTypeOK, SourceTypeOK
  <2> QED BY <2>1, <2>2 DEF ApplyRecord, TypeOK, RegistryTypeOK
<1> QED BY <1>3, <1>4 DEF ApplyRecord, TypeOK, PassTypeOK, EndTypeOK, scanVars,
                          passVars, endVars

(***************************************************************************)
(* register: the number of new readers is a number because a directory     *)
(* holds finitely many reports.                                            *)
(***************************************************************************)
LEMMA RegisterFoundKeepsTypes ==
    ASSUME TypeOK, RegisterFound
    PROVE  RegistryTypeOK' /\ PassTypeOK'
<1> USE DEF TypeOK, PassTypeOK, RegistryTypeOK
<1>1. registered' \in Nat
  <2>1. IsFiniteSet(Generation)
    BY FS_Interval DEF Generation
  <2>2. IsFiniteSet(Found \ Registered)
    BY <2>1, FS_Subset DEF Found
  <2> QED BY <2>2, FS_CardinalityType DEF RegisterFound
<1>2. rotation' \in [Generation -> Rotation \cup {NotFound}]
  BY DEF RegisterFound
<1>3. fds' \in [Generation -> Int]
  BY DEF RegisterFound
<1>4. found' \in [Generation -> Rotation \cup {NotFound}] /\ todo' \subseteq Generation
  BY DEF RegisterFound, Found, Registered
<1> QED BY <1>1, <1>2, <1>3, <1>4 DEF RegisterFound

(***************************************************************************)
(* Leaving a pass with an error (notifyDiscontinuity).                     *)
(***************************************************************************)
LEMMA FailKeepsTypes ==
    ASSUME EndTypeOK,
           NEW reason \in {"cancelled", "timeout", "invalidated", "other"}
                              \cup Discontinuity,
           Fail(reason)
    PROVE  EndTypeOK' /\ pc' \in {"report", "close"}
BY DEF EndTypeOK, Fail

(***************************************************************************)
(* Every step of the exporter keeps the session well-typed.                *)
(***************************************************************************)
LEMMA SessionStepKeepsTypes ==
    ASSUME TypeOK, Step \/ PassFails \/ TimerExpires \/ Cancel
    PROVE  TypeOK'
<1> USE DEF TypeOK
<1>1. SourceTypeOK'
  BY SessionStepKeepsSourceTypes
<1> USE DEF PassTypeOK, scanVars, registryVars, passVars, endVars, metricVars
<1>2. CASE ApplyRecord
  BY <1>1, <1>2, ApplyRecordKeepsTypes
<1>3. CASE RegisterFound
  BY <1>1, <1>3, RegisterFoundKeepsTypes
     DEF RegisterFound, EndTypeOK, MetricTypeOK
<1> USE DEF RegistryTypeOK, EndTypeOK, MetricTypeOK
<1>4. CASE WatchDirectory \/ CheckContext
  BY <1>1, <1>4 DEF WatchDirectory, CheckContext
<1>5. CASE ContextDone
  <2>1. EndTypeOK' /\ pc' \in {"report", "close"}
    BY <1>5, FailKeepsTypes DEF ContextDone
  <2> QED BY <1>1, <1>5, <2>1 DEF ContextDone
<1>6. CASE ReadEntryNames
  BY <1>1, <1>6 DEF ReadEntryNames
<1>7. ASSUME NEW r \in Rotation, OpenDisappeared(r) PROVE TypeOK'
  BY <1>1, <1>7 DEF OpenDisappeared
<1>8. ASSUME NEW r \in Rotation, OpenReport(r) PROVE TypeOK'
  <2>1. slot[r] \in Generation
    BY <1>8 DEF OpenReport, SourceTypeOK
  <2>2. found' \in [Generation -> Rotation \cup {NotFound}]
    BY <1>8, <2>1 DEF OpenReport
  <2>3. fds' \in [Generation -> Int]
    BY <1>8, <2>1 DEF OpenReport
  <2> QED BY <1>1, <1>8, <2>2, <2>3 DEF OpenReport
<1>9. ASSUME NEW g \in Generation, StartReader(g) PROVE TypeOK'
  BY <1>1, <1>9 DEF StartReader
<1>10. CASE FinishReader \/ AllDrained
  BY <1>1, <1>10 DEF FinishReader, AllDrained
<1>11. CASE WatchInvalidated
  <2>1. EndTypeOK' /\ pc' \in {"report", "close"}
    BY <1>11, FailKeepsTypes DEF WatchInvalidated
  <2> QED BY <1>1, <1>11, <2>1 DEF WatchInvalidated
<1>12. CASE CutOver \/ AwaitReport \/ Reconciled \/ NextPass
  <2>1. pc' \in {"check", "rescan", "wait", "pause", "report"}
    BY <1>12 DEF CutOver, AwaitReport, Reconciled, NextPass
  <2>2. stage' \in {"init", "run", "drain", "final"} /\ expired' \in BOOLEAN
    BY <1>12 DEF CutOver, AwaitReport, Reconciled, NextPass
  <2>3. UNCHANGED <<scanVars, registryVars, passVars, fds, cancelled, err, reported,
                    unclean, metricVars>>
    BY <1>12 DEF CutOver, AwaitReport, Reconciled, NextPass
  <2> QED BY <1>1, <2>1, <2>2, <2>3
<1>13. CASE BetweenPasses
  <2>1. CASE ReportUnclean
    BY <1>1, <2>1 DEF ReportUnclean, Registered
  <2>2. CASE RescanInterval \/ WaitReturns \/ IdentityHolds \/ SourceEnds
             \/ DrainAgain \/ DrainDeadline
    BY <1>1, <2>2 DEF RescanInterval, WaitReturns, IdentityHolds, SourceEnds,
                      DrainAgain, DrainDeadline
  <2> QED BY <1>13, <2>1, <2>2 DEF BetweenPasses
<1>14. CASE Close
  BY <1>1, <1>14 DEF Close
<1>15. ASSUME NEW reason \in Discontinuity \cup {"other"},
              ScanFails(reason) \/ ReaderFails(reason)
       PROVE  TypeOK'
  <2>1. EndTypeOK' /\ pc' \in {"report", "close"}
    BY <1>15, FailKeepsTypes DEF ScanFails, ReaderFails
  <2> QED BY <1>1, <1>15, <2>1 DEF ScanFails, ReaderFails
<1>16. CASE TimerExpires \/ Cancel
  BY <1>1, <1>16 DEF TimerExpires, Cancel
<1>17. CASE Scan
  BY <1>3, <1>6, <1>7, <1>8, <1>17 DEF Scan
<1>18. CASE Drain
  BY <1>2, <1>9, <1>10, <1>18 DEF Drain
<1>19. CASE Decide
  BY <1>11, <1>12, <1>19 DEF Decide
<1>20. CASE WatchFails
  BY <1>1, <1>20 DEF WatchFails
<1>21. CASE WatcherFails
  <2>1. EndTypeOK' /\ pc' \in {"report", "close"}
    BY <1>21, FailKeepsTypes DEF WatcherFails
  <2> QED BY <1>1, <1>21, <2>1 DEF WatcherFails
<1>22. CASE PassFails
  BY <1>15, <1>20, <1>21, <1>22 DEF PassFails
<1> QED BY <1>4, <1>5, <1>13, <1>14, <1>16, <1>17, <1>18, <1>19, <1>22 DEF Step

(***************************************************************************)
(* The session is well-typed in every behaviour.                           *)
(***************************************************************************)
THEOREM TypeCorrect == Spec => []TypeOK
<1>1. Init => TypeOK
  <2> SUFFICES ASSUME Init PROVE TypeOK
    OBVIOUS
  <2>1. SourceTypeOK
    BY DEF Init, SourceInit, SourceTypeOK, NoEvents, DirectoryEvents
  <2>2. PassTypeOK /\ RegistryTypeOK
    BY DEF Init, PassTypeOK, RegistryTypeOK
  <2>3. EndTypeOK /\ MetricTypeOK
    BY DEF Init, EndTypeOK, MetricTypeOK
  <2> QED BY <2>1, <2>2, <2>3 DEF TypeOK
<1>2. TypeOK /\ [Next]_vars => TypeOK'
  <2> SUFFICES ASSUME TypeOK, [Next]_vars PROVE TypeOK'
    OBVIOUS
  <2>1. CASE Source
    <3>1. SourceTypeOK'
      BY <2>1, SourceStepKeepsTypes DEF Source, TypeOK
    <3> QED BY <2>1, <3>1 DEF Source, TypeOK, PassTypeOK, RegistryTypeOK, EndTypeOK,
                     MetricTypeOK, sessionVars, scanVars, registryVars, passVars,
                     endVars, metricVars
  <2>2. CASE Step \/ PassFails \/ TimerExpires \/ Cancel
    BY <2>2, SessionStepKeepsTypes
  <2>3. CASE UNCHANGED vars
    BY <2>3 DEF TypeOK, SourceTypeOK, PassTypeOK, RegistryTypeOK, EndTypeOK,
                MetricTypeOK, vars, sourceVars, directoryVars, watchVars, sessionVars,
                scanVars, registryVars, passVars, endVars, metricVars
  <2> QED BY <2>1, <2>2, <2>3 DEF Next
<1> QED BY <1>1, <1>2, PTL DEF Spec

-----------------------------------------------------------------------------
(***************************************************************************)
(* No lost wakeup.  PassInv is inductive: a change of the directory queues *)
(* an event, which voids what the pass has done; without one, each step of *)
(* the pass extends it; and a pass ends only if the queue was empty.       *)
(***************************************************************************)

(***************************************************************************)
(* Whatever the source does under a standing watch, an event is queued for *)
(* it, or it leaves alone what the pass has looked at.                     *)
(***************************************************************************)
LEMMA SourceStepQueuesEvent ==
    ASSUME TypeOK, Bfusemon \/ Surroundings
    PROVE  /\ watching' = watching
           /\ events.changed => events'.changed
           /\ \/ watching /\ events'.changed
              \/ ~watching /\ UNCHANGED events
              \/ UNCHANGED <<slot, written, bracket>>
<1> USE DEF TypeOK, SourceTypeOK, DirectoryEvents, watchVars, directoryVars
<1>1. CASE \E last \in BOOLEAN : WriteRecord(last)
  BY <1>1 DEF WriteRecord, Post
<1>2. CASE StartRotation \/ EndProcess
  BY <1>2 DEF StartRotation, EndProcess
<1>3. CASE DeleteOldest \/ ShiftUp \/ CreateCurrent
  BY <1>3 DEF DeleteOldest, ShiftUp, CreateCurrent, Post
<1>4. CASE Surroundings
  BY <1>4 DEF Surroundings, UnrelatedActivity, QueueOverflow, InvalidateWatch, Post
<1> QED BY <1>1, <1>2, <1>3, <1>4 DEF Bfusemon

(***************************************************************************)
(* Nothing the source does takes back a record or a closing bracket, or    *)
(* adds to a generation that has its bracket.                              *)
(***************************************************************************)
LEMMA SourceStepOnlyAppends ==
    ASSUME TypeOK, Bfusemon \/ Surroundings, NEW g \in Generation
    PROVE  \/ written'[g] = written[g] /\ bracket'[g] = bracket[g]
           \/ written'[g] = written[g] + 1 /\ ~bracket[g]
<1>1. CASE \E last \in BOOLEAN : WriteRecord(last)
  BY <1>1 DEF WriteRecord, TypeOK, SourceTypeOK
<1>2. CASE UNCHANGED <<written, bracket>>
  BY <1>2
<1>3. CASE ~\E last \in BOOLEAN : WriteRecord(last)
  BY <1>3 DEF Bfusemon, Surroundings, StartRotation, DeleteOldest, ShiftUp,
              CreateCurrent, EndProcess, UnrelatedActivity, QueueOverflow,
              InvalidateWatch, directoryVars
<1> QED BY <1>1, <1>3

(***************************************************************************)
(* A step of the source queues an event, or leaves the pass alone.         *)
(***************************************************************************)
LEMMA SourceStepKeepsPassInv ==
    ASSUME TypeOK, PassInv, Source
    PROVE  PassInv'
<1> USE DEF PassInv, Source
<1>1. UNCHANGED <<pc, names, found, rotation, applied, closedSeen, todo, err>>
  BY DEF sessionVars, scanVars, registryVars, passVars, endVars
<1>2. WatchStands'
  BY <1>1, SourceStepQueuesEvent DEF WatchStands
<1>3. WatermarksInFile'
  <2> SUFFICES ASSUME NEW g \in Generation
               PROVE  /\ applied'[g] <= written'[g]
                      /\ closedSeen'[g] <=> bracket'[g] /\ applied'[g] = written'[g]
    BY DEF WatermarksInFile
  <2>1. applied[g] \in Nat /\ written[g] \in Nat
    BY DEF TypeOK, RegistryTypeOK, SourceTypeOK
  <2>2. \/ written'[g] = written[g] /\ bracket'[g] = bracket[g]
        \/ written'[g] = written[g] + 1 /\ ~bracket[g]
    BY SourceStepOnlyAppends
  <2> QED BY <1>1, <2>1, <2>2 DEF WatermarksInFile
<1>4. CASE events'.changed
  BY <1>1, <1>2, <1>3, <1>4 DEF OpenedSoFar, DrainedSoFar
<1>5. CASE ~watching
  BY <1>1, <1>2, <1>3, <1>5
     DEF WatchStands, OpenedSoFar, DrainedSoFar, AtRest
<1>6. CASE watching /\ ~events'.changed
  <2>1. ~events.changed /\ UNCHANGED <<slot, written, bracket>>
    BY <1>6, SourceStepQueuesEvent
  <2> QED BY <1>1, <1>2, <1>3, <2>1
          DEF OpenedSoFar, DrainedSoFar, AtRest, Found, Registered
<1> QED BY <1>4, <1>5, <1>6

(***************************************************************************)
(* The steps that neither scan, read nor decide leave a pass unless they   *)
(* find it where it was, and touch none of what it has done.               *)
(***************************************************************************)
LEMMA OtherStepKeepsPassInv ==
    ASSUME TypeOK, PassInv,
           \/ WatchDirectory \/ CheckContext \/ ContextDone \/ WatchInvalidated
           \/ BetweenPasses \/ Close \/ PassFails \/ TimerExpires \/ Cancel
    PROVE  PassInv'
<1> USE DEF PassInv, registryVars, passVars, scanVars
<1>1. UNCHANGED <<slot, written, bracket, applied, closedSeen>>
  <2>1. UNCHANGED directoryVars
    BY SessionStepKeepsSourceTypes DEF TypeOK, Step, Decide
  <2>2. UNCHANGED <<applied, closedSeen>>
    BY DEF WatchDirectory, CheckContext, ContextDone, WatchInvalidated, BetweenPasses,
           RescanInterval, WaitReturns, IdentityHolds, SourceEnds, DrainAgain,
           DrainDeadline, ReportUnclean, Close, PassFails, ScanFails, ReaderFails,
           WatchFails, WatcherFails, TimerExpires, Cancel
  <2> QED BY <2>1, <2>2 DEF directoryVars
<1>2. WatermarksInFile'
  BY <1>1 DEF WatermarksInFile
<1>3. CASE TimerExpires \/ Cancel
  <2>1. UNCHANGED <<sourceVars, pc, names, found, rotation, todo, err>>
    BY <1>3 DEF TimerExpires, Cancel
  <2>2. OpenedSoFar' /\ DrainedSoFar'
    BY <1>1, <2>1 DEF OpenedSoFar, DrainedSoFar, AtRest, Found, Registered,
                      sourceVars, watchVars
  <2> QED BY <1>2, <2>1, <2>2 DEF WatchStands, sourceVars, watchVars
<1>4. CASE \/ WatchDirectory \/ CheckContext \/ BetweenPasses \/ Close
           \/ WatchFails
  <2>1. pc' \in {"check", "names", "verify", "close", "end"}
    BY <1>4 DEF WatchDirectory, CheckContext, BetweenPasses, RescanInterval,
                WaitReturns, IdentityHolds, SourceEnds, DrainAgain, DrainDeadline,
                ReportUnclean, Close, WatchFails
  <2>2. WatchStands'
    BY <1>4 DEF WatchStands, WatchDirectory, WatchReportDirectory, CheckContext,
                BetweenPasses, RescanInterval, WaitReturns, IdentityHolds, SourceEnds,
                DrainAgain, DrainDeadline, ReportUnclean, Close, CloseWatch,
                WatchFails, sourceVars, watchVars, TypeOK, SourceTypeOK
  <2> QED BY <1>2, <2>1, <2>2 DEF OpenedSoFar, DrainedSoFar, AtRest
<1>5. ASSUME NEW reason, reason # "none", Fail(reason)
      PROVE  pc' \in {"report", "close"} /\ err' # "none"
  BY <1>5 DEF Fail
<1>6. CASE ContextDone \/ WatchInvalidated \/ WatcherFails
  <2>1. pc' \in {"report", "close"} /\ err' # "none"
    BY <1>5, <1>6 DEF ContextDone, WatchInvalidated, WatcherFails
  <2>2. UNCHANGED watching /\ pc \notin {"watch", "end"}
    BY <1>6 DEF ContextDone, WatchInvalidated, WatcherFails, DrainEvents, sourceVars,
                watchVars
  <2> QED BY <1>2, <2>1, <2>2 DEF WatchStands, OpenedSoFar, DrainedSoFar, AtRest
<1>7. ASSUME NEW reason \in Discontinuity \cup {"other"},
             ScanFails(reason) \/ ReaderFails(reason)
      PROVE  PassInv'
  <2>1. reason # "none" /\ Fail(reason)
    BY <1>7 DEF ScanFails, ReaderFails, Discontinuity
  <2>2. pc' \in {"report", "close"} /\ err' # "none"
    BY <1>5, <2>1
  <2>3. UNCHANGED watching /\ pc \notin {"watch", "end"}
    BY <1>7 DEF ScanFails, ReaderFails, sourceVars, watchVars
  <2> QED BY <1>2, <2>2, <2>3 DEF WatchStands, OpenedSoFar, DrainedSoFar, AtRest
<1> QED BY <1>3, <1>4, <1>6, <1>7 DEF PassFails

(***************************************************************************)
(* The scan: once every name is opened or gone, the found generations are  *)
(* all there are, and all get a reader to drain.                           *)
(***************************************************************************)
LEMMA ScanKeepsPassInv ==
    ASSUME TypeOK, PassInv, Scan
    PROVE  PassInv'
<1> USE DEF PassInv, registryVars, passVars, scanVars, endVars, sourceVars,
            directoryVars, watchVars
<1>1. /\ UNCHANGED <<slot, written, bracket, watching, events, applied, closedSeen>>
      /\ pc \in {"names", "open"} /\ pc' \in {"open", "drain"}
  BY DEF Scan, ReadEntryNames, OpenDisappeared, OpenReport, RegisterFound
<1>2. WatchStands' /\ WatermarksInFile'
  BY <1>1 DEF WatchStands, WatermarksInFile
<1>3. CASE ReadEntryNames
  BY <1>1, <1>2, <1>3 DEF ReadEntryNames, OpenedSoFar, DrainedSoFar, AtRest
<1>4. ASSUME NEW r \in Rotation, OpenDisappeared(r) PROVE PassInv'
  BY <1>1, <1>2, <1>4 DEF OpenDisappeared, OpenedSoFar, DrainedSoFar, AtRest, Found
<1>5. ASSUME NEW r \in Rotation, OpenReport(r) PROVE PassInv'
  <2>1. slot[r] \in Generation /\ r >= 0
    BY <1>5 DEF OpenReport, TypeOK, SourceTypeOK, Rotation
  <2>2. slot[r] \in Found' /\ Found \subseteq Found'
    BY <1>5, <2>1 DEF OpenReport, Found, TypeOK, PassTypeOK, Rotation
  <2>3. OpenedSoFar'
    BY <1>1, <1>5, <2>2 DEF OpenReport, OpenedSoFar
  <2> QED BY <1>1, <1>2, <1>5, <2>3 DEF OpenReport, DrainedSoFar, AtRest
<1>6. CASE RegisterFound
  <2>1. Found \subseteq Registered' /\ Registered' \subseteq todo'
    BY <1>6 DEF RegisterFound, Found, Registered, TypeOK, PassTypeOK, RegistryTypeOK,
                Rotation
  <2>2. ~events.changed => \A r \in Rotation : slot[r] # None => slot[r] \in Found
    BY <1>6 DEF RegisterFound, OpenedSoFar
  <2>3. pc' = "drain"
    BY <1>6 DEF RegisterFound
  <2>4. DrainedSoFar'
    BY <1>1, <2>1, <2>2, <2>3 DEF DrainedSoFar
  <2> QED BY <1>2, <2>3, <2>4 DEF OpenedSoFar
<1> QED BY <1>3, <1>4, <1>5, <1>6 DEF Scan

(***************************************************************************)
(* Draining the readers: a reader leaves the list only when it has applied *)
(* all there is.                                                           *)
(***************************************************************************)
LEMMA DrainKeepsPassInv ==
    ASSUME TypeOK, PassInv, Drain
    PROVE  PassInv'
<1> USE DEF PassInv, registryVars, passVars, scanVars, endVars, sourceVars,
            directoryVars, watchVars
<1>1. /\ UNCHANGED <<slot, written, bracket, watching, events, rotation>>
      /\ pc = "drain" /\ pc' \in {"drain", "events"}
  BY DEF Drain, StartReader, ApplyRecord, FinishReader, AllDrained
<1>2. WatchStands' /\ OpenedSoFar' /\ UNCHANGED Registered
  BY <1>1 DEF WatchStands, OpenedSoFar, Registered
<1>3. ASSUME NEW g \in Generation, StartReader(g) PROVE PassInv'
  BY <1>1, <1>2, <1>3
     DEF StartReader, WatermarksInFile, DrainedSoFar, AtRest
<1>4. CASE ApplyRecord
  <2>1. /\ reading \in Generation /\ pc' = "drain" /\ todo' = todo
        /\ applied[reading] < written[reading]
        /\ applied' = [applied EXCEPT ![reading] = applied[reading] + 1]
        /\ closedSeen' = [closedSeen EXCEPT ![reading] =
               bracket[reading] /\ applied[reading] + 1 = written[reading]]
    BY <1>1, <1>4 DEF ApplyRecord, TypeOK, PassTypeOK
  <2>2. WatermarksInFile'
    <3> SUFFICES ASSUME NEW g \in Generation
                 PROVE  /\ applied'[g] <= written'[g]
                        /\ closedSeen'[g] <=> bracket'[g] /\ applied'[g] = written'[g]
      BY DEF WatermarksInFile
    <3>1. applied[g] \in Nat /\ written[g] \in Nat
      BY DEF TypeOK, SourceTypeOK, RegistryTypeOK
    <3>2. applied'[g] = IF g = reading THEN applied[g] + 1 ELSE applied[g]
      BY <2>1 DEF TypeOK, RegistryTypeOK
    <3>3. applied'[g] <= written'[g]
      BY <1>1, <2>1, <3>1, <3>2 DEF WatermarksInFile
    <3>4. CASE g = reading
      <4>1. closedSeen'[g] = (bracket[g] /\ applied[g] + 1 = written[g])
        BY <2>1, <3>4 DEF TypeOK, RegistryTypeOK
      <4> QED BY <1>1, <3>2, <3>3, <3>4, <4>1
    <3>5. CASE g # reading
      <4>1. closedSeen'[g] = closedSeen[g]
        BY <2>1, <3>5 DEF TypeOK, RegistryTypeOK
      <4> QED BY <1>1, <3>2, <3>3, <3>5, <4>1 DEF WatermarksInFile
    <3> QED BY <3>4, <3>5
  <2>3. ASSUME ~events.changed, NEW g \in Registered
        PROVE  applied'[g] = written'[g] \/ g \in todo'
    <3>1. applied[g] = written[g] \/ g \in todo
      BY <1>1, <2>3 DEF DrainedSoFar
    <3>2. CASE g = reading
      BY <2>1, <3>1, <3>2 DEF TypeOK, SourceTypeOK, RegistryTypeOK
    <3>3. CASE g # reading
      BY <1>1, <2>1, <3>1, <3>3 DEF TypeOK, RegistryTypeOK, Registered
    <3> QED BY <3>2, <3>3
  <2>4. DrainedSoFar'
    BY <1>1, <1>2, <2>1, <2>3 DEF DrainedSoFar
  <2> QED BY <1>2, <2>1, <2>2, <2>4
<1>5. CASE FinishReader
  <2>1. /\ pc' = "drain" /\ todo' = todo \ {reading}
        /\ applied[reading] = written[reading] /\ UNCHANGED <<applied, closedSeen>>
    BY <1>1, <1>5 DEF FinishReader
  <2>2. DrainedSoFar'
    BY <1>1, <1>2, <2>1 DEF DrainedSoFar
  <2> QED BY <1>1, <1>2, <2>1, <2>2 DEF WatermarksInFile
<1>6. CASE AllDrained
  BY <1>1, <1>2, <1>6 DEF AllDrained, WatermarksInFile, DrainedSoFar, AtRest
<1> QED BY <1>3, <1>4, <1>5, <1>6 DEF Drain

(***************************************************************************)
(* The decision: a pass ends only if no event was queued during it.        *)
(***************************************************************************)
LEMMA DecideKeepsPassInv ==
    ASSUME TypeOK, PassInv, Decide
    PROVE  PassInv'
<1> USE DEF PassInv, registryVars, passVars, scanVars, endVars, directoryVars
<1>1. CASE WatchInvalidated
  BY <1>1, OtherStepKeepsPassInv
<1>2. CASE CutOver \/ AwaitReport \/ Reconciled \/ NextPass
  <2>1. /\ UNCHANGED <<slot, written, bracket, watching, rotation, applied, closedSeen,
                       todo, err>>
        /\ pc = "events" /\ pc' \in {"wait", "rescan", "pause", "report", "check"}
    BY <1>2 DEF CutOver, AwaitReport, Reconciled, NextPass, DrainEvents, TypeOK,
                PassTypeOK
  <2>2. PassIsStable \/ pc' = "check"
    BY <1>2 DEF CutOver, AwaitReport, Reconciled, NextPass
  <2>3. WatchStands' /\ WatermarksInFile' /\ OpenedSoFar'
    BY <2>1 DEF WatchStands, WatermarksInFile, OpenedSoFar
  <2>4. DrainedSoFar'
    <3>1. CASE PassIsStable
      BY <2>1, <3>1 DEF PassIsStable, DrainedSoFar, AtRest, Registered
    <3>2. CASE pc' = "check"
      BY <3>2 DEF DrainedSoFar, AtRest
    <3> QED BY <2>2, <3>1, <3>2
  <2> QED BY <2>1, <2>3, <2>4
<1> QED BY <1>1, <1>2 DEF Decide

(***************************************************************************)
(* What the cutover and every return of Reconcile rely on.                 *)
(***************************************************************************)
LEMMA PassInvImpliesCaughtUp ==
    ASSUME TypeOK, PassInv
    PROVE  CaughtUpWhenQuiet
<1> SUFFICES ASSUME AtRest, ~events.changed
             PROVE  /\ \A r \in Rotation : slot[r] # None => slot[r] \in Registered
                    /\ \A g \in Registered :
                          applied[g] = written[g] /\ closedSeen[g] = bracket[g]
  BY DEF CaughtUpWhenQuiet
<1>1. /\ \A r \in Rotation : slot[r] # None => slot[r] \in Registered
      /\ \A g \in Registered : applied[g] = written[g]
  BY DEF PassInv, DrainedSoFar, AtRest
<1>2. ASSUME NEW g \in Registered PROVE closedSeen[g] = bracket[g]
  <2>1. g \in Generation /\ applied[g] = written[g]
    BY <1>1 DEF Registered
  <2>2. closedSeen[g] <=> bracket[g]
    BY <2>1 DEF PassInv, WatermarksInFile
  <2>3. closedSeen[g] \in BOOLEAN /\ bracket[g] \in BOOLEAN
    BY <2>1 DEF TypeOK, RegistryTypeOK, SourceTypeOK
  <2> QED BY <2>2, <2>3
<1> QED BY <1>1, <1>2

(***************************************************************************)
(* What a pass has done so far holds of the directory as it is now, as     *)
(* long as no event was queued.                                            *)
(***************************************************************************)
THEOREM PassInvariant == Spec => []PassInv
<1>1. Init => PassInv
  BY DEF Init, SourceInit, PassInv, WatchStands, WatermarksInFile, OpenedSoFar,
         DrainedSoFar, AtRest
<1>2. TypeOK /\ PassInv /\ [Next]_vars => PassInv'
  <2> SUFFICES ASSUME TypeOK, PassInv, [Next]_vars PROVE PassInv'
    OBVIOUS
  <2>1. CASE Source
    BY <2>1, SourceStepKeepsPassInv
  <2>2. CASE Scan
    BY <2>2, ScanKeepsPassInv
  <2>3. CASE Drain
    BY <2>3, DrainKeepsPassInv
  <2>4. CASE Decide
    BY <2>4, DecideKeepsPassInv
  <2>5. CASE \/ WatchDirectory \/ CheckContext \/ ContextDone
             \/ BetweenPasses \/ Close \/ PassFails \/ TimerExpires \/ Cancel
    BY <2>5, OtherStepKeepsPassInv
  <2>6. CASE UNCHANGED vars
    BY <2>6 DEF vars, sourceVars, directoryVars, watchVars, sessionVars, scanVars,
                registryVars, passVars, endVars, PassInv, WatchStands,
                WatermarksInFile, OpenedSoFar, DrainedSoFar, AtRest, Found, Registered
  <2> QED BY <2>1, <2>2, <2>3, <2>4, <2>5, <2>6 DEF Next, Step
<1> QED BY <1>1, <1>2, TypeCorrect, PTL DEF Spec

(***************************************************************************)
(* The session never rests with unread records and an empty event queue,   *)
(* for any number of reports, records and rotations and under every fault. *)
(***************************************************************************)
THEOREM CaughtUp == Spec => []CaughtUpWhenQuiet
<1>1. TypeOK /\ PassInv => CaughtUpWhenQuiet
  BY PassInvImpliesCaughtUp
<1> QED BY <1>1, PassInvariant, TypeCorrect, PTL

-----------------------------------------------------------------------------
(***************************************************************************)
(* Descriptors.  OwnerInv is inductive: only the four steps that open or   *)
(* close descriptors, or hand them over, disturb it.                       *)
(***************************************************************************)
Owners(g) ==
    (IF found[g] # NotFound THEN 1 ELSE 0) + (IF rotation[g] # NotFound THEN 1 ELSE 0)

(***************************************************************************)
(* DescriptorsAreOwned counts owners by set membership, the steps by value. *)
(***************************************************************************)
LEMMA OwnedByCount ==
    (\A g \in Generation : fds[g] = Owners(g)) <=>
        \A g \in Generation : fds[g] = (IF g \in Found THEN 1 ELSE 0)
                                      + (IF g \in Registered THEN 1 ELSE 0)
BY DEF Owners, Found, Registered

(***************************************************************************)
(* Every step that leaves the scan's findings, the registry and the        *)
(* descriptors alone keeps the owners, unless it enters or leaves the scan *)
(* with a finding.                                                         *)
(***************************************************************************)
LEMMA SameOwners ==
    ASSUME OwnerInv, UNCHANGED <<found, rotation, fds>>,
           Found = {} \/ pc' = "open",
           pc' \in {"watch", "end"} => Registered = {} /\ Found = {},
           pc' = "end" => ~watching'
    PROVE  OwnerInv'
<1>1. Found' = Found /\ Registered' = Registered
  BY DEF Found, Registered
<1>2. \A g \in Generation :
          fds'[g] = (IF g \in Found' THEN 1 ELSE 0)
                    + (IF g \in Registered' THEN 1 ELSE 0)
  BY <1>1 DEF OwnerInv, DescriptorsAreOwned
<1>3. pc' = "end" => ~watching' /\ \A g \in Generation : fds'[g] = 0
  BY <1>1, <1>2
<1> QED BY <1>1, <1>2, <1>3 DEF OwnerInv, DescriptorsAreOwned

(***************************************************************************)
(* The steps that change owners.                                           *)
(***************************************************************************)
LEMMA OwnersChange ==
    ASSUME TypeOK, OwnerInv,
           \/ \E r \in Rotation : OpenReport(r)
           \/ \E reason \in Discontinuity \cup {"other"} : ScanFails(reason)
           \/ RegisterFound \/ Close
    PROVE  OwnerInv'
<1> USE DEF OwnerInv, DescriptorsAreOwned
<1>1. \A g \in Generation : fds[g] = Owners(g)
  BY OwnedByCount
<1>2. ASSUME \A g \in Generation : fds'[g] = Owners(g)',
             pc' # "open" => Found' = {},
             pc' # "watch",
             pc' = "end" => Registered' = {} /\ ~watching'
      PROVE  OwnerInv'
  <2>1. \A g \in Generation :
            fds'[g] = (IF g \in Found' THEN 1 ELSE 0)
                      + (IF g \in Registered' THEN 1 ELSE 0)
    BY <1>2 DEF Owners, Found, Registered
  <2>2. pc' = "end" => \A g \in Generation : fds'[g] = 0
    BY <1>2, <2>1
  <2> QED BY <1>2, <2>1, <2>2
<1> HIDE DEF OwnerInv, DescriptorsAreOwned
<1> USE DEF TypeOK, PassTypeOK, RegistryTypeOK, registryVars, scanVars
<1>3. ASSUME NEW r \in Rotation, OpenReport(r) PROVE OwnerInv'
  <2>1. slot[r] \in Generation /\ r >= 0
    BY <1>3 DEF OpenReport, SourceTypeOK, Rotation
  <2>2. ASSUME NEW g \in Generation PROVE fds'[g] = Owners(g)'
    BY <1>1, <1>3, <2>1 DEF OpenReport, Owners, Found, Rotation
  <2> QED BY <1>2, <1>3, <2>2 DEF OpenReport
<1>4. ASSUME NEW reason \in Discontinuity \cup {"other"}, ScanFails(reason)
      PROVE  OwnerInv'
  <2>1. ASSUME NEW g \in Generation PROVE fds'[g] = Owners(g)'
    BY <1>1, <1>4 DEF ScanFails, Owners, Found
  <2>2. Found' = {} /\ pc' \notin {"watch", "end"}
    BY <1>4 DEF ScanFails, Found, Fail
  <2> QED BY <1>2, <2>1, <2>2
<1>5. CASE RegisterFound
  <2>1. ASSUME NEW g \in Generation PROVE fds'[g] = Owners(g)'
    <3>1. found'[g] = NotFound
          /\ rotation'[g] = (IF found[g] > rotation[g] THEN found[g] ELSE rotation[g])
          /\ fds'[g] = (IF g \in Found \cap Registered THEN fds[g] - 1 ELSE fds[g])
      BY <1>5 DEF RegisterFound
    <3> QED BY <1>1, <3>1 DEF Owners, Found, Registered, Rotation
  <2>2. Found' = {} /\ pc' = "drain"
    BY <1>5 DEF RegisterFound, Found
  <2> QED BY <1>2, <2>1, <2>2
<1>6. CASE Close
  <2>1. Found = {}
    BY <1>6 DEF Close, OwnerInv
  <2>2. Registered' = {} /\ Found' = {} /\ ~watching' /\ pc' = "end"
    BY <1>6, <2>1 DEF Close, CloseWatch, Registered, Found
  <2>3. ASSUME NEW g \in Generation PROVE fds'[g] = Owners(g)'
    BY <1>1, <1>6, <2>1 DEF Close, Owners, Found, Registered
  <2> QED BY <1>2, <2>2, <2>3
<1> QED BY <1>3, <1>4, <1>5, <1>6

(***************************************************************************)
(* Every open report descriptor has one owner, and a closed session keeps  *)
(* none, for any number of reports and rotations and under every fault.    *)
(***************************************************************************)
THEOREM DescriptorsOwned == Spec => []DescriptorsAreOwned
<1>1. Init => OwnerInv
  BY DEF Init, SourceInit, OwnerInv, DescriptorsAreOwned, Found, Registered
<1>2. TypeOK /\ PassInv /\ OwnerInv /\ [Next]_vars => OwnerInv'
  <2> SUFFICES ASSUME TypeOK, PassInv, OwnerInv, [Next]_vars PROVE OwnerInv'
    OBVIOUS
  <2> USE DEF OwnerInv, sessionVars, scanVars, registryVars, passVars, sourceVars,
              watchVars
  <2>1. CASE Source
    <3>1. UNCHANGED <<found, rotation, fds, pc>> /\ watching' = watching
      BY <2>1, SourceStepQueuesEvent DEF Source
    <3> QED BY <3>1, SameOwners DEF DescriptorsAreOwned
  <2>2. CASE \/ \E r \in Rotation : OpenReport(r)
             \/ \E reason \in Discontinuity \cup {"other"} : ScanFails(reason)
             \/ RegisterFound \/ Close
    BY <2>2, OwnersChange
  <2>3. CASE WatchFails
    <3>1. ~watching' /\ Registered = {} /\ Found = {}
      BY <2>3 DEF WatchFails, PassInv, WatchStands
    <3> QED BY <2>3, <3>1, SameOwners DEF WatchFails
  <2>4. CASE ReadEntryNames \/ (\E r \in Rotation : OpenDisappeared(r))
    <3>1. UNCHANGED <<found, rotation, fds>> /\ pc' = "open"
      BY <2>4 DEF ReadEntryNames, OpenDisappeared
    <3> QED BY <3>1, SameOwners
  <2>5. CASE \/ WatchDirectory \/ CheckContext \/ ContextDone \/ Drain \/ Decide
             \/ BetweenPasses \/ WatcherFails
             \/ \E reason \in Discontinuity \cup {"other"} : ReaderFails(reason)
    <3>1. UNCHANGED <<found, rotation, fds>>
      BY <2>5 DEF WatchDirectory, CheckContext, ContextDone, Drain, StartReader,
                  ApplyRecord, FinishReader, AllDrained, Decide, WatchInvalidated,
                  CutOver, AwaitReport, Reconciled, NextPass, BetweenPasses,
                  RescanInterval, WaitReturns, IdentityHolds, SourceEnds, DrainAgain,
                  DrainDeadline, ReportUnclean, WatcherFails, ReaderFails
    <3>2. pc # "open"
      BY <2>5 DEF WatchDirectory, CheckContext, ContextDone, Drain, StartReader,
                  ApplyRecord, FinishReader, AllDrained, Decide, WatchInvalidated,
                  CutOver, AwaitReport, Reconciled, NextPass, BetweenPasses,
                  RescanInterval, WaitReturns, IdentityHolds, SourceEnds, DrainAgain,
                  DrainDeadline, ReportUnclean, WatcherFails, ReaderFails
    <3>3. pc' \notin {"watch", "end"}
      BY <2>5 DEF WatchDirectory, CheckContext, ContextDone, Fail, Drain, StartReader,
                  ApplyRecord, FinishReader, AllDrained, Decide, WatchInvalidated,
                  CutOver, AwaitReport, Reconciled, NextPass, BetweenPasses,
                  RescanInterval, WaitReturns, IdentityHolds, SourceEnds, DrainAgain,
                  DrainDeadline, ReportUnclean, WatcherFails, ReaderFails, TypeOK,
                  PassTypeOK
    <3> QED BY <3>1, <3>2, <3>3, SameOwners
  <2>6. CASE TimerExpires \/ Cancel \/ UNCHANGED vars
    <3>1. UNCHANGED <<found, rotation, fds, pc>> /\ watching' = watching
      BY <2>6 DEF TimerExpires, Cancel, vars
    <3> QED BY <3>1, SameOwners DEF DescriptorsAreOwned
  <2> QED BY <2>1, <2>2, <2>3, <2>4, <2>5, <2>6 DEF Next, Step, Scan, PassFails
<1>3. OwnerInv => DescriptorsAreOwned
  BY DEF OwnerInv
<1> QED BY <1>1, <1>2, <1>3, TypeCorrect, PassInvariant, PTL DEF Spec

-----------------------------------------------------------------------------
(***************************************************************************)
(* Unclean closes.  The last pass ends at the true end of the source, and  *)
(* what it found stays true until Close unless an event is queued.         *)
(***************************************************************************)

(***************************************************************************)
(* ReportUnclean is the only way to the close of a session without error.  *)
(***************************************************************************)
LEMMA OnlyReportLeadsToCleanClose ==
    ASSUME TypeOK, Step \/ PassFails, ~ReportUnclean
    PROVE  pc' # "close" \/ err' # "none"
<1>1. ASSUME NEW reason, reason # "none", Fail(reason)
      PROVE  err' # "none"
  BY <1>1 DEF Fail
<1>2. CASE ContextDone \/ WatchInvalidated \/ WatcherFails
  BY <1>1, <1>2 DEF ContextDone, WatchInvalidated, WatcherFails
<1>3. ASSUME NEW reason \in Discontinuity \cup {"other"},
             ScanFails(reason) \/ ReaderFails(reason)
      PROVE  err' # "none"
  BY <1>1, <1>3 DEF ScanFails, ReaderFails, Discontinuity
<1>4. CASE WatchDirectory \/ CheckContext \/ Close \/ WatchFails
  BY <1>4 DEF WatchDirectory, CheckContext, Close, WatchFails
<1>5. CASE Scan
  BY <1>5 DEF Scan, ReadEntryNames, OpenDisappeared, OpenReport, RegisterFound
<1>6. CASE Drain
  BY <1>6 DEF Drain, StartReader, ApplyRecord, FinishReader, AllDrained
<1>7. CASE CutOver \/ AwaitReport \/ Reconciled \/ NextPass
  BY <1>7 DEF CutOver, AwaitReport, Reconciled, NextPass, TypeOK, PassTypeOK
<1>8. CASE BetweenPasses
  BY <1>8 DEF BetweenPasses, RescanInterval, WaitReturns, IdentityHolds, SourceEnds,
              DrainAgain, DrainDeadline
<1> QED BY <1>2, <1>3, <1>4, <1>5, <1>6, <1>7, <1>8 DEF Step, Decide, PassFails

(***************************************************************************)
(* The unclean report is exact, for any number of reports and under every  *)
(* fault (DrainSource).                                                    *)
(***************************************************************************)
THEOREM UncleanExact == Spec => []UncleanReportIsExact
<1>1. Init => UncleanInv
  BY DEF Init, UncleanInv
<1>2. TypeOK /\ PassInv /\ UncleanInv /\ [Next]_vars => UncleanInv'
  <2> SUFFICES ASSUME TypeOK, PassInv, UncleanInv, [Next]_vars,
                      pc' = "close", err' = "none", ~events'.changed
               PROVE  /\ \A r \in Rotation : slot'[r] # None => slot'[r] \in Registered'
                      /\ \A g \in Registered' : applied'[g] = written'[g]
                      /\ unclean' = {g \in Registered' : ~closedSeen'[g]}
    BY DEF UncleanInv
  <2> USE DEF sessionVars, scanVars, registryVars, passVars, endVars, sourceVars,
              directoryVars, watchVars
  <2>1. CASE Source
    <3>1. UNCHANGED <<pc, err, unclean, rotation, applied, closedSeen>>
      BY <2>1 DEF Source
    <3>2. watching
      BY <3>1 DEF PassInv, WatchStands
    <3>3. ~events.changed /\ UNCHANGED <<slot, written, bracket>>
      BY <2>1, <3>2, SourceStepQueuesEvent DEF Source
    <3> QED BY <3>1, <3>3 DEF UncleanInv, Registered
  <2>2. CASE ReportUnclean
    <3>1. /\ pc = "report" /\ err = "none" /\ ~events.changed
          /\ UNCHANGED <<slot, written, rotation, applied, closedSeen>>
          /\ unclean' = {g \in Registered : ~closedSeen[g]}
      BY <2>2 DEF ReportUnclean
    <3> QED BY <3>1 DEF PassInv, DrainedSoFar, AtRest, Registered
  <2>3. CASE TimerExpires \/ Cancel \/ UNCHANGED vars
    <3>1. UNCHANGED <<pc, err, unclean, rotation, applied, closedSeen, slot, written,
                      events>>
      BY <2>3 DEF TimerExpires, Cancel, vars
    <3> QED BY <3>1 DEF UncleanInv, Registered
  <2>4. CASE (Step \/ PassFails) /\ ~ReportUnclean
    BY <2>4, OnlyReportLeadsToCleanClose
  <2> QED BY <2>1, <2>2, <2>3, <2>4 DEF Next
<1>3. TypeOK /\ PassInv /\ UncleanInv => UncleanReportIsExact
  <2> SUFFICES ASSUME TypeOK, PassInv, UncleanInv,
                      pc = "close", err = "none", ~events.changed
               PROVE  /\ unclean = {g \in Registered : ~bracket[g]}
                      /\ \A g \in Generation : Linked(g) /\ ~bracket[g] => g \in unclean
    BY DEF UncleanReportIsExact
  <2>1. \A g \in Registered : closedSeen[g] <=> bracket[g]
    BY DEF UncleanInv, PassInv, WatermarksInFile, Registered
  <2>2. unclean = {g \in Registered : ~bracket[g]}
    BY <2>1 DEF UncleanInv
  <2>3. ASSUME NEW g \in Generation, Linked(g) PROVE g \in Registered
    BY <2>3 DEF UncleanInv, Linked, Generation
  <2> QED BY <2>2, <2>3
<1> QED BY <1>1, <1>2, <1>3, TypeCorrect, PassInvariant, PTL DEF Spec

-----------------------------------------------------------------------------
(***************************************************************************)
(* Order.  Reports move to higher rotations only, and stay in order, so    *)
(* the rotation noted of a report is at most the one it has now.           *)
(***************************************************************************)

(***************************************************************************)
(* Rotating files: a name points to a new generation, or to the one that a *)
(* name at the same or a lower rotation pointed to before.                 *)
(***************************************************************************)
LEMMA ReportsMoveUp ==
    ASSUME TypeOK, Bfusemon \/ Surroundings
    PROVE  /\ newest' \in {newest, newest + 1}
           /\ \A r \in Rotation : slot'[r] # None =>
                 \/ newest' = newest + 1 /\ slot'[r] = newest'
                 \/ \E s \in Rotation : s <= r /\ slot[s] = slot'[r]
<1> USE DEF TypeOK, SourceTypeOK, Rotation, Generation
<1>1. CASE UNCHANGED <<slot, newest>>
  BY <1>1
<1>2. CASE DeleteOldest
  <2>1. newest' = newest /\ slot' = [slot EXCEPT ![MaxRotation] = None]
    BY <1>2 DEF DeleteOldest
  <2>2. ASSUME NEW r \in Rotation, slot'[r] # None
        PROVE  \E s \in Rotation : s <= r /\ slot[s] = slot'[r]
    <3>1. slot[r] = slot'[r] /\ r <= r
      BY <2>1, <2>2
    <3> QED BY <3>1
  <2> QED BY <2>1, <2>2
<1>3. CASE ShiftUp
  <2>1. /\ newest' = newest /\ shift \in 1..MaxRotation
        /\ slot' = [slot EXCEPT ![shift] = slot[shift - 1], ![shift - 1] = None]
    BY <1>3 DEF ShiftUp
  <2>2. ASSUME NEW r \in Rotation, slot'[r] # None
        PROVE  \E s \in Rotation : s <= r /\ slot[s] = slot'[r]
    <3>1. CASE r = shift
      <4>1. shift - 1 \in Rotation /\ shift - 1 <= r /\ slot[shift - 1] = slot'[r]
        BY <2>1, <3>1
      <4> QED BY <4>1
    <3>2. CASE r # shift
      <4>1. slot[r] = slot'[r] /\ r <= r
        BY <2>1, <2>2, <3>2
      <4> QED BY <4>1
    <3> QED BY <3>1, <3>2
  <2> QED BY <2>1, <2>2
<1>4. CASE CreateCurrent
  <2>1. newest' = newest + 1 /\ slot' = [slot EXCEPT ![0] = newest']
    BY <1>4 DEF CreateCurrent
  <2>2. ASSUME NEW r \in Rotation, slot'[r] # None, r # 0
        PROVE  \E s \in Rotation : s <= r /\ slot[s] = slot'[r]
    <3>1. slot[r] = slot'[r] /\ r <= r
      BY <2>1, <2>2
    <3> QED BY <3>1
  <2>3. slot'[0] = newest'
    BY <2>1
  <2> QED BY <2>1, <2>2, <2>3
<1>5. CASE \/ \E last \in BOOLEAN : WriteRecord(last)
           \/ StartRotation \/ EndProcess \/ Surroundings
  <2>1. UNCHANGED <<slot, newest>>
    BY <1>5 DEF WriteRecord, StartRotation, EndProcess, Surroundings,
                UnrelatedActivity, QueueOverflow, InvalidateWatch, directoryVars
  <2> QED BY <1>1, <2>1
<1> QED BY <1>2, <1>3, <1>4, <1>5 DEF Bfusemon

(***************************************************************************)
(* A higher rotation holds an older report, whatever bfusemon does.        *)
(***************************************************************************)
LEMMA SlotsStayOrdered ==
    ASSUME TypeOK, SlotsHoldNewestFirst, Bfusemon \/ Surroundings
    PROVE  SlotsHoldNewestFirst'
<1> USE DEF TypeOK, SourceTypeOK, Rotation, Generation
<1>1. \A r \in Rotation : slot[r] \in Int /\ slot[r] <= newest
  BY DEF SlotsHoldNewestFirst
<1>2. newest \in Int /\ newest >= 0
  OBVIOUS
<1>3. \A r, s \in Rotation : r < s /\ slot[r] # None /\ slot[s] # None =>
          slot[r] > slot[s]
  BY DEF SlotsHoldNewestFirst
<1>4. CASE DeleteOldest
  <2>1. newest' = newest /\ slot' = [slot EXCEPT ![MaxRotation] = None]
    BY <1>4 DEF DeleteOldest
  <2>2. \A r \in Rotation : slot'[r] = slot[r] \/ slot'[r] = None
    BY <2>1
  <2> QED BY <1>1, <1>2, <1>3, <2>1, <2>2 DEF SlotsHoldNewestFirst
<1>5. CASE ShiftUp
  <2>1. /\ newest' = newest /\ shift \in 1..MaxRotation
        /\ slot' = [slot EXCEPT ![shift] = slot[shift - 1], ![shift - 1] = None]
    BY <1>5 DEF ShiftUp
  <2>2. /\ \A r \in Rotation : r # shift /\ r # shift - 1 => slot'[r] = slot[r]
        /\ slot'[shift] = slot[shift - 1] /\ slot'[shift - 1] = None
        /\ shift \in Rotation /\ shift - 1 \in Rotation
    BY <2>1
  <2>3. \A r \in Rotation : slot'[r] <= newest
    BY <1>1, <1>2, <2>2
  <2>4. ASSUME NEW r \in Rotation, NEW s \in Rotation, r < s, slot'[r] # None,
               slot'[s] # None
        PROVE  slot'[r] > slot'[s]
    <3>1. CASE s = shift
      <4>1. r # shift /\ r # shift - 1 /\ r < shift - 1
        BY <2>1, <2>2, <2>4, <3>1
      <4> QED BY <1>3, <2>2, <2>4, <3>1, <4>1
    <3>2. CASE r = shift
      <4>1. s # shift /\ s # shift - 1 /\ shift - 1 < s
        BY <2>1, <2>2, <2>4, <3>2
      <4> QED BY <1>3, <2>2, <2>4, <3>2, <4>1
    <3>3. CASE r # shift /\ s # shift
      BY <1>3, <2>2, <2>4, <3>3
    <3> QED BY <3>1, <3>2, <3>3
  <2> QED BY <2>1, <2>3, <2>4 DEF SlotsHoldNewestFirst
<1>6. CASE CreateCurrent
  <2>1. newest' = newest + 1 /\ slot' = [slot EXCEPT ![0] = newest']
    BY <1>6 DEF CreateCurrent
  <2>2. slot'[0] = newest + 1 /\ \A r \in Rotation : r # 0 => slot'[r] = slot[r]
    BY <2>1
  <2>3. \A r \in Rotation : slot'[r] <= newest'
    BY <1>1, <1>2, <2>1, <2>2
  <2>4. ASSUME NEW r \in Rotation, NEW s \in Rotation, r < s, slot'[r] # None,
               slot'[s] # None
        PROVE  slot'[r] > slot'[s]
    <3>1. s # 0 /\ slot'[s] = slot[s] /\ slot[s] <= newest
      BY <1>1, <2>2, <2>4
    <3>2. CASE r = 0
      BY <1>1, <1>2, <2>2, <3>1, <3>2
    <3>3. CASE r # 0
      BY <1>3, <2>2, <2>4, <3>1, <3>3
    <3> QED BY <3>2, <3>3
  <2> QED BY <2>3, <2>4 DEF SlotsHoldNewestFirst
<1>7. CASE \/ \E last \in BOOLEAN : WriteRecord(last)
           \/ StartRotation \/ EndProcess \/ Surroundings
  <2>1. UNCHANGED <<slot, newest>>
    BY <1>7 DEF WriteRecord, StartRotation, EndProcess, Surroundings,
                UnrelatedActivity, QueueOverflow, InvalidateWatch, directoryVars
  <2> QED BY <2>1 DEF SlotsHoldNewestFirst
<1> QED BY <1>4, <1>5, <1>6, <1>7 DEF Bfusemon

(***************************************************************************)
(* A step of the source queues an event, or leaves the rotations the pass  *)
(* noted current; in no case does it move a report below them.             *)
(***************************************************************************)
LEMMA SourceStepKeepsOrderInv ==
    ASSUME TypeOK, PassInv, OrderInv, Source
    PROVE  OrderInv'
<1> USE DEF OrderInv, Source
<1>1. UNCHANGED <<pc, names, found, rotation, todo, reading>>
  BY DEF sessionVars, scanVars, registryVars, passVars
<1>2. SlotsHoldNewestFirst'
  BY SlotsStayOrdered
<1>3. /\ newest' \in {newest, newest + 1} /\ newest \in Int
      /\ \A r \in Rotation : slot'[r] # None =>
            \/ newest' = newest + 1 /\ slot'[r] = newest'
            \/ \E s \in Rotation : s <= r /\ slot[s] = slot'[r]
  BY ReportsMoveUp DEF TypeOK, SourceTypeOK, Generation
<1>4. SeenAreCreated'
  BY <1>1, <1>3 DEF SeenAreCreated, Generation
<1>5. RotationsLag'
  <2> SUFFICES ASSUME NEW r \in Rotation, slot'[r] # None
               PROVE  found[slot'[r]] <= r /\ rotation[slot'[r]] <= r
    BY <1>1 DEF RotationsLag
  <2>1. SourceTypeOK'
    BY SourceStepKeepsTypes DEF TypeOK
  <2>2. slot'[r] \in Generation /\ r \in Int /\ r >= 0
    BY <2>1 DEF SourceTypeOK, Rotation
  <2>3. CASE newest' = newest + 1 /\ slot'[r] = newest'
    <3>1. found[slot'[r]] = NotFound /\ rotation[slot'[r]] = NotFound
      BY <1>3, <2>2, <2>3 DEF SeenAreCreated
    <3> QED BY <2>2, <3>1
  <2>4. ASSUME NEW s \in Rotation, s <= r, slot[s] = slot'[r]
        PROVE  found[slot'[r]] <= r /\ rotation[slot'[r]] <= r
    <3>1. found[slot[s]] <= s /\ rotation[slot[s]] <= s
      BY <2>4 DEF RotationsLag
    <3>2. found[slot[s]] \in Int /\ rotation[slot[s]] \in Int /\ s \in Int
      BY <2>2, <2>4 DEF TypeOK, PassTypeOK, RegistryTypeOK, Rotation
    <3> QED BY <2>2, <2>4, <3>1, <3>2
  <2> QED BY <1>3, <2>3, <2>4
<1>6. CASE events'.changed
  BY <1>2, <1>4, <1>5, <1>6 DEF RotationsAreCurrent, QuietPassReadsOldestFirst
<1>7. CASE pc \notin {"open", "drain"}
  BY <1>1, <1>2, <1>4, <1>5, <1>7 DEF RotationsAreCurrent, QuietPassReadsOldestFirst
<1>8. CASE ~events'.changed /\ pc \in {"open", "drain"}
  <2>1. watching
    BY <1>8 DEF PassInv, WatchStands
  <2>2. ~events.changed /\ UNCHANGED slot
    BY <1>8, <2>1, SourceStepQueuesEvent
  <2> QED BY <1>1, <1>2, <1>4, <1>5, <2>2
          DEF RotationsAreCurrent, QuietPassReadsOldestFirst, Linked
<1> QED BY <1>6, <1>7, <1>8

(***************************************************************************)
(* The scan notes the rotation each report has, if nothing moves.          *)
(***************************************************************************)
LEMMA ScanKeepsOrderInv ==
    ASSUME TypeOK, OrderInv, Scan
    PROVE  OrderInv'
<1> USE DEF OrderInv, registryVars, passVars, scanVars, sourceVars, directoryVars,
            watchVars
<1>1. UNCHANGED <<slot, newest, events>> /\ pc \in {"names", "open"}
  BY DEF Scan, ReadEntryNames, OpenDisappeared, OpenReport, RegisterFound
<1>2. SlotsHoldNewestFirst'
  BY <1>1 DEF SlotsHoldNewestFirst
<1>3. CASE ReadEntryNames
  <2>1. UNCHANGED <<found, rotation, todo, reading>> /\ pc' = "open"
        /\ names' = {r \in Rotation : slot[r] # None}
    BY <1>3 DEF ReadEntryNames
  <2> QED BY <1>1, <1>2, <2>1
          DEF SeenAreCreated, RotationsLag, RotationsAreCurrent,
              QuietPassReadsOldestFirst
<1>4. ASSUME NEW r \in Rotation, OpenDisappeared(r) PROVE OrderInv'
  <2>1. UNCHANGED <<found, rotation, todo, reading>> /\ pc' = "open" /\ pc = "open"
        /\ names' = names \ {r} /\ slot[r] = None
    BY <1>4 DEF OpenDisappeared
  <2> QED BY <1>1, <1>2, <2>1
          DEF SeenAreCreated, RotationsLag, RotationsAreCurrent,
              QuietPassReadsOldestFirst
<1>5. ASSUME NEW r \in Rotation, OpenReport(r) PROVE OrderInv'
  <2>1. /\ UNCHANGED <<rotation, todo, reading>> /\ pc' = "open" /\ pc = "open"
        /\ names' = names \ {r} /\ slot[r] # None
        /\ found' = [found EXCEPT ![slot[r]] = IF r > @ THEN r ELSE @]
    BY <1>5 DEF OpenReport
  <2>2. slot[r] \in Generation /\ slot[r] <= newest
    BY <2>1 DEF SlotsHoldNewestFirst, TypeOK, SourceTypeOK
  <2>3. found[slot[r]] <= r
    BY <2>1 DEF RotationsLag
  <2>4. found[slot[r]] \in Int /\ r \in Int
    BY <2>2 DEF TypeOK, PassTypeOK, Rotation
  <2>5. found'[slot[r]] = r
    BY <2>1, <2>2, <2>3, <2>4 DEF TypeOK, PassTypeOK
  <2>6. \A g \in Generation : g # slot[r] => found'[g] = found[g]
    BY <2>1
  <2>7. SeenAreCreated'
    BY <1>1, <2>1, <2>2, <2>6 DEF SeenAreCreated, Generation, TypeOK, SourceTypeOK
  <2>8. ASSUME NEW s \in Rotation, slot[s] = slot[r]
        PROVE  s = r
    BY <2>1, <2>2, <2>8 DEF SlotsHoldNewestFirst, Generation, Rotation
  <2>9. \A s \in Rotation : slot[s] # None => slot[s] \in Generation
    BY DEF TypeOK, SourceTypeOK
  <2>10. RotationsLag'
    <3> SUFFICES ASSUME NEW s \in Rotation, slot[s] # None
                 PROVE  found'[slot[s]] <= s /\ rotation[slot[s]] <= s
      BY <1>1, <2>1 DEF RotationsLag
    <3>1. found[slot[s]] <= s /\ rotation[slot[s]] <= s
      BY DEF RotationsLag
    <3>2. CASE slot[s] = slot[r]
      BY <2>4, <2>5, <2>8, <3>1, <3>2
    <3>3. CASE slot[s] # slot[r]
      BY <2>6, <2>9, <3>1, <3>3
    <3> QED BY <3>2, <3>3
  <2>11. ASSUME ~events.changed, NEW s \in Rotation, slot[s] # None, s \notin names'
         PROVE  found'[slot[s]] = s
    <3>1. CASE slot[s] = slot[r]
      BY <2>5, <2>8, <3>1
    <3>2. CASE slot[s] # slot[r]
      BY <2>1, <2>6, <2>9, <2>11, <3>2 DEF RotationsAreCurrent
    <3> QED BY <3>1, <3>2
  <2>12. RotationsAreCurrent' /\ QuietPassReadsOldestFirst'
    BY <1>1, <2>1, <2>11 DEF RotationsAreCurrent, QuietPassReadsOldestFirst
  <2> QED BY <1>2, <2>7, <2>10, <2>12
<1>6. CASE RegisterFound
  <2>1. /\ pc = "open" /\ names = {} /\ pc' = "drain" /\ reading' = None
        /\ rotation' = [g \in Generation |->
                           IF found[g] > rotation[g] THEN found[g] ELSE rotation[g]]
        /\ found' = [g \in Generation |-> NotFound]
    BY <1>6 DEF RegisterFound
  <2>2. SeenAreCreated'
    BY <1>1, <2>1 DEF SeenAreCreated
  <2>3. \A s \in Rotation : slot[s] # None => slot[s] \in Generation /\ s >= 0
    BY DEF TypeOK, SourceTypeOK, Rotation
  <2>4. RotationsLag'
    <3> SUFFICES ASSUME NEW s \in Rotation, slot[s] # None
                 PROVE  found'[slot[s]] <= s /\ rotation'[slot[s]] <= s
      BY <1>1 DEF RotationsLag
    <3>1. found[slot[s]] <= s /\ rotation[slot[s]] <= s
      BY DEF RotationsLag
    <3>2. found'[slot[s]] = NotFound
      BY <2>1, <2>3
    <3>3. rotation'[slot[s]] = IF found[slot[s]] > rotation[slot[s]]
                               THEN found[slot[s]] ELSE rotation[slot[s]]
      BY <2>1, <2>3
    <3> QED BY <2>3, <3>1, <3>2, <3>3 DEF Rotation
  <2>5. ASSUME ~events.changed, NEW s \in Rotation, slot[s] # None
        PROVE  rotation'[slot[s]] = s
    <3>1. found[slot[s]] = s /\ rotation[slot[s]] <= s
      BY <2>1, <2>5 DEF RotationsAreCurrent, RotationsLag
    <3>2. slot[s] \in Generation /\ rotation[slot[s]] \in Int /\ s \in Int
      BY <2>3, <2>5 DEF TypeOK, RegistryTypeOK, Rotation
    <3> QED BY <2>1, <3>1, <3>2
  <2>6. RotationsAreCurrent' /\ QuietPassReadsOldestFirst'
    BY <1>1, <2>1, <2>5 DEF RotationsAreCurrent, QuietPassReadsOldestFirst
  <2> QED BY <1>2, <2>2, <2>4, <2>6
<1> QED BY <1>3, <1>4, <1>5, <1>6 DEF Scan

(***************************************************************************)
(* The next reader is the oldest one left: its rotation is the highest.    *)
(***************************************************************************)
LEMMA DrainKeepsOrderInv ==
    ASSUME TypeOK, OrderInv, Drain
    PROVE  OrderInv'
<1> USE DEF OrderInv, registryVars, passVars, scanVars, sourceVars, directoryVars,
            watchVars
<1>1. /\ UNCHANGED <<slot, newest, events, names, found, rotation>>
      /\ pc = "drain" /\ pc' \in {"drain", "events"}
  BY DEF Drain, StartReader, ApplyRecord, FinishReader, AllDrained
<1>2. SlotsHoldNewestFirst' /\ SeenAreCreated' /\ RotationsLag' /\ RotationsAreCurrent'
  BY <1>1 DEF SlotsHoldNewestFirst, SeenAreCreated, RotationsLag, RotationsAreCurrent
<1>3. ASSUME NEW g \in Generation, StartReader(g) PROVE QuietPassReadsOldestFirst'
  <2>1. todo' = todo /\ reading' = g /\ \A h \in todo : ~Before(h, g)
    BY <1>3 DEF StartReader
  <2> SUFFICES ASSUME ~events.changed, NEW s \in Rotation, slot[s] = g,
                      NEW r \in Rotation, slot[r] \in todo, slot[r] < g
               PROVE  FALSE
    BY <1>1, <2>1 DEF QuietPassReadsOldestFirst, Linked, TypeOK, PassTypeOK, Generation
  <2>2. slot[r] \in Generation /\ r \in Int /\ s \in Int
    BY DEF TypeOK, PassTypeOK, Rotation
  <2>3. rotation[slot[r]] = r /\ rotation[g] = s
    BY <1>1, <2>2 DEF RotationsAreCurrent, Generation
  <2>4. r > s
    BY <2>2 DEF SlotsHoldNewestFirst, Generation
  <2> QED BY <2>1, <2>3, <2>4 DEF Before
<1>4. CASE ApplyRecord \/ FinishReader \/ AllDrained
  <2>1. todo' \subseteq todo /\ (reading' = reading \/ reading' = None)
    BY <1>4 DEF ApplyRecord, FinishReader, AllDrained
  <2>2. CASE reading' = reading
    BY <1>1, <1>2, <2>1, <2>2 DEF QuietPassReadsOldestFirst, Linked
  <2>3. CASE reading' = None
    BY <1>2, <2>3 DEF QuietPassReadsOldestFirst
  <2> QED BY <2>1, <2>2, <2>3
<1> QED BY <1>2, <1>3, <1>4 DEF Drain

(***************************************************************************)
(* The steps outside the scan and the drain of a pass note no rotation.    *)
(***************************************************************************)
LEMMA OtherStepKeepsOrderInv ==
    ASSUME TypeOK, OrderInv,
           \/ WatchDirectory \/ CheckContext \/ ContextDone \/ Decide
           \/ BetweenPasses \/ Close \/ PassFails \/ TimerExpires \/ Cancel
    PROVE  OrderInv'
<1> USE DEF OrderInv, registryVars, passVars, scanVars
<1>1. UNCHANGED <<slot, newest>>
  BY SessionStepKeepsSourceTypes DEF TypeOK, Step, directoryVars
<1>2. SlotsHoldNewestFirst'
  BY <1>1 DEF SlotsHoldNewestFirst
<1>3. CASE TimerExpires \/ Cancel
  <2>1. UNCHANGED <<events, pc, names, found, rotation, todo, reading>>
    BY <1>3 DEF TimerExpires, Cancel, sourceVars, watchVars
  <2> QED BY <1>1, <1>2, <2>1 DEF SeenAreCreated, RotationsLag, RotationsAreCurrent,
                                  QuietPassReadsOldestFirst, Linked
<1>4. ASSUME pc' \notin {"open", "drain"},
             found' = found \/ found' = [g \in Generation |-> NotFound],
             rotation' = rotation \/ rotation' = [g \in Generation |-> NotFound]
      PROVE  OrderInv'
  <2>1. SeenAreCreated'
    BY <1>1, <1>4 DEF SeenAreCreated
  <2>2. \A r \in Rotation : slot[r] # None => slot[r] \in Generation /\ r >= 0
    BY DEF TypeOK, SourceTypeOK, Rotation
  <2>3. RotationsLag'
    <3> SUFFICES ASSUME NEW r \in Rotation, slot[r] # None
                 PROVE  found'[slot[r]] <= r /\ rotation'[slot[r]] <= r
      BY <1>1 DEF RotationsLag
    <3>1. found[slot[r]] <= r /\ rotation[slot[r]] <= r
      BY DEF RotationsLag
    <3>2. found'[slot[r]] = found[slot[r]] \/ found'[slot[r]] = NotFound
      BY <1>4, <2>2
    <3>3. rotation'[slot[r]] = rotation[slot[r]] \/ rotation'[slot[r]] = NotFound
      BY <1>4, <2>2
    <3> QED BY <2>2, <3>1, <3>2, <3>3 DEF Rotation
  <2> QED BY <1>2, <1>4, <2>1, <2>3 DEF RotationsAreCurrent, QuietPassReadsOldestFirst
<1>5. ASSUME NEW reason, Fail(reason)
      PROVE  pc' \in {"report", "close"}
  BY <1>5 DEF Fail
<1>6. CASE ContextDone \/ WatchInvalidated \/ WatcherFails
  <2>1. pc' \in {"report", "close"} /\ UNCHANGED <<found, rotation>>
    BY <1>5, <1>6 DEF ContextDone, WatchInvalidated, WatcherFails
  <2> QED BY <1>4, <2>1
<1>7. ASSUME NEW reason \in Discontinuity \cup {"other"},
             ScanFails(reason) \/ ReaderFails(reason)
      PROVE  OrderInv'
  <2>1. pc' \in {"report", "close"} /\ UNCHANGED rotation
    BY <1>5, <1>7 DEF ScanFails, ReaderFails
  <2>2. found' = found \/ found' = [g \in Generation |-> NotFound]
    BY <1>7 DEF ScanFails, ReaderFails
  <2> QED BY <1>4, <2>1, <2>2
<1>8. CASE \/ WatchDirectory \/ CheckContext \/ CutOver \/ AwaitReport \/ Reconciled
           \/ NextPass \/ BetweenPasses \/ WatchFails
  <2>1. UNCHANGED <<found, rotation>>
    BY <1>8 DEF WatchDirectory, CheckContext, CutOver, AwaitReport, Reconciled,
                NextPass, BetweenPasses, RescanInterval, WaitReturns, IdentityHolds,
                SourceEnds, DrainAgain, DrainDeadline, ReportUnclean, WatchFails
  <2>2. pc' \notin {"open", "drain"}
    BY <1>8 DEF WatchDirectory, CheckContext, CutOver, AwaitReport, Reconciled,
                NextPass, BetweenPasses, RescanInterval, WaitReturns, IdentityHolds,
                SourceEnds, DrainAgain, DrainDeadline, ReportUnclean, WatchFails,
                TypeOK, PassTypeOK
  <2> QED BY <1>4, <2>1, <2>2
<1>9. CASE Close
  <2>1. pc' = "end" /\ found' = found /\ rotation' = [g \in Generation |-> NotFound]
    BY <1>9 DEF Close
  <2> QED BY <1>4, <2>1
<1> QED BY <1>3, <1>6, <1>7, <1>8, <1>9 DEF Decide, PassFails

(***************************************************************************)
(* A pass that nothing disturbs reads the reports in the order they were   *)
(* written, on a coarse clock too: the reports still in the directory have *)
(* rotations of their own, so no modification time decides.                *)
(***************************************************************************)
THEOREM QuietPassesReadInOrder == Spec => []QuietPassReadsOldestFirst
<1>1. Init => OrderInv
  BY DEF Init, SourceInit, OrderInv, SlotsHoldNewestFirst, SeenAreCreated,
         RotationsLag, RotationsAreCurrent, QuietPassReadsOldestFirst
<1>2. TypeOK /\ PassInv /\ OrderInv /\ [Next]_vars => OrderInv'
  <2> SUFFICES ASSUME TypeOK, PassInv, OrderInv, [Next]_vars PROVE OrderInv'
    OBVIOUS
  <2>1. CASE Source
    BY <2>1, SourceStepKeepsOrderInv
  <2>2. CASE Scan
    BY <2>2, ScanKeepsOrderInv
  <2>3. CASE Drain
    BY <2>3, DrainKeepsOrderInv
  <2>4. CASE \/ WatchDirectory \/ CheckContext \/ ContextDone \/ Decide
             \/ BetweenPasses \/ Close \/ PassFails \/ TimerExpires \/ Cancel
    BY <2>4, OtherStepKeepsOrderInv
  <2>5. CASE UNCHANGED vars
    BY <2>5 DEF vars, sourceVars, directoryVars, watchVars, sessionVars, scanVars,
                registryVars, passVars, OrderInv, SlotsHoldNewestFirst,
                SeenAreCreated, RotationsLag, RotationsAreCurrent,
                QuietPassReadsOldestFirst, Linked
  <2> QED BY <2>1, <2>2, <2>3, <2>4, <2>5 DEF Next, Step
<1>3. OrderInv => QuietPassReadsOldestFirst
  BY DEF OrderInv
<1> QED BY <1>1, <1>2, <1>3, TypeCorrect, PassInvariant, PTL DEF Spec

-----------------------------------------------------------------------------
(***************************************************************************)
(* Counting.  The generations continue each other's counter, so a reader   *)
(* whose end is no lower than the highest value applied stands no lower    *)
(* itself: what it applies next is an increase.                            *)
(***************************************************************************)

(***************************************************************************)
(* The values the invariant compares are numbers.                          *)
(***************************************************************************)
LEMMA CounterTypes ==
    ASSUME TypeOK
    PROVE  /\ newest \in Nat /\ Generation \subseteq Nat \ {0}
           /\ \A g \in Generation : first[g] \in Nat /\ written[g] \in Nat
                                    /\ applied[g] \in Nat
           /\ Latest \in Nat /\ highest \in Nat /\ origin \in Nat /\ total \in Nat
           /\ resets \in Nat /\ base \in Nat \cup {Unobserved}
BY DEF TypeOK, SourceTypeOK, RegistryTypeOK, MetricTypeOK, Latest, Value, Generation

(***************************************************************************)
(* No generation ends above the latest value.                              *)
(***************************************************************************)
LEMMA LatestIsHighest ==
    ASSUME TypeOK, GenerationsContinue, NEW g \in Generation
    PROVE  Value(g, written[g]) <= Latest
<1> USE CounterTypes DEF Value, Latest, GenerationsContinue
<1>1. CASE g > newest
  BY <1>1
<1>2. CASE g = newest
  BY <1>2
<1>3. CASE g < newest
  <2>1. newest \in Generation
    BY <1>3 DEF TypeOK, SourceTypeOK
  <2>2. first[g] + written[g] <= first[newest]
    BY <1>3, <2>1
  <2> QED BY <1>3, <2>1, <2>2
<1> QED BY <1>1, <1>2, <1>3

(***************************************************************************)
(* bfusemon carries the counter on in every new report, and the latest     *)
(* value never falls.                                                      *)
(***************************************************************************)
LEMMA SourceStepContinues ==
    ASSUME TypeOK, GenerationsContinue, HighestWasApplied, Bfusemon \/ Surroundings,
           UNCHANGED <<highest, applied>>
    PROVE  GenerationsContinue' /\ HighestWasApplied'
<1> USE DEF Value
<1>1. /\ newest \in Nat /\ highest \in Nat /\ Latest \in Nat
      /\ \A g \in Generation : g \in Nat /\ g > 0
      /\ \A g \in Generation : first[g] \in Nat /\ written[g] \in Nat
                               /\ applied[g] \in Nat
  BY CounterTypes
<1>2. /\ \A g \in Generation : g > newest => first[g] = 0 /\ written[g] = 0
      /\ \A g, h \in Generation :
            g < h /\ h <= newest => first[g] + written[g] <= first[h]
  BY DEF GenerationsContinue
<1>3. /\ highest <= Latest
      /\ \A g \in Generation :
            highest <= first[g] + written[g] => highest <= first[g] + applied[g]
  BY DEF HighestWasApplied
<1>4. ASSUME NEW last \in BOOLEAN, WriteRecord(last)
      PROVE  GenerationsContinue' /\ HighestWasApplied'
  <2>1. /\ newest # None /\ newest' = newest /\ first' = first
        /\ written' = [written EXCEPT ![newest] = written[newest] + 1]
    BY <1>4 DEF WriteRecord
  <2>2. newest \in Generation /\ Latest = first[newest] + written[newest]
    BY <2>1 DEF TypeOK, SourceTypeOK, Latest
  <2>3. /\ written'[newest] = written[newest] + 1
        /\ \A g \in Generation : g # newest => written'[g] = written[g]
    BY <2>1, <2>2 DEF TypeOK, SourceTypeOK
  <2>4. GenerationsContinue'
    <3>1. \A g \in Generation : g > newest => first[g] = 0 /\ written'[g] = 0
      BY <1>1, <1>2, <2>2, <2>3
    <3>2. \A g, h \in Generation :
              g < h /\ h <= newest => first[g] + written'[g] <= first[h]
      BY <1>1, <1>2, <2>2, <2>3
    <3> QED BY <2>1, <3>1, <3>2 DEF GenerationsContinue
  <2>5. Latest' = Latest + 1
    BY <1>1, <2>1, <2>2, <2>3 DEF Latest
  <2>6. \A g \in Generation :
            highest <= first[g] + written'[g] => highest <= first[g] + applied[g]
    BY <1>1, <1>3, <2>2, <2>3
  <2> QED BY <1>1, <1>3, <2>1, <2>4, <2>5, <2>6 DEF HighestWasApplied
<1>5. CASE CreateCurrent
  <2>1. /\ newest' = newest + 1 /\ written' = written
        /\ first' = [first EXCEPT ![newest + 1] = Latest]
    BY <1>5 DEF CreateCurrent
  <2>2. newest + 1 \in Generation
    BY <1>5 DEF CreateCurrent, TypeOK, SourceTypeOK, Generation
  <2>3. /\ first'[newest + 1] = Latest /\ written[newest + 1] = 0
        /\ \A g \in Generation : g # newest + 1 => first'[g] = first[g]
    BY <1>1, <1>2, <2>1, <2>2 DEF TypeOK, SourceTypeOK
  <2>4. \A g \in Generation : first[g] + written[g] <= Latest
    BY LatestIsHighest
  <2>5. GenerationsContinue'
    <3>1. \A g \in Generation : g > newest + 1 => first'[g] = 0 /\ written[g] = 0
      BY <1>1, <1>2, <2>3
    <3>2. ASSUME NEW g \in Generation, NEW h \in Generation, g < h, h <= newest + 1
          PROVE  first'[g] + written[g] <= first'[h]
      <4>1. CASE h = newest + 1
        BY <1>1, <2>3, <2>4, <3>2, <4>1
      <4>2. CASE h # newest + 1
        BY <1>1, <1>2, <2>3, <3>2, <4>2
      <4> QED BY <4>1, <4>2
    <3> QED BY <2>1, <3>1, <3>2 DEF GenerationsContinue
  <2>6. Latest' = Latest
    BY <1>1, <2>1, <2>3 DEF Latest
  <2>7. \A g \in Generation :
            highest <= first'[g] + written[g] => highest <= first'[g] + applied[g]
    BY <1>1, <1>3, <2>3
  <2> QED BY <1>3, <2>1, <2>5, <2>6, <2>7 DEF HighestWasApplied
<1>6. CASE \/ StartRotation \/ DeleteOldest \/ ShiftUp \/ EndProcess \/ Surroundings
  <2>1. UNCHANGED <<newest, first, written>>
    BY <1>6 DEF StartRotation, DeleteOldest, ShiftUp, EndProcess, Surroundings,
                UnrelatedActivity, QueueOverflow, InvalidateWatch, directoryVars
  <2> QED BY <2>1 DEF GenerationsContinue, HighestWasApplied, Latest
<1> QED BY <1>4, <1>5, <1>6 DEF Bfusemon

(***************************************************************************)
(* State.Apply: read in order, a record's value is above the highest so    *)
(* far, which is the baseline, so it counts with its full increase.        *)
(***************************************************************************)
LEMMA ApplyRecordCounts ==
    ASSUME TypeOK, PassInv, CountInv, ApplyRecord
    PROVE  CountInv'
<1> DEFINE value == Value(reading, applied[reading] + 1)
<1>1. /\ newest \in Nat /\ Latest \in Nat /\ highest \in Nat /\ origin \in Nat
      /\ total \in Nat /\ base \in Nat \cup {Unobserved}
      /\ \A g \in Generation : g \in Nat /\ g > 0
      /\ \A g \in Generation : first[g] \in Nat /\ written[g] \in Nat
                               /\ applied[g] \in Nat
  BY CounterTypes
<1>2. /\ \A g \in Generation : g > newest => first[g] = 0 /\ written[g] = 0
      /\ \A g, h \in Generation :
            g < h /\ h <= newest => first[g] + written[g] <= first[h]
  BY DEF CountInv, GenerationsContinue, Value
<1>3. /\ highest <= Latest
      /\ \A g \in Generation :
            highest <= first[g] + written[g] => highest <= first[g] + applied[g]
  BY DEF CountInv, HighestWasApplied, Value
<1>4. /\ reading \in Generation /\ applied[reading] < written[reading]
      /\ applied' = [applied EXCEPT ![reading] = applied[reading] + 1]
      /\ base' = value
      /\ total' = total + Increment(Mode, base, value)
      /\ resets' = IF IsReset(Mode, base, value) THEN resets + 1 ELSE resets
      /\ inOrder' = (inOrder /\ highest <= Value(reading, written[reading]))
      /\ highest' = IF value > highest THEN value ELSE highest
      /\ origin' = IF Mode = "baseline" \/ base = Unobserved THEN highest' ELSE origin
      /\ UNCHANGED <<newest, first, written, stage>>
  BY DEF ApplyRecord, TypeOK, PassTypeOK, sourceVars, directoryVars
<1>5. /\ value = first[reading] + applied[reading] + 1 /\ value \in Nat /\ value > 0
      /\ value <= first[reading] + written[reading]
  BY <1>1, <1>4 DEF Value
<1> HIDE DEF value
<1>6. GenerationsContinue'
  BY <1>4 DEF CountInv, GenerationsContinue, Value
<1>7. highest' <= Latest'
  <2>1. first[reading] + written[reading] <= Latest
    BY <1>4, LatestIsHighest DEF CountInv, Value
  <2>2. Latest' = Latest
    BY <1>4 DEF Latest, Value
  <2> QED BY <1>1, <1>3, <1>4, <1>5, <2>1, <2>2
<1>8. ASSUME NEW g \in Generation, highest' <= first[g] + written[g]
      PROVE  highest' <= first[g] + applied'[g]
  <2>1. highest' \in Nat /\ highest <= highest' /\ value <= highest'
    BY <1>1, <1>4, <1>5
  <2>2. highest <= first[g] + written[g] /\ value <= first[g] + written[g]
    BY <1>1, <1>4, <1>5, <1>8, <2>1
  <2>3. highest <= first[g] + applied[g]
    BY <1>3, <2>2
  <2>4. CASE g = reading
    <3>1. applied'[g] = applied[g] + 1
      BY <1>4, <2>4 DEF TypeOK, RegistryTypeOK
    <3> QED BY <1>1, <1>4, <1>5, <2>3, <2>4, <3>1
  <2>5. CASE g < reading
    <3>1. reading <= newest
      BY <1>1, <1>2, <1>4
    <3>2. first[g] + written[g] <= first[reading]
      BY <1>2, <1>4, <2>5, <3>1
    <3> QED BY <1>1, <1>4, <1>5, <2>2, <3>2
  <2>6. CASE g > reading
    <3>1. g <= newest
      BY <1>1, <1>2, <1>5, <2>2
    <3>2. first[reading] + written[reading] <= first[g]
      BY <1>2, <1>4, <2>6, <3>1
    <3>3. applied'[g] = applied[g]
      BY <1>1, <1>4, <2>6
    <3> QED BY <1>1, <1>4, <1>5, <2>3, <3>2, <3>3
  <2> QED BY <1>1, <1>4, <2>4, <2>5, <2>6
<1>9. HighestWasApplied'
  BY <1>4, <1>7, <1>8 DEF HighestWasApplied, Value
<1>10. stage = "init" \/ base = Unobserved => total = 0
  BY DEF CountInv
<1>11. stage' = "init" \/ base' = Unobserved => total' = 0
  <2>1. CASE stage = "init"
    BY <1>4, <1>10, <2>1 DEF Mode, Increment
  <2>2. CASE stage # "init"
    BY <1>4, <1>5, <2>2
  <2> QED BY <2>1, <2>2
<1>12. CountsEachIncreaseOnce'
  <2> SUFFICES ASSUME inOrder'
               PROVE  resets' = 0 /\ base' = highest' /\ total' = highest' - origin'
    BY DEF CountsEachIncreaseOnce
  <2>1. inOrder /\ highest <= first[reading] + written[reading]
    BY <1>4 DEF Value
  <2>2. highest < value
    BY <1>1, <1>3, <1>4, <1>5, <2>1
  <2>3. highest' = value /\ base' = value
    BY <1>1, <1>4, <1>5, <2>2
  <2>4. resets = 0 /\ (base # Unobserved => base = highest /\ total = highest - origin)
    BY <2>1 DEF CountInv, CountsEachIncreaseOnce
  <2>5. ~IsReset(Mode, base, value)
    BY <1>1, <1>5, <2>2, <2>4 DEF IsReset
  <2>6. CASE Mode = "baseline" \/ base = Unobserved
    <3>1. origin' = highest' /\ total' = total /\ total = 0
      BY <1>1, <1>4, <1>10, <2>6 DEF Increment, Mode
    <3> QED BY <1>4, <1>5, <2>3, <2>4, <2>5, <3>1
  <2>7. CASE ~(Mode = "baseline" \/ base = Unobserved)
    <3>1. origin' = origin /\ total' = total + (value - highest)
      BY <1>1, <1>4, <1>5, <2>2, <2>4, <2>7 DEF Increment
    <3> QED BY <1>1, <1>4, <1>5, <2>3, <2>4, <2>5, <2>7, <3>1
  <2> QED BY <2>6, <2>7
<1> QED BY <1>6, <1>9, <1>11, <1>12 DEF CountInv

(***************************************************************************)
(* Only ApplyRecord reads a record, and no session goes back to its        *)
(* initialization.                                                         *)
(***************************************************************************)
LEMMA OtherStepCountsNothing ==
    ASSUME TypeOK, Step \/ PassFails \/ TimerExpires \/ Cancel, ~ApplyRecord
    PROVE  /\ UNCHANGED <<metricVars, applied>>
           /\ stage' = "init" => stage = "init"
<1> USE DEF registryVars
<1>1. CASE WatchDirectory \/ CheckContext \/ ContextDone \/ Close
  BY <1>1 DEF WatchDirectory, CheckContext, ContextDone, Close
<1>2. CASE Scan
  BY <1>2 DEF Scan, ReadEntryNames, OpenDisappeared, OpenReport, RegisterFound
<1>3. CASE Drain
  BY <1>3 DEF Drain, StartReader, FinishReader, AllDrained
<1>4. CASE Decide
  BY <1>4 DEF Decide, WatchInvalidated, CutOver, AwaitReport, Reconciled, NextPass
<1>5. CASE BetweenPasses
  BY <1>5 DEF BetweenPasses, RescanInterval, WaitReturns, IdentityHolds, SourceEnds,
              DrainAgain, DrainDeadline, ReportUnclean
<1>6. CASE PassFails \/ TimerExpires \/ Cancel
  BY <1>6 DEF PassFails, ScanFails, ReaderFails, WatchFails, WatcherFails,
              TimerExpires, Cancel
<1> QED BY <1>1, <1>2, <1>3, <1>4, <1>5, <1>6 DEF Step

(***************************************************************************)
(* As long as no generation is read after a newer one, each increase of    *)
(* the counter is exported once, and no reset is seen.                     *)
(***************************************************************************)
THEOREM IncreasesCountOnce == Spec => []CountsEachIncreaseOnce
<1>1. Init => CountInv
  <2> SUFFICES ASSUME Init PROVE CountInv
    OBVIOUS
  <2>1. /\ newest = 0 /\ highest = 0 /\ total = 0 /\ resets = 0 /\ base = Unobserved
        /\ \A g \in Generation : first[g] = 0 /\ written[g] = 0 /\ applied[g] = 0
    BY DEF Init, SourceInit
  <2> QED BY <2>1 DEF CountInv, GenerationsContinue, HighestWasApplied, Latest, Value,
                      CountsEachIncreaseOnce, Generation
<1>2. TypeOK /\ PassInv /\ CountInv /\ [Next]_vars => CountInv'
  <2> SUFFICES ASSUME TypeOK, PassInv, CountInv, [Next]_vars PROVE CountInv'
    OBVIOUS
  <2>1. CASE Source
    <3>1. UNCHANGED <<metricVars, applied, stage>>
      BY <2>1 DEF Source, sessionVars, registryVars
    <3>2. GenerationsContinue' /\ HighestWasApplied'
      BY <2>1, <3>1, SourceStepContinues DEF Source, CountInv, metricVars
    <3> QED BY <3>1, <3>2 DEF CountInv, CountsEachIncreaseOnce, metricVars
  <2>2. CASE ApplyRecord
    BY <2>2, ApplyRecordCounts
  <2>3. ASSUME UNCHANGED <<metricVars, applied, newest, first, written>>,
               stage' = "init" => stage = "init"
        PROVE  CountInv'
    BY <2>3 DEF CountInv, GenerationsContinue, HighestWasApplied, Latest, Value,
                CountsEachIncreaseOnce, metricVars
  <2>4. CASE (Step \/ PassFails \/ TimerExpires \/ Cancel) /\ ~ApplyRecord
    <3>1. UNCHANGED directoryVars
      BY <2>4, SessionStepKeepsSourceTypes DEF TypeOK
    <3> QED BY <2>3, <2>4, <3>1, OtherStepCountsNothing DEF directoryVars
  <2>5. CASE UNCHANGED vars
    BY <2>3, <2>5 DEF vars, sourceVars, directoryVars, sessionVars, registryVars
  <2> QED BY <2>1, <2>2, <2>4, <2>5 DEF Next
<1>3. CountInv => CountsEachIncreaseOnce
  BY DEF CountInv
<1> QED BY <1>1, <1>2, <1>3, TypeCorrect, PassInvariant, PTL DEF Spec
=============================================================================
