-------------------------- MODULE WaitSettingsProofs --------------------------
(***************************************************************************)
(* Theorems about the two small modules WatchWait and Settings: that Wait  *)
(* is punctual, for every length of a millisecond, poll interval and set   *)
(* of durations, and that settings that pass Validate are accepted by      *)
(* every stage, for every set of command lines and every duration.         *)
(***************************************************************************)
EXTENDS WatchWait, Settings, TLAPS

(***************************************************************************)
(* The wait of the watcher.                                                *)
(***************************************************************************)

PollTime(duration) == Millisecond * pollMilliseconds(duration)

(***************************************************************************)
(* The milliseconds of a poll cover its duration, and exceed it by less    *)
(* than one (pollMilliseconds).                                            *)
(***************************************************************************)
LEMMA PollTimeCovers ==
    ASSUME NEW d \in Nat
    PROVE  /\ PollTime(d) \in Nat
           /\ d <= PollTime(d) /\ PollTime(d) < d + Millisecond
           /\ d % Millisecond = 0 => PollTime(d) = d
<1> DEFINE q == d \div Millisecond
           r == d % Millisecond
<1>1. Millisecond \in Nat /\ Millisecond > 0
  BY MillisecondAssumption
<1>2. q \in Nat /\ r \in Nat /\ r < Millisecond /\ d = Millisecond * q + r
  BY <1>1, SMTT(30)
<1>3. Millisecond * q \in Nat /\ Millisecond * (q + 1) = Millisecond * q + Millisecond
  <2> HIDE DEF q
  <2> QED  BY <1>1, <1>2, SMTT(30)
<1>4. CASE r = 0
  <2>1. PollTime(d) = Millisecond * q
    <3>1. pollMilliseconds(d) = q + 0
      BY <1>4 DEF pollMilliseconds
    <3> QED  BY <3>1, <1>2 DEF PollTime
  <2> HIDE DEF q, r
  <2> QED  BY <2>1, <1>1, <1>2, <1>3, <1>4 DEF r
<1>5. CASE r # 0
  <2>1. PollTime(d) = Millisecond * (q + 1)
    BY <1>5 DEF PollTime, pollMilliseconds
  <2>2. d % Millisecond # 0
    BY <1>5
  <2> HIDE DEF q, r
  <2> QED  BY <2>1, <2>2, <1>1, <1>2, <1>3, <1>5
<1> QED  BY <1>4, <1>5

(***************************************************************************)
(* A poll is of the whole interval, or reaches the deadline and is less    *)
(* than a millisecond over it; either way it is within the interval        *)
(* (Wait).                                                                 *)
(***************************************************************************)
LEMMA PollIsWithinInterval ==
    ASSUME NEW left \in Nat \ {0}
    PROVE  LET t == PollTime(Shorter(left, PollInterval)) IN
           /\ t \in Nat /\ t > 0 /\ t <= PollInterval /\ t < left + Millisecond
           /\ t = PollInterval \/ t >= left
<1> DEFINE d == Shorter(left, PollInterval)
<1>1. /\ PollInterval \in Nat \ {0} /\ PollInterval % Millisecond = 0
      /\ Millisecond \in Nat \ {0}
  BY PollIntervalAssumption, MillisecondAssumption
<1>2. d \in Nat /\ d > 0 /\ d <= left /\ d <= PollInterval
  BY <1>1 DEF Shorter
<1>3. /\ PollTime(d) \in Nat /\ d <= PollTime(d) /\ PollTime(d) < d + Millisecond
  BY <1>2, PollTimeCovers
<1>4. CASE left < PollInterval
  <2>1. d = left
    BY <1>4 DEF Shorter
  \* the interval is a whole number of milliseconds, and so is the poll
  <2>2. PollTime(d) <= PollInterval
    <3> DEFINE m == pollMilliseconds(d)
               n == PollInterval \div Millisecond
    <3>1. PollInterval = Millisecond * n /\ n \in Nat
      BY <1>1, SMTT(30)
    <3>2. m \in Nat /\ PollTime(d) = Millisecond * m
      BY <1>1, <1>2, SMTT(30) DEF PollTime, pollMilliseconds
    <3>3. Millisecond * m < Millisecond * n + Millisecond
      BY <3>1, <3>2, <1>1, <1>2, <1>3
    <3> HIDE DEF m, n
    <3>4. m <= n
      BY <3>1, <3>2, <3>3, <1>1, SMTT(30)
    <3> QED  BY <3>1, <3>2, <3>4, <1>1, SMTT(30)
  <2> QED  BY <2>1, <2>2, <1>1, <1>2, <1>3
<1>5. CASE ~(left < PollInterval)
  <2>1. d = PollInterval
    BY <1>5 DEF Shorter
  <2>2. PollTime(d) = PollInterval
    BY <2>1, <1>1, PollTimeCovers
  <2> QED  BY <2>1, <2>2, <1>1, <1>2, <1>3, <1>5
<1> QED  BY <1>4, <1>5

(***************************************************************************)
(* What holds in every state of a wait: a poll under way ends within the   *)
(* interval of its start and of the deadline, and has not ended before a   *)
(* cancellation that came in it.                                           *)
(***************************************************************************)
WaitInv ==
    /\ WaitTypeOK
    /\ waiting = "idle" => cancelledAt = NotYet /\ clock = 0
    /\ cancelledAt # NotYet => cancelledAt <= clock
    /\ waiting # "idle" => clock < deadline + Millisecond
    /\ cancelledAt # NotYet => clock <= cancelledAt + PollInterval
    /\ waiting = "timeout" => clock >= deadline
    /\ waiting = "cancelled" => cancelledAt # NotYet
    /\ waiting = "polling" =>
            /\ clock <= pollEnds /\ pollStarts <= clock
            /\ pollEnds <= pollStarts + PollInterval
            /\ pollEnds < deadline + Millisecond
            /\ pollEnds = pollStarts + PollInterval \/ pollEnds >= deadline
            /\ cancelledAt # NotYet => pollStarts <= cancelledAt

LEMMA WaitInvInit == WaitInit => WaitInv
  BY MillisecondAssumption, PollIntervalAssumption
  DEF WaitInit, WaitInv, WaitTypeOK, NotYet

LEMMA WaitInvNext == WaitInv /\ [WaitNext]_waitVars => WaitInv'
<1> SUFFICES ASSUME WaitInv, [WaitNext]_waitVars
             PROVE  WaitInv'
  OBVIOUS
<1> USE MillisecondAssumption, PollIntervalAssumption, MaxWaitsAssumption
<1>1. CASE WaitCalled
  BY <1>1 DEF WaitCalled, WaitInv, WaitTypeOK, NotYet, Returned
<1>2. CASE ContextDone
  BY <1>2 DEF ContextDone, Return, WaitInv, WaitTypeOK, NotYet, Returned
<1>3. CASE DeadlineOver
  BY <1>3 DEF DeadlineOver, Return, WaitInv, WaitTypeOK, NotYet, Returned
<1>4. CASE Poll
  <2> DEFINE left == deadline - clock
             t == PollTime(Shorter(left, PollInterval))
  <2>1. left \in Nat \ {0}
    BY <1>4 DEF Poll, WaitInv, WaitTypeOK
  <2>2. /\ t \in Nat /\ t > 0 /\ t <= PollInterval /\ t < left + Millisecond
        /\ t = PollInterval \/ t >= left
    BY <2>1, PollIsWithinInterval
  <2>3. pollEnds' = clock + t /\ pollStarts' = clock
    BY <1>4 DEF Poll, PollTime
  <2> HIDE DEF t
  <2> QED  BY <1>4, <2>1, <2>2, <2>3 DEF Poll, WaitInv, WaitTypeOK, NotYet, Returned
<1>5. CASE Elapse
  BY <1>5 DEF Elapse, WaitInv, WaitTypeOK, NotYet, Returned
<1>6. CASE CancelWait
  BY <1>6 DEF CancelWait, WaitInv, WaitTypeOK, NotYet, Returned
<1>7. CASE PollAgain
  BY <1>7 DEF PollAgain, Return, WaitInv, WaitTypeOK, NotYet, Returned
<1>8. CASE PollReady
  BY <1>8 DEF PollReady, Return, WaitInv, WaitTypeOK, NotYet, Returned
<1>9. CASE UNCHANGED waitVars
  BY <1>9 DEF waitVars, WaitInv, WaitTypeOK
<1> QED  BY <1>1, <1>2, <1>3, <1>4, <1>5, <1>6, <1>7, <1>8, <1>9 DEF WaitNext

(***************************************************************************)
(* Wait is punctual: its rounding to milliseconds is at most that much     *)
(* late, never early, and never a busy loop (Wait, pollMilliseconds).      *)
(***************************************************************************)
THEOREM Punctual == WaitSpec => []WaitIsPunctual
<1>1. WaitInv => WaitIsPunctual
  BY MillisecondAssumption, PollIntervalAssumption
  DEF WaitInv, WaitTypeOK, WaitIsPunctual, NotYet, Returned
<1> QED  BY <1>1, WaitInvInit, WaitInvNext, PTL DEF WaitSpec

-----------------------------------------------------------------------------
(***************************************************************************)
(* The settings.                                                           *)
(***************************************************************************)

(***************************************************************************)
(* The retry intervals of any export timeout are positive, ordered and     *)
(* within it, those of a few nanoseconds included (NewOTLPHTTPExporter).   *)
(***************************************************************************)
THEOREM RetryFitsTimeout ==
    ASSUME NEW timeout \in Nat \ {0}
    PROVE  RetryIsUsable(timeout)
<1> DEFINE quarter == timeout \div 4
           half == timeout \div 2
<1>1. /\ quarter \in Nat /\ half \in Nat /\ quarter <= half
      /\ half <= timeout /\ quarter <= timeout
  OBVIOUS
<1> HIDE DEF quarter, half
<1>2. /\ retryInitial(timeout) =
            LET least == minDuration(Second, quarter) IN IF least <= 0 THEN 1 ELSE least
      /\ retryMaximum(timeout) =
            LET least == minDuration(5 * Second, half)
            IN  IF least < retryInitial(timeout) THEN retryInitial(timeout) ELSE least
  BY DEF retryInitial, retryMaximum, quarter, half
<1>3. retryInitial(timeout) \in Nat \ {0} /\ retryInitial(timeout) <= timeout
  BY <1>1, <1>2, SecondAssumption DEF minDuration
<1> QED
  BY <1>1, <1>2, <1>3, SecondAssumption DEF RetryIsUsable, minDuration

(***************************************************************************)
(* No stage demands more of its settings than Validate (InitializeSource,  *)
(* Run, DrainSource, NewDecoder, NewOTLPHTTPExporter).                     *)
(***************************************************************************)
LEMMA EveryStageAccepts ==
    ASSUME NEW c \in Config, Validate(c), NEW at
    PROVE  Accepts(at, c)
<1>1. \A d \in Durations : c.duration[d] > 0
  BY DEF Validate
<1>2. /\ c.duration["rescanInterval"] > 0 /\ c.duration["initializationTimeout"] > 0
      /\ c.duration["sourceDrainTimeout"] > 0 /\ c.duration["exportTimeout"] > 0
  BY <1>1 DEF Durations
<1>3. c.duration["exportTimeout"] \in Nat \ {0}
  <2>1. c.duration["exportTimeout"] \in Int
    BY DEF Config, Durations
  <2> QED  BY <2>1, <1>2
<1>4. RetryIsUsable(c.duration["exportTimeout"])
  BY <1>3, RetryFitsTimeout
<1>5. c.maxRecordBytes > 0
  BY RecordBytesAssumption DEF Validate, Config
<1> QED  BY <1>2, <1>4, <1>5 DEF Accepts, Validate

(***************************************************************************)
(* Past parsing, the settings are valid.                                   *)
(***************************************************************************)
SettingsInv ==
    /\ command \in Commands
    /\ stage \notin {"parse", "exited"} =>
            command.parsed = "config" /\ Validate(command.config)
    /\ refusedAt = "none"

(***************************************************************************)
(* Settings that pass Validate are not refused by a later stage (Validate, *)
(* InitializeSource, Run, DrainSource, NewOTLPHTTPExporter).               *)
(***************************************************************************)
THEOREM Accepted == SettingsSpec => []ValidSettingsAreAccepted
<1>1. SettingsInit => SettingsInv
  BY DEF SettingsInit, SettingsInv
<1>2. SettingsInv /\ [SettingsNext]_settingsVars => SettingsInv'
  <2> SUFFICES ASSUME SettingsInv, [SettingsNext]_settingsVars
               PROVE  SettingsInv'
    OBVIOUS
  <2>1. CASE Parse
    BY <2>1 DEF Parse, Exit, SettingsInv
  <2>2. ASSUME NEW i \in 1..6, Step(i)
        PROVE  SettingsInv'
    <3>1. stage \notin {"parse", "exited"}
      BY <2>2 DEF Step, Stages
    <3>2. command.config \in Config
      BY CommandsAssumption DEF SettingsInv
    <3>3. Accepts(stage, command.config)
      BY <3>1, <3>2, EveryStageAccepts DEF SettingsInv
    <3> QED  BY <2>2, <3>1, <3>3 DEF Step, Exit, SettingsInv
  <2>3. CASE UNCHANGED settingsVars
    BY <2>3 DEF settingsVars, SettingsInv
  <2> QED  BY <2>1, <2>2, <2>3 DEF SettingsNext
<1>3. SettingsInv => ValidSettingsAreAccepted
  BY DEF SettingsInv, ValidSettingsAreAccepted
<1> QED  BY <1>1, <1>2, <1>3, PTL DEF SettingsSpec
==============================================================================
