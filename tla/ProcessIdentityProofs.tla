-------------------------- MODULE ProcessIdentityProofs --------------------------
(***************************************************************************)
(* That an identity is of one process and that what depends on it is, for  *)
(* any number of processes, boots and clock steps and any clock rate.      *)
(***************************************************************************)
EXTENDS ProcessIdentity, TLAPS

Used == 1..lifetimes

(***************************************************************************)
(* The processes that have had the PID differ in boot or start ticks, and  *)
(* the one that has it started in this boot (procfs).                      *)
(***************************************************************************)
HostInv ==
    /\ \A m, n \in Used : born[m] = born[n] => m = n
    /\ occupant # NoLifetime => occupant \in Used /\ born[occupant].boot = boot

\* an identity has the boot and start ticks of a process
Of(identity, n) ==
    n \in Used /\ born[n].boot = identity.boot /\ born[n].ticks = identity.ticks

(***************************************************************************)
(* What a reading has found so far is of this boot, and of the source if   *)
(* that still runs: a process that ended does not come back                *)
(* (processIdentityReader.read).                                           *)
(***************************************************************************)
ReadingInv ==
    /\ at \in {"ticks", "bootID", "bootTime", "verify"} => unread = FALSE
    /\ at \in {"bootTime", "verify"} => readBoot = boot
    /\ at = "verify" /\ ~stepped => readTime = offset \div ClockTicks
    /\ at \in {"bootID", "bootTime", "verify"} /\ occupant = source /\ source # NoLifetime
            => readTicks = born[source].ticks

(***************************************************************************)
(* The identity of the session is that of its source, in this boot.        *)
(***************************************************************************)
SessionInv ==
    /\ captured = NoIdentity => source = NoLifetime /\ sampled = NoLifetime
    /\ captured # NoIdentity => Of(captured, source) /\ captured.boot = boot
    /\ at \in {"reconciling", "running", "ended"} => captured # NoIdentity

IdentityInv ==
    /\ IdentityTypeOK
    /\ HostInv /\ ReadingInv /\ SessionInv
    /\ \A k \in known : Of(k[1], k[2])
    /\ SamplesTheSource /\ CreationIsCloseToStart

USE DEF Lifetime, NoLifetime

(***************************************************************************)
(* The creation time is the start of the process, short of what btime      *)
(* leaves out of the boot time, which is less than a second                *)
(* (processCreationTime).                                                  *)
(***************************************************************************)
LEMMA CreationLosesLessThanASecond ==
    ASSUME NEW o \in Nat, NEW t \in Nat
    PROVE  /\ CreationTime(o \div ClockTicks, t) \in Int
           /\ CreationTime(o \div ClockTicks, t) \in (o + t - ClockTicks + 1)..(o + t)
<1> DEFINE a == o \div ClockTicks
           b == t \div ClockTicks
           r == t % ClockTicks
<1>1. ClockTicks \in Nat /\ ClockTicks > 0
  BY ClockTicksAssumption
<1>2. /\ a \in Nat /\ o % ClockTicks \in 0..(ClockTicks - 1)
      /\ o = ClockTicks * a + (o % ClockTicks)
  BY <1>1, SMTT(30)
<1>3. b \in Nat /\ r \in 0..(ClockTicks - 1) /\ t = ClockTicks * b + r
  BY <1>1, SMTT(30)
<1>4. CreationTime(a, t) = (a + b) * ClockTicks + r
  BY DEF CreationTime
<1> HIDE DEF a, b, r
<1>5. (a + b) * ClockTicks = ClockTicks * a + ClockTicks * b
  BY <1>1, <1>2, <1>3, SMTT(30)
<1>6. ClockTicks * a \in Nat /\ ClockTicks * b \in Nat
  BY <1>1, <1>2, <1>3, SMTT(30)
<1>7. CreationTime(a, t) = o + t - (o % ClockTicks)
  <2> DEFINE x == ClockTicks * a
             y == ClockTicks * b
  <2>1. CreationTime(a, t) = x + y + r /\ o = x + (o % ClockTicks) /\ t = y + r
    BY <1>2, <1>3, <1>4, <1>5
  <2>2. x \in Nat /\ y \in Nat
    BY <1>6
  <2> HIDE DEF x, y
  <2> QED  BY <2>1, <2>2, <1>1, <1>2, <1>3
<1>8. CreationTime(a, t) \in Int /\ CreationTime(a, t) \in (o + t - ClockTicks + 1)..(o + t)
  <2> HIDE DEF CreationTime
  <2> QED  BY <1>1, <1>2, <1>7
<1> QED  BY <1>8 DEF a

LEMMA IdentityInvInit == IdentityInit => IdentityInv
<1> SUFFICES ASSUME IdentityInit
             PROVE  IdentityInv
  OBVIOUS
<1>1. /\ offset \in Nat /\ lifetimes \in 0..MaxLifetimes
      /\ born \in [Lifetime -> [boot : Nat, ticks : Nat]]
  BY BootOffsetsAssumption, MaxLifetimesAssumption DEF IdentityInit
<1>0. stepped \in BOOLEAN
  BY Zenon DEF IdentityInit
<1>2. IdentityTypeOK
  BY <1>0, <1>1 DEF IdentityInit, IdentityTypeOK
<1> QED
  BY <1>2 DEF IdentityInit, IdentityInv, HostInv, ReadingInv, SessionInv, Used,
     SamplesTheSource, CreationIsCloseToStart

(***************************************************************************)
(* A process that ends or starts leaves what was read, captured and        *)
(* sampled as it is of the processes before it.                            *)
(***************************************************************************)
LEMMA HostKeepsInv ==
    ASSUME IdentityInv, Host
    PROVE  IdentityInv'
<1> USE MaxLifetimesAssumption
<1>1. CASE Tick
  <2>1. IdentityTypeOK'
    BY <1>1 DEF Tick, IdentityInv, IdentityTypeOK, exporterVars
  <2> QED
    BY <1>1, <2>1 DEF Tick, IdentityInv, HostInv, ReadingInv, SessionInv, Of, Used,
       SamplesTheSource, CreationIsCloseToStart, exporterVars
<1>2. CASE ProcessStarts
  <2> DEFINE n == lifetimes + 1
             start == [boot |-> boot, ticks |-> now]
  <2>1. /\ occupant = NoLifetime /\ n \in Lifetime /\ n \notin Used
        /\ \A m \in Used : born[m] # start
        /\ born' = [born EXCEPT ![n] = start]
        /\ lifetimes' = n /\ occupant' = n
        /\ UNCHANGED <<boot, now, offset, stepped, exporterVars>>
    BY <1>2 DEF ProcessStarts, IdentityInv, IdentityTypeOK, Used
  <2>2. /\ Used' = Used \cup {n} /\ born'[n] = start
        /\ \A m \in Used : born'[m] = born[m] /\ m \in Lifetime
    <3>1. /\ lifetimes \in Nat /\ lifetimes <= MaxLifetimes
          /\ born \in [Lifetime -> [boot : Nat, ticks : Nat]]
      BY DEF IdentityInv, IdentityTypeOK
    <3>2. Used' = Used \cup {n}
      BY <2>1, <3>1 DEF Used
    <3>3. \A m \in Used : m \in Lifetime /\ m # n
      BY <2>1, <3>1 DEF Used
    <3> HIDE DEF start, Used
    <3> QED  BY <2>1, <3>1, <3>2, <3>3
  <2>3. IdentityTypeOK'
    <3>1. start \in [boot : Nat, ticks : Nat]
      BY DEF IdentityInv, IdentityTypeOK
    <3>2. born' \in [Lifetime -> [boot : Nat, ticks : Nat]]
      BY <2>1, <3>1 DEF IdentityInv, IdentityTypeOK
    <3> QED
      BY <2>1, <3>2 DEF IdentityInv, IdentityTypeOK, exporterVars
  <2>4. HostInv'
    <3>1. born'[n].boot = boot
      BY <2>2
    <3>2. \A m, k \in Used' : born'[m] = born'[k] => m = k
      BY <2>1, <2>2 DEF IdentityInv, HostInv
    <3> QED  BY <2>1, <2>2, <3>1, <3>2 DEF HostInv
  <2>5. \A i, m : Of(i, m) => Of(i, m)'
    BY <2>2 DEF Of
  <2>6. captured # NoIdentity => source \in Used /\ source # n
    BY <2>1 DEF IdentityInv, SessionInv, Of
  <2>7. SessionInv'
    BY <2>1, <2>5 DEF IdentityInv, SessionInv, exporterVars
  <2>8. ReadingInv'
    BY <2>1, <2>6 DEF IdentityInv, ReadingInv, SessionInv, exporterVars
  <2>9. \A k \in known' : Of(k[1], k[2])'
    BY <2>1, <2>5 DEF IdentityInv, exporterVars
  <2>10. SamplesTheSource' /\ CreationIsCloseToStart'
    BY <2>1, <2>2, <2>6 DEF IdentityInv, SamplesTheSource, CreationIsCloseToStart,
       exporterVars
  <2> QED  BY <2>3, <2>4, <2>7, <2>8, <2>9, <2>10 DEF IdentityInv
<1>3. CASE ProcessExits
  <2>1. IdentityTypeOK'
    BY <1>3 DEF ProcessExits, IdentityInv, IdentityTypeOK, exporterVars
  <2>2. captured # NoIdentity => source # NoLifetime
    BY DEF IdentityInv, SessionInv, Of, Used
  <2> QED
    BY <1>3, <2>1, <2>2 DEF ProcessExits, IdentityInv, HostInv, ReadingInv, SessionInv, Of,
       Used, SamplesTheSource, CreationIsCloseToStart, exporterVars
<1>4. CASE ClockStepped
  <2>1. IdentityTypeOK'
    BY <1>4, BootOffsetsAssumption
    DEF ClockStepped, IdentityInv, IdentityTypeOK, exporterVars
  <2> QED
    BY <1>4, <2>1 DEF ClockStepped, IdentityInv, HostInv, ReadingInv, SessionInv, Of, Used,
       SamplesTheSource, CreationIsCloseToStart, exporterVars
<1>5. CASE Reboot
  <2>0. boot' \in Nat /\ now' \in Nat
    BY <1>5 DEF Reboot, IdentityInv, IdentityTypeOK
  <2>a. stepped' \in BOOLEAN
    BY <1>5, Zenon DEF Reboot
  <2>1. IdentityTypeOK'
    BY <1>5, <2>0, <2>a DEF Reboot, Stop, IdentityInv, IdentityTypeOK
  <2> QED
    BY <1>5, <2>1 DEF Reboot, Stop, IdentityInv, HostInv, ReadingInv, SessionInv, Of, Used,
       SamplesTheSource, CreationIsCloseToStart
<1>6. CASE ExporterStops
  <2>1. IdentityTypeOK'
    BY <1>6 DEF ExporterStops, Stop, IdentityInv, IdentityTypeOK, hostVars
  <2> QED
    BY <1>6, <2>1 DEF ExporterStops, Stop, IdentityInv, HostInv, ReadingInv, SessionInv, Of,
       Used, SamplesTheSource, CreationIsCloseToStart, hostVars
<1> QED  BY <1>1, <1>2, <1>3, <1>4, <1>5, <1>6 DEF Host

(***************************************************************************)
(* A step of the exporter: what the last reading of the start ticks finds  *)
(* is the process that has the PID, from the first reading to the last.    *)
(***************************************************************************)
LEMMA ExporterKeepsInv ==
    ASSUME IdentityInv, StartExporter \/ Recheck \/ Reconciled \/ Reader \/ Sample
    PROVE  IdentityInv'
<1> USE MaxLifetimesAssumption
\* an error: the run ends, or the session does
<1>0. ASSUME ReadFails, UNCHANGED hostVars, unread' \in BOOLEAN
      PROVE  IdentityInv'
  <2>1. IdentityTypeOK'
    BY <1>0 DEF ReadFails, IdentityInv, IdentityTypeOK, hostVars
  <2> QED
    BY <1>0, <2>1 DEF ReadFails, IdentityInv, HostInv, ReadingInv, SessionInv, Of, Used,
       SamplesTheSource, CreationIsCloseToStart, hostVars
<1>u. unread \in BOOLEAN
  BY DEF IdentityInv, IdentityTypeOK
<1>f. ASSUME Unreadable \/ NoProcess \/ ProcessChanged, UNCHANGED hostVars
      PROVE  IdentityInv'
  <2>1. ReadFails
    BY <1>f DEF Unreadable, NoProcess, ProcessChanged
  <2>2. unread' \in BOOLEAN
    BY <1>f, <1>u, Zenon DEF Unreadable, NoProcess, ProcessChanged
  <2> QED  BY <1>0, <1>f, <2>1, <2>2
<1>s. captured # NoIdentity => source \in Used /\ source # NoLifetime
  BY DEF IdentityInv, SessionInv, Of, Used
<1>1. CASE StartExporter \/ Recheck
  <2>0. unread' \in BOOLEAN
    BY <1>1, Zenon DEF StartExporter, Recheck
  <2>1. /\ at' = "ticks" /\ at \in {"off", "running"} /\ unread' = FALSE
        /\ UNCHANGED <<hostVars, readTicks, readBoot, readTime, captured, source,
                       sampled, known>>
    BY <1>1 DEF StartExporter, Recheck
  <2>2. IdentityTypeOK'
    BY <2>0, <2>1 DEF IdentityInv, IdentityTypeOK, hostVars, Reading
  <2> QED
    BY <2>1, <2>2 DEF IdentityInv, HostInv, ReadingInv, SessionInv, Of, Used,
       SamplesTheSource, CreationIsCloseToStart, hostVars
<1>r. CASE Reconciled
  <2>1. IdentityTypeOK'
    BY <1>r DEF Reconciled, IdentityInv, IdentityTypeOK, hostVars
  <2> QED
    BY <1>r, <2>1 DEF Reconciled, IdentityInv, HostInv, ReadingInv, SessionInv, Of, Used,
       SamplesTheSource, CreationIsCloseToStart, hostVars
<1>2. CASE ReadTicks
  <2>1. CASE NoProcess \/ Unreadable
    BY <1>f, <1>2, <2>1 DEF ReadTicks
  <2>2. CASE /\ occupant # NoLifetime
             /\ readTicks' = born[occupant].ticks
             /\ Read("bootID")
             /\ UNCHANGED <<readBoot, readTime>>
    <3>1. occupant \in Lifetime /\ born[occupant] \in [boot : Nat, ticks : Nat]
      BY <2>2 DEF IdentityInv, IdentityTypeOK
    <3>2. IdentityTypeOK'
      BY <1>2, <2>2, <3>1
      DEF ReadTicks, Read, IdentityInv, IdentityTypeOK, hostVars, Reading
    <3> QED
      BY <1>2, <2>2, <3>2 DEF ReadTicks, Read, IdentityInv, HostInv, ReadingInv,
         SessionInv, Of, Used, SamplesTheSource, CreationIsCloseToStart, hostVars
  <2> QED  BY <1>2, <2>1, <2>2 DEF ReadTicks
<1>3. CASE ReadBootID
  <2>1. CASE Unreadable
    BY <1>f, <1>3, <2>1 DEF ReadBootID
  <2>2. CASE readBoot' = boot /\ Read("bootTime") /\ UNCHANGED <<readTicks, readTime>>
    <3>1. IdentityTypeOK'
      BY <1>3, <2>2 DEF ReadBootID, Read, IdentityInv, IdentityTypeOK, hostVars, Reading
    <3> QED
      BY <1>3, <2>2, <3>1 DEF ReadBootID, Read, IdentityInv, HostInv, ReadingInv,
         SessionInv, Of, Used, SamplesTheSource, CreationIsCloseToStart, hostVars
  <2> QED  BY <1>3, <2>1, <2>2 DEF ReadBootID
<1>4. CASE ReadBootTime
  <2>1. CASE Unreadable
    BY <1>f, <1>4, <2>1 DEF ReadBootTime
  <2>2. CASE readTime' = offset \div ClockTicks /\ Read("verify")
             /\ UNCHANGED <<readTicks, readBoot>>
    <3>1. offset \div ClockTicks \in Nat
      BY ClockTicksAssumption, SMTT(30) DEF IdentityInv, IdentityTypeOK
    <3>2. readTime' = offset' \div ClockTicks
      BY <1>4, <2>2 DEF ReadBootTime, hostVars
    <3>3. IdentityTypeOK'
      BY <1>4, <2>2, <3>1
      DEF ReadBootTime, Read, IdentityInv, IdentityTypeOK, hostVars, Reading
    <3>4. ReadingInv'
      BY <1>4, <2>2, <3>2 DEF ReadBootTime, Read, IdentityInv, ReadingInv, hostVars
    <3> QED
      BY <1>4, <2>2, <3>3, <3>4 DEF ReadBootTime, Read, IdentityInv, HostInv, SessionInv,
         Of, Used, SamplesTheSource, CreationIsCloseToStart, hostVars
  <2> QED  BY <1>4, <2>1, <2>2 DEF ReadBootTime
<1>5. CASE VerifyTicks
  <2> DEFINE gone == NoProcess \/ Unreadable \/ ProcessChanged
             current == [boot |-> readBoot, ticks |-> readTicks,
                         creation |-> CreationTime(readTime, readTicks)]
  <2>0. at = "verify" /\ UNCHANGED hostVars
    BY <1>5 DEF VerifyTicks
  <2>1. CASE gone
    BY <1>f, <2>0, <2>1
  <2>2. ASSUME ~gone
        PROVE  IdentityInv'
    <3>0. /\ occupant # NoLifetime /\ born[occupant].ticks = readTicks
          /\ Identified(current)
          /\ UNCHANGED <<readTicks, readBoot, readTime, sampled, unread>>
      BY <1>5, <2>2 DEF VerifyTicks
    <3>1. Of(current, occupant) /\ current.boot = boot
      BY <2>0, <3>0 DEF IdentityInv, HostInv, ReadingInv, Of
    <3>2. CASE captured = NoIdentity
      <4>1. /\ captured' = current /\ source' = occupant /\ at' = "reconciling"
            /\ known' = known \cup {<<current, occupant>>}
            /\ UNCHANGED <<readTicks, readBoot, readTime, sampled, unread>>
        <5> HIDE DEF current
        <5> QED  BY <3>0, <3>2 DEF Identified
      <4>2. readTime \in Nat /\ readTicks \in Nat /\ readBoot \in Nat
        BY DEF IdentityInv, IdentityTypeOK
      <4>3. current.creation \in Int
        BY <4>2, ClockTicksAssumption, SMTT(30) DEF CreationTime
      <4>4. current \in Identity /\ occupant \in Lifetime
        BY <3>1, <4>2, <4>3 DEF Identity, IdentityInv, IdentityTypeOK, Of, Used
      <4>5. current # NoIdentity
        BY <4>4, NoIdentityAssumption
      <4>6. <<current, occupant>> \in Identity \X Lifetime
        BY <4>4
      <4> HIDE DEF current
      <4>7. IdentityTypeOK'
        BY <2>0, <4>1, <4>4, <4>6 DEF IdentityInv, IdentityTypeOK, hostVars
      <4>8. \A i, m : Of(i, m)' = Of(i, m)
        BY <2>0 DEF Of, Used, hostVars
      <4>9. SessionInv'
        BY <2>0, <3>1, <4>1, <4>5, <4>8 DEF SessionInv, hostVars
      <4>10. \A k \in known' : Of(k[1], k[2])'
        BY <3>1, <4>1, <4>8 DEF IdentityInv
      <4>11. SamplesTheSource' /\ ReadingInv' /\ HostInv'
        BY <2>0, <3>2, <4>1 DEF IdentityInv, SessionInv, SamplesTheSource,
           ReadingInv, HostInv, Used, hostVars
      <4>12. CreationIsCloseToStart'
        <5>0. /\ captured' = current /\ source' = occupant
              /\ offset' = offset /\ stepped' = stepped /\ born' = born
          BY <2>0, <4>1 DEF hostVars
        <5>1. SUFFICES ASSUME ~stepped'
                       PROVE  captured'.creation \in
                                (offset' + born'[source'].ticks - ClockTicks + 1)..
                                (offset' + born'[source'].ticks)
          BY DEF CreationIsCloseToStart
        <5>2. readTime = offset \div ClockTicks /\ born[occupant].ticks = readTicks
          BY <2>0, <3>0, <5>0, <5>1 DEF IdentityInv, ReadingInv
        <5>3. offset \in Nat
          BY DEF IdentityInv, IdentityTypeOK
        <5>4. current.creation = CreationTime(offset \div ClockTicks, readTicks)
          BY <5>2 DEF current
        <5>5. current.creation \in (offset + readTicks - ClockTicks + 1)..(offset + readTicks)
          BY <4>2, <5>3, <5>4, CreationLosesLessThanASecond
        <5> QED  BY <5>0, <5>2, <5>5
      <4> QED  BY <4>7, <4>9, <4>10, <4>11, <4>12 DEF IdentityInv
    <3>3. CASE captured # NoIdentity
      <4>1. /\ at' \in {"reconciling", "ended"}
            /\ UNCHANGED <<captured, source, known, readTicks, readBoot, readTime, sampled,
                           unread>>
        <5> HIDE DEF current
        <5> QED  BY <3>0, <3>3 DEF Identified
      <4> HIDE DEF current
      <4>2. IdentityTypeOK'
        BY <2>0, <4>1 DEF IdentityInv, IdentityTypeOK, hostVars
      <4> QED
        BY <2>0, <3>3, <4>1, <4>2 DEF IdentityInv, HostInv, ReadingInv, SessionInv, Of,
           Used, SamplesTheSource, CreationIsCloseToStart, hostVars
    <3> QED  BY <3>2, <3>3
  <2> QED  BY <2>1, <2>2
<1>6. CASE Sample
  \* another process with the same start ticks would be of this boot too
  <2>1. ASSUME occupant # NoLifetime, born[occupant].ticks = captured.ticks
        PROVE  occupant = source
    <3>1. occupant \in Used /\ source \in Used
          /\ born[occupant].boot = boot /\ born[source].boot = boot
          /\ born[source].ticks = captured.ticks
      BY <1>6, <2>1 DEF Sample, IdentityInv, HostInv, SessionInv, Of
    <3>2. born[occupant] \in [boot : Nat, ticks : Nat]
          /\ born[source] \in [boot : Nat, ticks : Nat]
      BY <3>1 DEF IdentityInv, IdentityTypeOK, Used
    <3>3. born[occupant] = born[source]
      BY <2>1, <3>1, <3>2
    <3> QED  BY <3>1, <3>3 DEF IdentityInv, HostInv
  <2>2. sampled' \in {NoLifetime, source} /\ captured # NoIdentity
    BY <1>6, <2>1 DEF Sample
  <2>3. IdentityTypeOK'
    BY <1>6, <2>2 DEF Sample, IdentityInv, IdentityTypeOK, hostVars
  <2> QED
    BY <1>6, <2>2, <2>3 DEF Sample, IdentityInv, HostInv, ReadingInv, SessionInv, Of, Used,
       SamplesTheSource, CreationIsCloseToStart, hostVars
<1> QED  BY <1>1, <1>r, <1>2, <1>3, <1>4, <1>5, <1>6 DEF Reader

LEMMA IdentityInvHolds == IdentitySpec => []IdentityInv
<1>1. IdentityInv /\ UNCHANGED identityVars => IdentityInv'
  BY DEF IdentityInv, IdentityTypeOK, HostInv, ReadingInv, SessionInv, Of, Used,
     SamplesTheSource, CreationIsCloseToStart, identityVars, hostVars,
     exporterVars
<1>2. IdentityInv /\ [IdentityNext]_identityVars => IdentityInv'
  BY <1>1, HostKeepsInv, ExporterKeepsInv DEF IdentityNext
<1> QED  BY <1>2, IdentityInvInit, PTL DEF IdentitySpec

(***************************************************************************)
(* Identities are of the same session exactly when they are of the same    *)
(* process, across reboots and runs of the exporter (read, SameSession).   *)
(***************************************************************************)
THEOREM TellsLifetimes == IdentitySpec => []IdentityTellsLifetimes
<1>1. IdentityInv => IdentityTellsLifetimes
  <2> SUFFICES ASSUME IdentityInv, NEW a \in known, NEW b \in known
               PROVE  SameSession(a[1], b[1]) <=> a[2] = b[2]
    BY DEF IdentityTellsLifetimes
  <2>1. Of(a[1], a[2]) /\ Of(b[1], b[2])
    BY DEF IdentityInv
  <2>2. born[a[2]] \in [boot : Nat, ticks : Nat] /\ born[b[2]] \in [boot : Nat, ticks : Nat]
    BY <2>1, MaxLifetimesAssumption DEF IdentityInv, IdentityTypeOK, Of, Used
  <2>3. SameSession(a[1], b[1]) <=> born[a[2]] = born[b[2]]
    BY <2>1, <2>2 DEF SameSession, Of
  <2> QED  BY <2>1, <2>3 DEF IdentityInv, HostInv, Of
<1> QED  BY <1>1, IdentityInvHolds, PTL

(***************************************************************************)
(* Process metrics are those of the session's source                       *)
(* (processMetricsReader.read).                                            *)
(***************************************************************************)
THEOREM OnlyTheSource == IdentitySpec => []SamplesTheSource
<1>1. IdentityInv => SamplesTheSource
  BY DEF IdentityInv
<1> QED  BY <1>1, IdentityInvHolds, PTL

(***************************************************************************)
(* A reading that comes to an identity compares the session's process with *)
(* the one that has the PID.                                               *)
(***************************************************************************)
LEMMA ComparesProcesses ==
    ASSUME IdentityInv, at = "verify", captured # NoIdentity, occupant # NoLifetime,
           born[occupant].ticks = readTicks, NEW creation
    PROVE  SameSession(captured,
                       [boot |-> readBoot, ticks |-> readTicks, creation |-> creation])
           <=> occupant = source
<1>1. /\ occupant \in Used /\ source \in Used
      /\ born[occupant].boot = boot /\ born[source].boot = captured.boot
      /\ born[source].ticks = captured.ticks /\ captured.boot = boot /\ readBoot = boot
  BY DEF IdentityInv, HostInv, ReadingInv, SessionInv, Of
<1>2. /\ born[occupant] \in [boot : Nat, ticks : Nat]
      /\ born[source] \in [boot : Nat, ticks : Nat]
  BY <1>1, MaxLifetimesAssumption DEF IdentityInv, IdentityTypeOK, Used
<1>3. born[occupant] = born[source] => occupant = source
  BY <1>1 DEF IdentityInv, HostInv
<1>4. captured.ticks = readTicks => born[occupant] = born[source]
  BY <1>1, <1>2
<1> QED  BY <1>1, <1>3, <1>4 DEF SameSession

(***************************************************************************)
(* A recheck ends the session exactly if the session's process is gone or  *)
(* a file could not be read, however the PID is used again and the wall    *)
(* clock stepped (verifyProcessIdentity).                                  *)
(***************************************************************************)
RecheckStep ==
    captured # NoIdentity /\ at \in Reading /\ at' \in {"reconciling", "ended"}
        => (at' = "ended" <=> (occupant # source \/ unread'))

THEOREM RecheckExact == IdentitySpec => RecheckIsExact
<1>1. ASSUME IdentityInv, IdentityNext, captured # NoIdentity, at \in Reading,
             at' \in {"reconciling", "ended"}
      PROVE  at' = "ended" <=> (occupant # source \/ unread')
  <2>0. source # NoLifetime
    BY <1>1 DEF IdentityInv, SessionInv, Of, Used
  <2>1. CASE Host
    BY <1>1, <2>1 DEF Host, Tick, ProcessStarts, ProcessExits, ClockStepped, Reboot,
       ExporterStops, Stop, exporterVars, Reading
  <2>2. CASE StartExporter \/ Recheck \/ Reconciled \/ Sample
    BY <1>1, <2>2 DEF StartExporter, Recheck, Reconciled, Sample, Reading
  <2>3. CASE Unreadable
    BY <1>1, <2>3 DEF Unreadable, ReadFails
  <2>4. CASE NoProcess
    BY <1>1, <2>0, <2>4 DEF NoProcess, ReadFails
  <2>5. CASE at = "verify" /\ ProcessChanged
    BY <1>1, <2>0, <2>5 DEF ProcessChanged, ReadFails, IdentityInv, ReadingInv
  <2>6. CASE ReadTicks \/ ReadBootID \/ ReadBootTime
    BY <1>1, <2>3, <2>4, <2>6 DEF ReadTicks, ReadBootID, ReadBootTime, Read
  <2>7. CASE VerifyTicks
    <3> DEFINE current == [boot |-> readBoot, ticks |-> readTicks,
                           creation |-> CreationTime(readTime, readTicks)]
    <3>1. CASE /\ occupant # NoLifetime /\ born[occupant].ticks = readTicks
               /\ Identified(current) /\ unread' = unread
      <4>1. at = "verify"
        BY <2>7 DEF VerifyTicks
      <4>2. SameSession(captured, current) <=> occupant = source
        BY <1>1, <3>1, <4>1, ComparesProcesses
      <4> HIDE DEF current
      <4>3. at' = IF SameSession(captured, current) THEN "reconciling" ELSE "ended"
        BY <1>1, <3>1 DEF Identified
      <4> QED  BY <1>1, <3>1, <4>1, <4>2, <4>3 DEF IdentityInv, ReadingInv
    <3> QED  BY <2>3, <2>4, <2>5, <2>7, <3>1 DEF VerifyTicks
  <2> QED  BY <1>1, <2>1, <2>2, <2>6, <2>7 DEF IdentityNext, Reader
<1>2. IdentityInv /\ [IdentityNext]_identityVars => [RecheckStep]_identityVars
  BY <1>1 DEF RecheckStep
<1> QED
  BY <1>2, IdentityInvHolds, PTL DEF IdentitySpec, RecheckIsExact, RecheckStep

(***************************************************************************)
(* The creation time is the start of the source, less a part of a second   *)
(* (processCreationTime).                                                  *)
(***************************************************************************)
THEOREM CreationTimeIsClose == IdentitySpec => []CreationIsCloseToStart
<1>1. IdentityInv => CreationIsCloseToStart
  BY DEF IdentityInv
<1> QED  BY <1>1, IdentityInvHolds, PTL
=============================================================================
