------------------------------- MODULE WatchWait -------------------------------
(***************************************************************************)
(* How long DirectoryWatcher.Wait waits (internal/source/wait_linux.go):   *)
(* a deadline in nanoseconds, waited for in polls of whole milliseconds    *)
(* no longer than the cancellation interval, which events, signals and     *)
(* cancellation end early.  Time passes in the polls; what Wait does       *)
(* between them takes none.                                                *)
(***************************************************************************)
EXTENDS Integers

CONSTANTS Millisecond,    \* units of time in a millisecond
          PollInterval,   \* watcherCancellationPollInterval
          MaxWaits        \* bound: the durations Wait is called with

ASSUME MillisecondAssumption == Millisecond \in Nat \ {0}
ASSUME PollIntervalAssumption ==
    PollInterval \in Nat \ {0} /\ PollInterval % Millisecond = 0
ASSUME MaxWaitsAssumption == MaxWaits \subseteq Nat \ {0}

VARIABLES
    waiting,     \* "idle", "loop", "polling", or how Wait returned
    clock,       \* time since Wait was called
    deadline,    \* time.Now().Add(maxWait)
    pollStarts,  \* history: when the poll under way, or the last, started
    pollEnds,    \* when the poll under way times out
    cancelledAt  \* when the context was cancelled, or NotYet

waitVars == <<waiting, clock, deadline, pollStarts, pollEnds, cancelledAt>>

NotYet == -1
Returned == {"timeout", "ready", "invalidated", "cancelled"}

\* Mutant: what is left of a millisecond is dropped
WholeMilliseconds(duration) == duration \div Millisecond

\* milliseconds < 1 is of no positive duration, whose rest is rounded up
pollMilliseconds(duration) ==
    duration \div Millisecond + (IF duration % Millisecond # 0 THEN 1 ELSE 0)

Shorter(a, b) == IF a < b THEN a ELSE b

WaitInit ==
    /\ waiting = "idle" /\ clock = 0 /\ deadline = 0 /\ pollStarts = 0 /\ pollEnds = 0
    /\ cancelledAt = NotYet

WaitCalled ==
    /\ waiting = "idle"
    /\ \E maxWait \in MaxWaits : deadline' = maxWait
    /\ waiting' = "loop"
    /\ UNCHANGED <<clock, pollStarts, pollEnds, cancelledAt>>

Return(how) ==
    waiting' = how /\ UNCHANGED <<clock, deadline, pollStarts, pollEnds, cancelledAt>>

ContextDone == waiting = "loop" /\ cancelledAt # NotYet /\ Return("cancelled")

DeadlineOver ==
    waiting = "loop" /\ cancelledAt = NotYet /\ deadline <= clock /\ Return("timeout")

Poll ==
    /\ waiting = "loop" /\ cancelledAt = NotYet /\ deadline > clock
    /\ pollStarts' = clock
    /\ pollEnds' = clock + Millisecond *
            pollMilliseconds(Shorter(deadline - clock, PollInterval))
    /\ waiting' = "polling"
    /\ UNCHANGED <<clock, deadline, cancelledAt>>

\* time passes in the poll; the context may be cancelled meanwhile
Elapse ==
    /\ waiting = "polling" /\ clock < pollEnds
    /\ clock' = clock + 1
    /\ UNCHANGED <<waiting, deadline, pollStarts, pollEnds, cancelledAt>>

CancelWait ==
    /\ waiting \in {"loop", "polling"} /\ cancelledAt = NotYet
    /\ cancelledAt' = clock
    /\ UNCHANGED <<waiting, clock, deadline, pollStarts, pollEnds>>

\* the poll times out, or a signal interrupts it
PollAgain ==
    /\ waiting = "polling" /\ clock <= pollEnds
    /\ Return("loop")

\* a poll that finds events or errors of the descriptor
PollReady == waiting = "polling" /\ \E how \in {"ready", "invalidated"} : Return(how)

WaitNext == WaitCalled \/ ContextDone \/ DeadlineOver \/ Poll \/ Elapse \/ CancelWait
            \/ PollAgain \/ PollReady

WaitSpec == WaitInit /\ [][WaitNext]_waitVars
-----------------------------------------------------------------------------
WaitTypeOK ==
    /\ waiting \in {"idle", "loop", "polling"} \cup Returned
    /\ clock \in Nat /\ deadline \in Nat /\ pollStarts \in Nat
    /\ pollEnds \in Nat
    /\ cancelledAt \in Nat \cup {NotYet}

(***************************************************************************)
(* A wait that returns for its deadline is not early and less than a       *)
(* millisecond late, a cancelled one returns within the poll interval, and *)
(* a poll is of the whole interval or reaches the deadline: rounding       *)
(* neither turns the last part of a wait into a busy loop nor lets the     *)
(* rescan fall behind (Wait, pollMilliseconds).                            *)
(***************************************************************************)
WaitIsPunctual ==
    /\ waiting = "timeout" => clock \in deadline..(deadline + Millisecond - 1)
    /\ waiting = "cancelled" => clock <= cancelledAt + PollInterval
    /\ waiting = "polling" => pollEnds = pollStarts + PollInterval \/ pollEnds >= deadline
=============================================================================
