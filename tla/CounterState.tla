----------------------------- MODULE CounterState -----------------------------
(***************************************************************************)
(* How metrics.State turns the values of one process-lifetime counter      *)
(* series into increments (internal/metrics/state.go, Apply).  Whatever    *)
(* the mode and the outcome, the value becomes the series' new baseline.   *)
(***************************************************************************)
EXTENDS Integers

Unobserved == -1     \* no entry in counterBaselines

\* Mutant: the increases between baseline records count
IncrementFromBaseline(mode, previous, value) ==
    IF previous = Unobserved \/ value <= previous THEN 0 ELSE value - previous

\* Mutant: a reset is not told from an increase
IncrementSigned(mode, previous, value) ==
    IF mode = "baseline" \/ previous = Unobserved THEN 0 ELSE value - previous

\* What Apply adds to the exported total
Increment(mode, previous, value) ==
    IF mode = "baseline" \/ previous = Unobserved \/ value <= previous
    THEN 0 ELSE value - previous

\* Whether Apply reports a counter reset
IsReset(mode, previous, value) ==
    mode = "live" /\ previous # Unobserved /\ value < previous
=============================================================================
