--------------------------- MODULE MCMetricPipeline ---------------------------
(***************************************************************************)
(* MetricPipeline for TLC.                                                 *)
(***************************************************************************)
EXTENDS MetricPipeline, TLC

CONSTANTS a, b
TwoSeries == {a, b}

\* Both series, rising or falling from one record to the next, and the gauge
SomeContent ==
    {[counters |-> a :> 1 @@ b :> 1, gauge |-> TRUE, invalid |-> FALSE],
     [counters |-> a :> 2 @@ b :> 2, gauge |-> TRUE, invalid |-> FALSE]}
=============================================================================
