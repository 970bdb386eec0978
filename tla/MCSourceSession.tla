---------------------------- MODULE MCSourceSession ----------------------------
(***************************************************************************)
(* SourceSession for TLC, with what the repository's documents say of it   *)
(* and the code does not do.                                               *)
(***************************************************************************)
EXTENDS SourceSession

(***************************************************************************)
(* docs/metrics.md calls the exported counters lower bounds: the total     *)
(* never exceeds what the source counted after the newest record that the  *)
(* baseline took in.  A scan that misses a report just renamed reads the   *)
(* newer one first, and the older one afterwards (ScanReports,             *)
(* State.Apply).                                                           *)
(***************************************************************************)
ExportedIsLowerBound == total <= Latest - origin

(***************************************************************************)
(* docs/configuration.md says that a generation which rotation removed     *)
(* before it was discovered is reported as a discontinuity.  No step of    *)
(* the session does that (notifyDiscontinuity, discontinuityForError).     *)
(***************************************************************************)
LossIsReported ==
    (AtRest /\ stage # "init" /\ ~events.changed) =>
        \A g \in Generation :
            (written[g] > 0 /\ ~Linked(g) /\ g \notin Registered /\ first[g] > origin)
                => "generation_missing" \in reported

(***************************************************************************)
(* The comment of DrainSource promises a bounded window that ends with one *)
(* last reconciliation.  Reconcile goes round for as long as something     *)
(* happens in the directory, and does not look at the deadline.            *)
(***************************************************************************)
DrainEnds == stage = "drain" ~> stage = "closed"
=============================================================================
