---------------------------- MODULE MCSessionLocks ----------------------------
(***************************************************************************)
(* SessionLocks for TLC: two goroutines that may call every operation, one *)
(* after the other, while the context is cancelled and the source ends.    *)
(***************************************************************************)
EXTENDS SessionLocks

CONSTANTS first, second

AnyCall == [t \in Thread |-> Call]
=============================================================================
