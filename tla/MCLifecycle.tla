----------------------------- MODULE MCLifecycle -----------------------------
(* Lifecycle with two goroutines, each of which calls again and again. *)
EXTENDS Lifecycle

CONSTANTS c1, c2

TwoCallers == {c1, c2}
=============================================================================
