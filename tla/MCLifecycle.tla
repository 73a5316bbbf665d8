----------------------------- MODULE MCLifecycle -----------------------------
(* TLC instances of Lifecycle. *)
EXTENDS Lifecycle

CONSTANTS p1, p2

AllKinds == HookKind

============================================================================
