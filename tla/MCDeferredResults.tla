-------------------------- MODULE MCDeferredResults --------------------------
(* Small instances of DeferredResults for TLC.                             *)
EXTENDS DeferredResults

CONSTANTS a1, u1, b1, f1

\* A bridge's task has its behaviours to itself.
Apart == \A t \in Bridge, other \in Task : made[t] > 0 /\ made[other] > 0 => t = other
=============================================================================
