-------------------------- MODULE MCSessionRuntime --------------------------
(* Small instances of SessionRuntime for TLC.                              *)
EXTENDS SessionRuntime, TLC

Alike == Permutations(Session) \cup Permutations(Runtime) \cup Permutations(Op)
=============================================================================
