----------------------------- MODULE MCDataEpoch -----------------------------
(* Small instances of DataEpoch for TLC.                                   *)
EXTENDS DataEpochHome

CONSTANTS s1, s2

\* Epoch 2 rewrites one store, epoch 3 both.
MCAffected == [e \in Edges |-> IF e = 2 THEN {s1} ELSE Stores]

\* Every change of format or of user data changes the size of the store.
DistinctSize(edges, rev) == <<edges, rev>>

AllBuilds == 1 .. MaxEpoch
=============================================================================
