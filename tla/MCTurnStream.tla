---------------------------- MODULE MCTurnStream ----------------------------
(* A small instance of TurnStream for TLC. Of lost connections, background    *)
(* outcomes and faults at most three are spent, a fault counting for two.     *)
EXTENDS TurnStream

Spent == used.drops + 2 * used.faults + used.notices

\* Runs in which the stream is not forgotten, nor the connection lost in a rebuild.
Remembered == harm \cap {"stream_forgotten", "drop_while_rebuilding"} = {} /\ Spent <= 3

\* Of those, the ones whose statuses and background outcomes the window all takes.
Promised == harm \cap {"status_discarded", "outcome_unseen"} = {} /\ Remembered
=============================================================================
