---------------------------- MODULE MCSessionLoop ----------------------------
(* A small instance of SessionLoop for TLC.                                *)
EXTENDS SessionLoop, TLC

Alike == Permutations(Call)
=============================================================================
