---------------------------- MODULE MCTurnLease ----------------------------
(* Small instances of TurnLease.                                           *)
EXTENDS TurnLease, TLC

Interchangeable == Permutations(Calls)
=============================================================================
