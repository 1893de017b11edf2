-------------------------- MODULE MCSplitExecutor --------------------------
(* Instances of SplitExecutor for TLC. *)
EXTENDS SplitExecutor

CONSTANTS w1, w2, w3

TwoWorkers == {w1, w2}
ThreeWorkers == {w1, w2, w3}
=============================================================================
