---------------------------- MODULE MCChangeLog ----------------------------
(* A model-checking instance of ChangeLog: one record, two requests. *)
EXTENDS ChangeLogStored, TLC

CONSTANTS n1, w1, w2

TwoWorkers     == {w1, w2}
WorkerSymmetry == Permutations(TwoWorkers)
=============================================================================
