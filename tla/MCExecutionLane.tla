---------------------------- MODULE MCExecutionLane ----------------------------
(***************************************************************************)
(* ExecutionLane for TLC.  Sessions and rows are interchangeable; the runs *)
(* of liveness properties use no symmetry.                                 *)
(***************************************************************************)
EXTENDS ExecutionLane, TLC

Symmetry == Permutations(Session) \cup Permutations(RowKey)
=============================================================================
