------------------------------- MODULE MCScan -------------------------------
(***************************************************************************)
(* Scan for TLC.  Row versions are interchangeable: no action or property  *)
(* compares them except for equality.                                      *)
(***************************************************************************)
EXTENDS Scan, TLC

Symmetry == Permutations(Row)
=============================================================================
