------------------------------- MODULE MCTableAm -------------------------------
(***************************************************************************)
(* TableAmTxn for TLC.  Sessions and row versions are interchangeable: no  *)
(* action or property compares them except for equality.                   *)
(***************************************************************************)
EXTENDS TableAmTxn, TLC

Symmetry == Permutations(Session) \cup Permutations(Row)
=============================================================================
