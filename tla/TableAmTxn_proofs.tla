--------------------------- MODULE TableAmTxn_proofs ---------------------------
(***************************************************************************)
(* Theorems about the table access method beside its contract, for any     *)
(* number of sessions, pages and rows, any nesting of savepoints and any   *)
(* mix of statements.  The steps are shown in TableAm_proofs (what a       *)
(* session holds), TableAmTxn_types (types and levels) and                 *)
(* Storage2_proofs (what the storage engine does).                         *)
(***************************************************************************)
EXTENDS TableAm_proofs, TableAmTxn_types, Storage2_proofs

-----------------------------------------------------------------------------
(* Types *)

\* The type invariant holds initially.
LEMMA InitTypes == Init => TypeInv
<1> SUFFICES ASSUME Init PROVE TypeInv
  OBVIOUS
<1>1. IdleInv
  BY InitIdleInv DEF Init
<1> QED
  BY <1>1, EmptyRelationFacts, InitTypeInv

\* Every step preserves it.
LEMMA NextTypes == TypeInv /\ [Next]_allVars => TypeInv'
<1> SUFFICES ASSUME TypeInv, [Next]_allVars PROVE TypeInv'
  OBVIOUS
<1>1. IdleInv'
  BY NextIsTableAmNext, NextIdleInv DEF TypeInv
<1>2. DepthLaws
  BY DepthLawsHold DEF TypeInv, AmSound
<1> QED
  BY <1>1, <1>2, NextTypeInv

\* Type correctness, for any number of sessions, pages and rows, any nesting of
\* savepoints and any mix of statements: every overlay, lock, command id and page
\* of the code keeps its type, and the contract's frames stay frames.  No statement,
\* failed or not, and no end of a session drives the code into a malformed state.
THEOREM TypeCorrect == Spec => []TypeOK
<1>1. TypeInv => TypeOK
  BY AmSoundType DEF TypeInv, StoreSound, TypeOK
<1> QED
  BY <1>1, InitTypes, NextTypes, PTL DEF Spec
=============================================================================
