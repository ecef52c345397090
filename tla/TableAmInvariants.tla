--------------------------- MODULE TableAmInvariants ---------------------------
(***************************************************************************)
(* What the table access method and the contract beside it keep true, as   *)
(* the proofs state it.                                                    *)
(***************************************************************************)
EXTENDS TableAmTxn, AmInvariants

-----------------------------------------------------------------------------
(* The contract *)

\* The frames of the contract are level with PostgreSQL's nesting: one for the
\* block and one for each savepoint, none in a block that has failed as a whole,
\* and outside a block one at most, for the statement that is running.
Frames(s) ==
  /\ pg[s] \in {"InBlock", "SubAborted"} => Len(txn[s]) = Depth(s) - Extra(s) /\ txn[s] # <<>>
  /\ pg[s] \in {"SubAborted", "Aborted"} => copy[s] \in {"none", "failed", "abort"}
  /\ pg[s] = "Aborted" => txn[s] = <<>>
  /\ pg[s] = "Idle" => Len(txn[s]) <= 1 /\ (lane # s => txn[s] = <<>>)

StoreSound == Store!TypeOK /\ \A s \in Session : Frames(s)

TypeInv == AmSound /\ IdleInv /\ StoreSound

\* What a step of s leaves alone.
OnlyMoves(s) == \A u \in Session \ {s} : /\ stack'[u] = stack[u] /\ pg'[u] = pg[u]
                                          /\ copy'[u] = copy[u] /\ cid'[u] = cid[u]
                                          /\ txn'[u] = txn[u] /\ (lane' = u <=> lane = u)

=============================================================================
