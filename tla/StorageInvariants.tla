-------------------------- MODULE StorageInvariants --------------------------
(***************************************************************************)
(* What the storage engine keeps true, and what each of its entry points   *)
(* does to the pages and to the levels of the session that calls it, as    *)
(* far as the proofs about the table access method need to know.  The      *)
(* latter are stated here as laws; Storage2_proofs shows that they hold.   *)
(***************************************************************************)
EXTENDS Storage2, OverlayInvariants

\* Pages are dense, and so are those that a TRUNCATE has set aside.
StorageSound == /\ WellFormed(rel)
                /\ row_count \in Nat
                /\ stack \in [Session -> Seq(SoundOverlay)]
                /\ explicit \in [Session -> BOOLEAN]

OnlyStackOf(s) == \A u \in Session \ {s} : stack'[u] = stack[u]

-----------------------------------------------------------------------------
(* Depth *)

\* A call of s that leaves it d levels.
To(s, d) == StorageSound' /\ OnlyStackOf(s) /\ Depth(s)' = d

\* The levels of s once it has one.
Ensured(s) == IF Depth(s) = 0 THEN 1 ELSE Depth(s)

\* Row operations give a session its first level.
RowDepths(s) ==
  /\ \A row \in Row, c \in Cid : RelationInsert(s, row, c) => To(s, Ensured(s))
  /\ \A t \in Tid, c \in Cid : RelationDelete(s, t, c) => To(s, Ensured(s))
  /\ \A t \in Tid, row \in Row, c \in Cid : \A hot :
       RelationUpdate(s, t, row, hot, c) => To(s, Ensured(s))
  /\ RelationClear(s) => To(s, Ensured(s))
  /\ \A t \in Tid : RelationMiss(s, t) => To(s, Depth(s))

\* What a search for a row returns.
SearchTypes(s) ==
  /\ \A f \in Redirects, t \in Tid : Resolve(f, t) \in Tid
  /\ \A t \in Tid : /\ Deltas(stack[s]) \in Seq(Overlay) /\ Target(s, t) \in Tid
                    /\ Found(s, t) => rel.line[Target(s, t)].row \in Row

\* Subtransactions come and go.
SubxactDepths(s) ==
  /\ SubxactBegin(s) => To(s, Ensured(s) + 1)
  /\ \A n \in 2..Depth(s) : SubxactCommit(s, n) => To(s, n - 1)
  /\ \A n \in 1..(Depth(s) + 1) : /\ SubxactAbort(s, n) => To(s, n - 1)
                                  /\ SubxactRestart(s, n) => To(s, n)

\* The transaction begins and ends.
XactDepths(s) ==
  /\ XactBegin(s) => To(s, Ensured(s))
  /\ XactCommit(s) \/ XactAbort(s) \/ DropSession(s) => To(s, 0)
  /\ XactCommitIfImplicit(s) \/ XactAbortIfImplicit(s) => \E d \in 0..Depth(s) : To(s, d)

\* How many levels each entry point leaves.
DepthLaws ==
  \A s \in Session : RowDepths(s) /\ SearchTypes(s) /\ SubxactDepths(s) /\ XactDepths(s)

=============================================================================
