------------------------------- MODULE Storage2 -------------------------------
(***************************************************************************)
(* The storage engine: fastpg-storage2's state.rs and the entry points of  *)
(* its lib.rs that the C table access method calls.  One relation, shared  *)
(* by all sessions behind the STORAGE lock, and one stack of overlays per  *)
(* session.  Every entry point runs under the write lock and is one        *)
(* action; the session is the one whose thread makes the call.             *)
(***************************************************************************)
EXTENDS TransactionOverlay

CONSTANT Session

VARIABLES rel,         \* StorageState.relations[relid]
          row_count,   \* the cached committed row count of the relation
          stack,       \* stack[s]: SessionStorage.transaction_stack
          explicit     \* explicit[s]: SessionStorage.explicit_transaction

storageVars == <<rel, row_count, stack, explicit>>

StorageTypeOK == /\ rel \in Relation
                 /\ row_count \in Nat
                 /\ stack \in [Session -> Seq(Overlay)]
                 /\ explicit \in [Session -> BOOLEAN]

StorageInit == /\ rel = EmptyRelation
               /\ row_count = 0
               /\ stack = [s \in Session |-> <<>>]
               /\ explicit = [s \in Session |-> FALSE]

Depth(s) == Len(stack[s])

SetTop(S, o) == [S EXCEPT ![Len(S)] = o]

-----------------------------------------------------------------------------
(* Tuples *)

\* Mutant: the insert is recorded in the first overlay.
RelationInsertInFirst(s, row, cid) ==
  LET S == EnsureTransaction(stack[s])
  IN /\ HasRoom(rel)
     /\ rel' = AppendPending(rel, row, NextTid(rel))
     /\ stack' = [stack EXCEPT ![s] = [S EXCEPT ![1] = RecordInsert(@, rel, cid)]]
     /\ UNCHANGED <<row_count, explicit>>

\* relation_insert: append a pending line, record it in the top overlay.
RelationInsert(s, row, cid) ==
  LET S == EnsureTransaction(stack[s])
  IN /\ HasRoom(rel)
     /\ rel' = AppendPending(rel, row, NextTid(rel))
     /\ stack' = [stack EXCEPT ![s] = SetTop(S, RecordInsert(S[Len(S)], rel, cid))]
     /\ UNCHANGED <<row_count, explicit>>

\* The tuple a delete or update of t works on, and whether the session sees it.
Target(s, t) == ResolveUpdate(Deltas(stack[s]), rel, t)
Found(s, t) == Visible(Deltas(stack[s]), rel, Target(s, t), AnyCid)

\* A delete or update that finds no visible tuple has only compressed the
\* redirects it followed.
RelationMiss(s, t) == /\ ~Found(s, t)
                      /\ rel' = CompressUpdate(Deltas(stack[s]), rel, t)
                      /\ UNCHANGED <<row_count, stack, explicit>>

\* relation_delete, then record_invalidate_metadata.
RelationDelete(s, t, cid) ==
  LET S == EnsureTransaction(stack[s])
  IN /\ Found(s, t)
     /\ rel' = CompressUpdate(Deltas(stack[s]), rel, t)
     /\ stack' = [stack EXCEPT ![s] = SetTop(S, RecordInvalidate(S[Len(S)], Target(s, t), cid))]
     /\ UNCHANGED <<row_count, explicit>>

\* relation_update: append the new version, invalidate the old one, redirect
\* the old Tid to the new; a heap-only update also leaves the indexes alone.
RelationUpdate(s, t, row, hot, cid) ==
  LET S == EnsureTransaction(stack[s])
      old == Target(s, t)
      r == CompressUpdate(Deltas(stack[s]), rel, t)
      new == NextTid(r)
      o == RecordInvalidate(RecordInsert(S[Len(S)], r, cid), old, cid)
  IN /\ Found(s, t)
     /\ HasRoom(rel)
     /\ rel' = AppendPending(r, row, IF hot THEN rel.line[old].root ELSE new)
     /\ stack' = [stack EXCEPT ![s] = SetTop(S, RecordRedirect(o, old, new, hot))]
     /\ UNCHANGED <<row_count, explicit>>

\* relation_clear inside a transaction: every visible tuple is invalidated and
\* the shared relation is replaced on the spot by an empty one.
RelationClear(s) ==
  LET S == EnsureTransaction(stack[s])
      visible == VisibleTids(S, rel, AnyCid)
  IN /\ rel' = EmptyRelation
     /\ stack' = [stack EXCEPT ![s] = SetTop(S, RecordClear(S[Len(S)], rel, visible))]
     /\ UNCHANGED <<row_count, explicit>>

\* visible_row_count_cached: the cached count corrected by what the overlays
\* insert and invalidate; a one-level stack takes a shortcut.
VisibleRowCount(s) ==
  LET S == stack[s]
      kept == {t \in Tid : \E i \in DOMAIN S : /\ t \in S[i].ins
                                             /\ \A j \in i..Len(S) : t \notin S[j].inv}
      gone == {t \in Tid : /\ \E i \in DOMAIN S : t \in S[i].inv
                           /\ ~OwnsInserted(S, t)}
      Saturate(n) == IF n < 0 THEN 0 ELSE n
  IN IF ~HasVisibilityDeltas(S) THEN row_count
     ELSE IF Len(S) = 1 THEN Saturate(row_count + Cardinality(S[1].ins) - Cardinality(S[1].inv))
     ELSE Saturate(row_count + Cardinality(kept) - Cardinality(gone))

-----------------------------------------------------------------------------
(* Transactions *)

\* xact_begin
XactBegin(s) == /\ explicit' = [explicit EXCEPT ![s] = TRUE]
                /\ stack' = [stack EXCEPT ![s] = EnsureTransaction(@)]
                /\ UNCHANGED <<rel, row_count>>

\* commit_overlay_to_relations: inserted lines become live, invalidated ones
\* dead, unless a tuple inserted after a TRUNCATE took the Tid again.
Superseded(o) == {t \in o.inv : ~(/\ o.cleared /\ t \in o.ins
                                  /\ Shadows(o.ins_cid[t], o.inv_cid[t]))}

\* Mutant: the invalidated lines stay live.
CommitOverlayKeepsDead(o) == [MarkLive(rel, o.ins) EXCEPT !.hot = Override(@, o.hot),
                                                          !.upd = Override(@, o.upd)]

CommitOverlay(o) ==
  [MarkDead(MarkLive(rel, o.ins), Superseded(o)) EXCEPT !.hot = Override(@, o.hot),
                                                        !.upd = Override(@, o.upd)]

\* Mutants: only inserts, or only deletes, count.
CommitDeltaOfInserts(o) == Cardinality({t \in o.ins : rel.line[t].st = "Pending"})
CommitDeltaOfDeletes(o) == Cardinality({t \in Superseded(o) : HasTuple(rel, t, TRUE)})

\* The net row count change that decides whether the cached count is refreshed.
CommitDelta(o) ==
  Cardinality({t \in o.ins : rel.line[t].st = "Pending"})
    - Cardinality({t \in Superseded(o) : HasTuple(rel, t, TRUE)})

\* commit_explicit and commit_implicit: the overlays are merged from the top
\* down and the last one is applied to the relation.
CommitAll(s) ==
  LET o == Merge(stack[s])
  IN /\ rel' = CommitOverlay(o)
     /\ row_count' = IF CommitDelta(o) # 0 THEN Cardinality(LiveTids(CommitOverlay(o)))
                     ELSE row_count
     /\ stack' = [stack EXCEPT ![s] = <<>>]

\* Mutant: a rollback leaves the inserted lines pending.
RollbackForgetsLines(s, n) ==
  LET clr == {i \in ClearLevels(stack[s]) : i >= n}
  IN /\ rel' = IF clr = {} THEN rel ELSE stack[s][Lowest(clr)].snapshot
     /\ row_count' = Cardinality(LiveTids(rel'))

\* rollback_overlay_from_relations for the levels n and above, from the top
\* down: inserted lines die; a level that cleared the relation puts back its
\* snapshot, in which the inserts of the levels below it die in turn.
RollbackRelation(s, n) ==
  LET S == stack[s]
      L == {i \in DOMAIN S : i >= n}
      clr == ClearLevels(S) \cap L
      base == IF clr = {} THEN rel ELSE S[Lowest(clr)].snapshot
      r == MarkDead(base, UNION {S[i].ins : i \in {j \in L : \A c \in clr : j < c}})
      refresh == clr # {} \/ \E i \in L, b \in Block : S[i].chk[b] # NoCheckpoint
  IN /\ rel' = r
     /\ row_count' = IF refresh THEN Cardinality(LiveTids(r)) ELSE row_count

RollbackAll(s) == RollbackRelation(s, 1) /\ stack' = [stack EXCEPT ![s] = <<>>]

\* xact_commit and xact_abort
XactCommit(s) == CommitAll(s) /\ explicit' = [explicit EXCEPT ![s] = FALSE]
XactAbort(s) == RollbackAll(s) /\ explicit' = [explicit EXCEPT ![s] = FALSE]

PopTop(s) == /\ stack' = [stack EXCEPT ![s] = SubSeq(@, 1, Len(@) - 1)]
             /\ UNCHANGED <<rel, row_count, explicit>>

\* xact_commit_if_implicit does nothing in a block; outside one it takes away an
\* empty top overlay (commit_empty_implicit_transaction, which does not look
\* below it) or else commits them all.
XactCommitIfImplicit(s) ==
  IF explicit[s] \/ stack[s] = <<>> THEN UNCHANGED storageVars
  ELSE IF stack[s][Depth(s)] = EmptyOverlay THEN PopTop(s)
  ELSE CommitAll(s) /\ UNCHANGED explicit

\* xact_abort_if_implicit: if all overlays are empty they are only dropped
\* (abort_empty_implicit_transaction), and rolling them back changes no page.
XactAbortIfImplicit(s) ==
  IF explicit[s] \/ stack[s] = <<>> THEN UNCHANGED storageVars
  ELSE RollbackAll(s) /\ UNCHANGED explicit

\* subxact_begin
SubxactBegin(s) ==
  /\ stack' = [stack EXCEPT ![s] = Append(EnsureTransaction(@), EmptyOverlay)]
  /\ UNCHANGED <<rel, row_count, explicit>>

\* subxact_commit for each of the levels n and above, from the top down.
SubxactCommit(s, n) ==
  /\ stack' = [stack EXCEPT ![s] = Append(SubSeq(@, 1, n - 2), Merge(SubSeq(@, n - 1, Len(@))))]
  /\ UNCHANGED <<rel, row_count, explicit>>

\* Mutant: the changes of an aborted subtransaction pass to its parent.
SubxactAbortKeepsChanges(s, n) == SubxactCommit(s, n)

\* subxact_abort for each of the levels n and above, from the top down.
SubxactAbort(s, n) == /\ RollbackRelation(s, n)
                      /\ stack' = [stack EXCEPT ![s] = SubSeq(@, 1, n - 1)]
                      /\ UNCHANGED explicit

\* Mutant: the level rolled back to keeps its overlay.
SubxactRestartKeepsLevel(s, n) ==
  /\ stack' = [stack EXCEPT ![s] = Append(SubSeq(@, 1, n), EmptyOverlay)]
  /\ UNCHANGED <<rel, row_count, explicit>>

\* The same, and a subxact_begin.
SubxactRestart(s, n) == /\ RollbackRelation(s, n)
                        /\ stack' = [stack EXCEPT ![s] = Append(SubSeq(@, 1, n - 1), EmptyOverlay)]
                        /\ UNCHANGED explicit

\* fastpg_storage2_subxact_commit and _abort leave the last overlay alone.
SubxactCommitTop(s) == IF Depth(s) > 1 THEN SubxactCommit(s, Depth(s))
                       ELSE UNCHANGED storageVars
SubxactAbortTop(s) == IF Depth(s) > 1 THEN SubxactAbort(s, Depth(s))
                      ELSE UNCHANGED storageVars

\* The storage of a session that ends.  An implicit transaction is rolled back
\* by xact_abort_if_implicit.  In a block that call does nothing: the levels
\* above the first are rolled back as PostgreSQL aborts its subtransactions, and
\* the first overlay is dropped with its SessionStorage, without a rollback.
DropSession(s) == /\ RollbackRelation(s, IF explicit[s] THEN 2 ELSE 1)
                  /\ stack' = [stack EXCEPT ![s] = <<>>]
                  /\ explicit' = [explicit EXCEPT ![s] = FALSE]
=============================================================================
