------------------------------ MODULE TableAmTxn ------------------------------
(***************************************************************************)
(* TableAm next to the contract of TxnStore.  Every step of the code is    *)
(* paired with the effect it should have on the contract's state; the      *)
(* guards of the contract are not imposed but checked (RefinesStore), and  *)
(* so is that what the code shows a session is what the contract says it   *)
(* sees (ReadsAgree).                                                      *)
(***************************************************************************)
EXTENDS TableAm

CONSTANT Ops              \* the kinds of statement the clients issue

ASSUME OpsAssumption ==
  Ops \subseteq {"block", "cursor", "delete", "update", "hot", "index", "truncate", "autotruncate",
           "savepoint", "error", "copy", "disconnect"}

VARIABLES committed, txn, used, origin

Store == INSTANCE TxnStore

storeVars == <<committed, txn, used, origin>>
allVars == <<storageVars, amVars, storeVars>>

Init == TableAmInit /\ Store!Init

RowAt(t) == rel.line[t].row

\* The transaction of s ends with its statement when it is outside a block.
EndsWith(s, Do(_)) == IF pg[s] = "Idle" /\ Store!Open(s) THEN Do(s)
                      ELSE UNCHANGED storeVars

Begin(s) == "block" \in Ops /\ BeginBlock(s) /\ Store!DoBegin(s)

Insert(s) == \E n \in Row \ used : TupleInsert(s, n) /\ Store!DoInsert(s, n)

AccessPath == {"seq"} \cup (Ops \cap {"index"})

\* A delete or update whose scanned tuple storage does not find (TM_Deleted) has
\* no effect on the table.
Delete(s) == /\ "delete" \in Ops
             /\ \E t \in Tid, via \in AccessPath :
                  \/ TupleDelete(s, t, via) /\ Store!DoDelete(s, RowAt(Target(s, t)))
                  \/ TupleMiss(s, t, via) /\ UNCHANGED storeVars

Update(s) == /\ "update" \in Ops
             /\ \E t \in Tid, via \in AccessPath :
                  \/ \E n \in Row \ used, hot \in {FALSE} \cup {o = "hot" : o \in Ops} :
                       /\ TupleUpdate(s, t, via, n, hot)
                       /\ Store!DoUpdate(s, RowAt(Target(s, t)), n)
                  \/ TupleMiss(s, t, via) /\ UNCHANGED storeVars

\* TRUNCATE, in a block or only as a statement of its own.
Truncate(s) == /\ "truncate" \in Ops \/ ("autotruncate" \in Ops /\ pg[s] = "Idle")
               /\ SetNewFilelocator(s) /\ Store!DoClear(s)

Finish(s) == FinishCommand(s) /\ EndsWith(s, Store!DoCommit)

Fail(s) == /\ "error" \in Ops
           /\ AbortCommand(s)
           /\ IF ~Store!Open(s) THEN UNCHANGED storeVars
              ELSE IF Store!Depth(s) > 1 THEN Store!DoDropFrame(s)
              ELSE Store!DoAbort(s)

SavepointStmt(s) ==
  /\ "savepoint" \in Ops
  /\ \/ DefineSavepoint(s) /\ Store!DoSavepoint(s)
     \/ \E n \in 2..MaxDepth : \/ ReleaseSavepoint(s, n) /\ Store!DoRelease(s, n)
                               \/ RollbackToSavepoint(s, n) /\ Store!DoRollbackTo(s, n)

\* COPY: its rows are inserted by Insert, its command ends in Finish or Fail.
Copy(s) == /\ "copy" \in Ops
           /\ BeginCopy(s) \/ CopyFail(s) \/ CloseCopy(s) \/ EndCopy(s)
           /\ UNCHANGED storeVars

\* The end of a session should be the end of its transaction (spec/027).
Disconnect(s) == /\ "disconnect" \in Ops
                 /\ EndSession(s)
                 /\ IF Store!Open(s) THEN Store!DoAbort(s) ELSE UNCHANGED storeVars

Commit(s) == CommitBlock(s) /\ Store!DoCommit(s)

Rollback(s) == RollbackBlock(s) /\ IF Store!Open(s) THEN Store!DoAbort(s)
                                   ELSE UNCHANGED storeVars

Next == \E s \in Session :
          \/ Begin(s) \/ Insert(s) \/ Delete(s) \/ Update(s) \/ Truncate(s)
          \/ Finish(s) \/ Fail(s) \/ SavepointStmt(s) \/ Commit(s) \/ Rollback(s)
          \/ Copy(s) \/ Disconnect(s)

Spec == Init /\ [][Next]_allVars

-----------------------------------------------------------------------------
(* Properties *)

\* The state of the code and of the contract has its type.
TypeOK == TableAmTypeOK /\ Store!TypeOK

\* Every row operation, statement end, savepoint and transaction end of the code
\* is a step the contract allows.  Above all, a session deletes or replaces only
\* a row version it sees and that no other open transaction has removed: the row
\* locks of fastpg_mem_tuple_delete and fastpg_mem_tuple_update must see to that.
RefinesStore == Store!Spec

\* s can start a statement on the table, or is in one.
CanRead(s) == /\ lane \in {NoSession, s} /\ pg[s] \in {"Idle", "InBlock"}
              /\ \A t \in Session \ {s} : table_lock[t].excl = 0

\* The row versions a scan of s returns that sees its commands before lim.
SeenRows(s, lim) == {RowAt(t) : t \in VisibleTids(Deltas(stack[s]), rel, lim)}

\* Isolation: what a scan of the pages through the overlays of a session returns
\* (physical_visible_tuple_slice) is what its view should be, its own writes
\* included and those of other open transactions excluded, whatever was
\* committed, rolled back, released or truncated before (spec/027, "client A
\* ROLLBACK does not remove client B committed data").
ReadsAgree == \A s \in Session : CanRead(s) => SeenRows(s, AnyCid) = Store!View(s)

\* An index entry leads to its row: following the heap-only redirects from the
\* Tid the indexes know a visible tuple under (resolve_tid_redirect) ends at that
\* tuple.
IndexFindsRow == \A s \in Session : CanRead(s) =>
  \A t \in VisibleTids(Deltas(stack[s]), rel, AnyCid) :
     Resolve(HotMap(Deltas(stack[s]), rel), rel.line[t].root) = t

\* DELETE and UPDATE change the tuple their scan found, not another one: the
\* redirects that storage follows from a scanned Tid lead nowhere else, unless
\* this very command has replaced it.
WritesHitScannedRow == \A s \in Session : CanRead(s) =>
  \A t \in Scanned(s) : ~Touched(s, t) => Target(s, t) = t

\* A statement reads one snapshot: its own row operations never change what its
\* scan returns (the command ids of physical_visible_tuple_slice_at_cid), so an
\* UPDATE does not meet the row versions it has just written.
SnapshotStable == [][\A s \in Session : lane = s /\ lane' = s =>
                       SeenRows(s, cid[s])' = SeenRows(s, cid[s])]_allVars

\* A pending line of the shared pages belongs to exactly one open transaction,
\* which will make it live or dead; none is left behind by a rollback.
PendingOwned == \A t \in Tid : rel.line[t].st = "Pending" =>
  \E s \in Session :
    /\ \E i \in DOMAIN stack[s] : t \in stack[s][i].ins
    /\ \A u \in Session \ {s} : \A i \in DOMAIN stack[u] : t \notin stack[u][i].ins

\* The row count that storage keeps instead of counting
\* (visible_row_count_cached) is the number of rows the session sees.
RowCountExact == \A s \in Session : CanRead(s) =>
   VisibleRowCount(s) = Cardinality(Store!View(s))

\* The scans that return nothing at once when the cached row count is 0 skip no
\* committed row.
CountZeroMeansEmpty == row_count = 0 => LiveTids(rel) = {}

\* RELEASE loses nothing: merging the top overlay into its parent first
\* (append_from) and the rest afterwards gives the same overlay.
MergeIsAppendFrom == \A s \in Session : Depth(s) > 1 =>
   Merge(stack[s]) = Merge(Append(SubSeq(stack[s], 1, Depth(s) - 2),
                                  AppendFrom(stack[s][Depth(s) - 1], stack[s][Depth(s)])))

\* An UPDATE replaces a row and never multiplies it (spec/028, "updates shadow
\* older row versions").
OneVersionPerRow == Store!OneVersionPerRow
=============================================================================
