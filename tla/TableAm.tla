-------------------------------- MODULE TableAm --------------------------------
(***************************************************************************)
(* The default ("postgres catalog") build as its clients meet it: the C    *)
(* table access method (fastpg_mem_tableam.c) and the statement and        *)
(* transaction control of pgcore_raw_parser.c above the storage engine.    *)
(*                                                                         *)
(* PostgreSQL's own transaction machinery decides when its callbacks fire  *)
(* and when heavyweight locks are released.  Row locks are process-wide    *)
(* mutexes keyed by Tid.  The execution lane admits one session's          *)
(* statement at a time: lane = s from the first row a statement touches to *)
(* its end, so the row operations of two statements never interleave.      *)
(***************************************************************************)
EXTENDS Storage2

CONSTANTS NoSession,      \* nobody
          MaxDepth        \* bound: the block and MaxDepth - 1 savepoints

ASSUME TableAmAssumption ==
  /\ NoSession \notin Session
  /\ MaxDepth \in Nat \ {0}

VARIABLES pg,          \* pg[s]: state of PostgreSQL's transaction block
          lane,        \* the session inside the execution lane
          utility,     \* its statement is a utility command (TRUNCATE)
          cid,         \* cid[s]: the command id of the current statement
          row_lock,    \* row_lock[t]: the session that holds t's mutex
          lock_root,   \* lock_root[s][t]: root Tid recorded for t, NoTid if none
          copy,        \* copy[s]: how far a COPY FROM STDIN of s has come
          table_lock   \* table_lock[s].write, .excl: the lowest nesting level
                       \* that holds RowExclusive / AccessExclusive, 0 if none

amVars == <<pg, lane, utility, cid, row_lock, lock_root, copy, table_lock>>

\* "data": the client sends rows; "done" and "failed": the rows have been
\* inserted or not, the overlay of the COPY is still there; "commit" and
\* "abort": it is gone, the transaction the COPY may own is still to be ended.
CopyStep == {"none", "data", "done", "failed", "commit", "abort"}

NoTableLock == [write |-> 0, excl |-> 0]

TableAmTypeOK ==
  /\ StorageTypeOK
  /\ pg \in [Session -> {"Idle", "InBlock", "Aborted", "SubAborted"}]
  /\ lane \in Session \cup {NoSession}
  /\ utility \in BOOLEAN
  /\ cid \in [Session -> Cid]
  /\ row_lock \in [Tid -> Session \cup {NoSession}]
  /\ lock_root \in [Session -> Redirects]
  /\ copy \in [Session -> CopyStep]
  /\ table_lock \in [Session -> [write : 0..MaxDepth, excl : 0..MaxDepth]]

TableAmInit ==
  /\ StorageInit
  /\ pg = [s \in Session |-> "Idle"]
  /\ lane = NoSession
  /\ utility = FALSE
  /\ cid = [s \in Session |-> 0]
  /\ row_lock = [t \in Tid |-> NoSession]
  /\ lock_root = [s \in Session |-> NoRedirects]
  /\ copy = [s \in Session |-> "none"]
  /\ table_lock = [s \in Session |-> NoTableLock]

-----------------------------------------------------------------------------
(* Locks *)

\* The nesting level of PostgreSQL's transaction, to which a lock taken now
\* belongs.  The overlay of a COPY is no level of PostgreSQL's.
Level(s) == LET d == IF copy[s] = "data" THEN Depth(s) - 1 ELSE Depth(s)
            IN IF d = 0 THEN 1 ELSE d

\* Mutant: TRUNCATE does not wait for writers.
CanLockTableBesideWriters(s, excl) == \A t \in Session \ {s} : table_lock[t].excl = 0

\* RowExclusiveLock and AccessExclusiveLock on the table.
CanLockTable(s, excl) ==
  \A t \in Session \ {s} : /\ table_lock[t].excl = 0
                           /\ excl => table_lock[t].write = 0

LockTable(s, mode) ==
  table_lock' = [table_lock EXCEPT ![s][mode] = IF @ = 0 THEN Level(s) ELSE @]

\* Locks of the nesting levels d and above are dropped when those
\* subtransactions abort and pass to the parent when they commit.
DropLevel(s, d) == LET Drop(l) == IF l >= d THEN 0 ELSE l
                   IN [write |-> Drop(table_lock[s].write), excl |-> Drop(table_lock[s].excl)]
PassLevel(s, d) == LET Pass(l) == IF l >= d THEN d - 1 ELSE l
                   IN [write |-> Pass(table_lock[s].write), excl |-> Pass(table_lock[s].excl)]

\* fastpg_mem_release_row_locks
ReleaseRowLocks(s) == row_lock' = [t \in Tid |-> IF row_lock[t] = s THEN NoSession
                                                 ELSE row_lock[t]]

\* Mutant: the row mutexes are not released.
ReleaseAllButRowLocks(s) == /\ UNCHANGED row_lock
                            /\ lock_root' = [lock_root EXCEPT ![s] = NoRedirects]
                            /\ table_lock' = [table_lock EXCEPT ![s] = NoTableLock]
                            /\ cid' = [cid EXCEPT ![s] = 0]

\* The end of the PostgreSQL transaction of s: heavyweight and row locks go,
\* the lock roots are forgotten, the next transaction starts at command 0.
ReleaseAll(s) == /\ ReleaseRowLocks(s)
                 /\ lock_root' = [lock_root EXCEPT ![s] = NoRedirects]
                 /\ table_lock' = [table_lock EXCEPT ![s] = NoTableLock]
                 /\ cid' = [cid EXCEPT ![s] = 0]

\* fastpg_mem_record_storage2_lock_root: an index scan that reached t through
\* the index entry of another Tid remembers that Tid as the root.
RecordLockRoot(s, t, via) ==
  IF via = "index" /\ rel.line[t].root # t
  THEN [lock_root[s] EXCEPT ![t] = rel.line[t].root]
  ELSE lock_root[s]

\* Mutant: no row is locked.
AcquireNoRowLock(s, t, via) ==
  /\ lock_root' = [lock_root EXCEPT ![s] = RecordLockRoot(s, t, via)]
  /\ UNCHANGED row_lock

\* fastpg_mem_acquire_storage2_update_row_lock: a session locks the root it has
\* recorded for t, or t itself; tuples it inserted itself need no lock.
AcquireRowLock(s, t, via) ==
  LET roots == RecordLockRoot(s, t, via)
      key == Resolve(roots, t)
  IN /\ lock_root' = [lock_root EXCEPT ![s] = roots]
     /\ IF OwnsInserted(stack[s], t) THEN UNCHANGED row_lock
        ELSE /\ row_lock[key] \in {NoSession, s}
             /\ row_lock' = [row_lock EXCEPT ![key] = s]

-----------------------------------------------------------------------------
(* Statements.  The first row operation of a statement enters the lane.  A
   statement that would have to wait for a lock is not taken here: it would wait
   inside the lane, which is the subject of ExecutionLane. *)

CanRun(s) == /\ lane \in {NoSession, s}
             /\ pg[s] \in {"Idle", "InBlock"}
             /\ cid[s] < MaxCid

\* The client of s may send a statement: in a COPY only its data are taken.
Ready(s) == lane = NoSession /\ copy[s] = "none"

InQuery(s) == ~utility /\ lane' = s /\ UNCHANGED <<pg, utility, cid, copy>>

\* The tuples the statement's scan returns: visible at its command id.
Scanned(s) == VisibleTids(Deltas(stack[s]), rel, cid[s])

\* fastpg_mem_tuple_insert, by INSERT or for a row of a COPY.
TupleInsert(s, row) ==
  /\ CanRun(s) /\ CanLockTable(s, FALSE)
  /\ copy[s] \in {"none", "data"}
  /\ RelationInsert(s, row, cid[s])
  /\ LockTable(s, "write")
  /\ InQuery(s)
  /\ UNCHANGED <<row_lock, lock_root>>

\* fastpg_mem_row_touched: this command already deleted or replaced t.
Touched(s, t) == \E i \in DOMAIN stack[s] : /\ t \in stack[s][i].inv
                                            /\ stack[s][i].inv_cid[t] = cid[s]

\* What fastpg_mem_tuple_delete and fastpg_mem_tuple_update do first.
LockForWrite(s, t, via) ==
  /\ CanRun(s) /\ CanLockTable(s, FALSE) /\ copy[s] = "none"
  /\ t \in Scanned(s) /\ ~Touched(s, t)
  /\ AcquireRowLock(s, t, via)
  /\ LockTable(s, "write")
  /\ InQuery(s)

\* fastpg_mem_tuple_delete
TupleDelete(s, t, via) == /\ LockForWrite(s, t, via)
                          /\ RelationDelete(s, t, cid[s])

\* fastpg_mem_tuple_update; hot when no indexed attribute changes.
TupleUpdate(s, t, via, row, hot) == /\ LockForWrite(s, t, via)
                                    /\ RelationUpdate(s, t, row, hot, cid[s])

\* Either of them when storage finds no visible tuple: TM_Deleted.
TupleMiss(s, t, via) == /\ LockForWrite(s, t, via)
                        /\ RelationMiss(s, t)

\* fastpg_mem_relation_set_new_filelocator, reached by TRUNCATE.
SetNewFilelocator(s) ==
  /\ CanRun(s) /\ CanLockTable(s, TRUE)
  /\ Ready(s)
  /\ lane' = s /\ utility' = TRUE
  /\ RelationClear(s)
  /\ LockTable(s, "excl")
  /\ UNCHANGED <<pg, cid, row_lock, lock_root, copy>>

\* finish_postgres_catalog_command: outside a block the statement is a
\* transaction and commits; inside one the command counter moves on.  A COPY may
\* bring no row.
FinishCommand(s) ==
  /\ lane = s \/ (CanRun(s) /\ copy[s] = "data")
  /\ copy' = [copy EXCEPT ![s] = IF @ = "data" THEN "done" ELSE @]
  /\ lane' = NoSession /\ utility' = FALSE
  /\ UNCHANGED pg
  /\ IF pg[s] = "Idle"
     THEN XactCommitIfImplicit(s) /\ ReleaseAll(s)
     ELSE /\ cid' = [cid EXCEPT ![s] = @ + 1]
          /\ UNCHANGED <<storageVars, row_lock, lock_root, table_lock>>

\* abort_postgres_catalog_command.  Outside a block the transaction aborts.  In
\* a block PostgreSQL aborts its innermost (sub)transaction: at the outermost
\* level it releases every lock but the storage engine keeps the explicit
\* overlay until the block ends; in a savepoint the overlay is rolled back.
\* The row locks are released in every case.
AbortCommand(s) ==
  /\ \/ lane = s
     \/ lane = NoSession /\ (copy[s] = "data" \/ (copy[s] = "none" /\ pg[s] = "InBlock"))
  /\ pg[s] \in {"Idle", "InBlock"}
  /\ copy' = [copy EXCEPT ![s] = IF @ = "data" THEN "failed" ELSE @]
  /\ lane' = NoSession /\ utility' = FALSE
  /\ IF pg[s] = "InBlock" /\ Level(s) > 1
     THEN /\ pg' = [pg EXCEPT ![s] = "SubAborted"]
          /\ SubxactAbort(s, Depth(s))
          /\ ReleaseRowLocks(s)
          /\ table_lock' = [table_lock EXCEPT ![s] = DropLevel(s, Level(s))]
          /\ UNCHANGED <<lock_root, cid>>
     ELSE /\ pg' = [pg EXCEPT ![s] = IF @ = "Idle" THEN "Idle" ELSE "Aborted"]
          /\ XactAbortIfImplicit(s)
          /\ ReleaseAll(s)

-----------------------------------------------------------------------------
(* Transaction statements (execute_transaction_stmt) *)

BeginBlock(s) == /\ Ready(s) /\ pg[s] = "Idle"
                 /\ pg' = [pg EXCEPT ![s] = "InBlock"]
                 /\ XactBegin(s)
                 /\ UNCHANGED <<lane, utility, cid, row_lock, lock_root, copy, table_lock>>

\* SAVEPOINT
DefineSavepoint(s) == /\ Ready(s) /\ pg[s] = "InBlock" /\ Depth(s) < MaxDepth
                      /\ SubxactBegin(s)
                      /\ UNCHANGED amVars

\* RELEASE of the savepoint at nesting level n
ReleaseSavepoint(s, n) ==
  /\ Ready(s) /\ pg[s] = "InBlock" /\ n \in 2..Depth(s)
  /\ SubxactCommit(s, n)
  /\ table_lock' = [table_lock EXCEPT ![s] = PassLevel(s, n)]
  /\ UNCHANGED <<pg, lane, utility, cid, row_lock, lock_root, copy>>

\* Mutant: ROLLBACK TO releases the row mutexes of the whole transaction.
RollbackToFreesRows(s, n) ==
  /\ Ready(s)
  /\ \/ pg[s] = "InBlock" /\ n \in 2..Depth(s)
     \/ pg[s] = "SubAborted" /\ n \in 2..(Depth(s) + 1)
  /\ SubxactRestart(s, n)
  /\ pg' = [pg EXCEPT ![s] = "InBlock"]
  /\ table_lock' = [table_lock EXCEPT ![s] = DropLevel(s, n)]
  /\ ReleaseRowLocks(s)
  /\ UNCHANGED <<lane, utility, cid, lock_root, copy>>

\* ROLLBACK TO the savepoint at nesting level n: the levels from n up are
\* aborted, as far as an error has not done so, and level n starts anew.
RollbackToSavepoint(s, n) ==
  /\ Ready(s)
  /\ \/ pg[s] = "InBlock" /\ n \in 2..Depth(s)
     \/ pg[s] = "SubAborted" /\ n \in 2..(Depth(s) + 1)
  /\ SubxactRestart(s, n)
  /\ pg' = [pg EXCEPT ![s] = "InBlock"]
  /\ table_lock' = [table_lock EXCEPT ![s] = DropLevel(s, n)]
  /\ UNCHANGED <<lane, utility, cid, row_lock, lock_root, copy>>

\* COMMIT of a block in progress: PostgreSQL commits, then the scheduled
\* storage commit runs, all inside the lane.
CommitBlock(s) == /\ Ready(s) /\ pg[s] = "InBlock"
                  /\ pg' = [pg EXCEPT ![s] = "Idle"]
                  /\ XactCommit(s)
                  /\ ReleaseAll(s)
                  /\ UNCHANGED <<lane, utility, copy>>

\* ROLLBACK and COMMIT of a failed block.
RollbackBlock(s) == /\ Ready(s) /\ pg[s] # "Idle"
                    /\ pg' = [pg EXCEPT ![s] = "Idle"]
                    /\ XactAbort(s)
                    /\ ReleaseAll(s)
                    /\ UNCHANGED <<lane, utility, copy>>

-----------------------------------------------------------------------------
(* COPY FROM STDIN.  The statement only announces the COPY and opens an overlay
   for it; the rows are buffered until the client is done and then inserted by
   one command (TupleInsert, FinishCommand, AbortCommand).  What comes after
   that, and the opening of the overlay, happens outside the lane. *)

\* execute_copy_stmt, then begin_copy.
BeginCopy(s) ==
  /\ CanRun(s) /\ CanLockTable(s, FALSE) /\ Ready(s)
  /\ IF pg[s] = "Idle" THEN UNCHANGED <<table_lock, cid>>
     ELSE LockTable(s, "write") /\ cid' = [cid EXCEPT ![s] = @ + 1]
  /\ SubxactBegin(s)
  /\ copy' = [copy EXCEPT ![s] = "data"]
  /\ UNCHANGED <<pg, lane, utility, row_lock, lock_root>>

\* CopyFail, or data that cannot be buffered: PostgreSQL is not told.
CopyFail(s) == /\ copy[s] = "data" /\ lane # s
               /\ copy' = [copy EXCEPT ![s] = "failed"]
               /\ UNCHANGED <<storageVars, pg, lane, utility, cid, row_lock, lock_root,
                              table_lock>>

\* finish_copy and abort_copy close the overlay of the COPY ...
CloseCopy(s) ==
  /\ \/ copy[s] = "done" /\ SubxactCommitTop(s)
     \/ copy[s] = "failed" /\ SubxactAbortTop(s)
  /\ copy' = [copy EXCEPT ![s] = IF @ = "done" THEN "commit" ELSE "abort"]
  /\ UNCHANGED <<pg, lane, utility, cid, row_lock, lock_root, table_lock>>

\* ... and end the transaction that the COPY owns if it runs outside a block.
EndCopy(s) ==
  /\ \/ copy[s] = "commit" /\ XactCommitIfImplicit(s)
     \/ copy[s] = "abort" /\ XactAbortIfImplicit(s)
  /\ copy' = [copy EXCEPT ![s] = "none"]
  /\ UNCHANGED <<pg, lane, utility, cid, row_lock, lock_root, table_lock>>

-----------------------------------------------------------------------------
\* The session is dropped with its connection: QueryExecutorCloseWork::run and
\* reset_session_state.  Another client takes its place.
EndSession(s) == /\ lane = NoSession /\ copy[s] \in {"none", "data"}
                 /\ pg' = [pg EXCEPT ![s] = "Idle"]
                 /\ DropSession(s)
                 /\ ReleaseAll(s)
                 /\ copy' = [copy EXCEPT ![s] = "none"]
                 /\ UNCHANGED <<lane, utility>>

-----------------------------------------------------------------------------
\* The access paths a scan can take to a tuple.
Via == {"seq", "index"}

TableAmNext ==
  \E s \in Session :
    \/ BeginBlock(s)
    \/ \E row \in Row : TupleInsert(s, row)
    \/ \E t \in Tid, via \in Via :
         \/ TupleDelete(s, t, via)
         \/ TupleMiss(s, t, via)
         \/ \E row \in Row, hot \in BOOLEAN : TupleUpdate(s, t, via, row, hot)
    \/ SetNewFilelocator(s)
    \/ FinishCommand(s)
    \/ AbortCommand(s)
    \/ DefineSavepoint(s)
    \/ \E n \in 2..MaxDepth : ReleaseSavepoint(s, n) \/ RollbackToSavepoint(s, n)
    \/ CommitBlock(s)
    \/ RollbackBlock(s)
    \/ BeginCopy(s) \/ CopyFail(s) \/ CloseCopy(s) \/ EndCopy(s)
    \/ EndSession(s)

TableAmSpec == TableAmInit /\ [][TableAmNext]_<<storageVars, amVars>>

-----------------------------------------------------------------------------
(* Properties *)

\* A session outside a block and between statements has left nothing behind: no
\* overlay, no heavyweight lock, no row mutex (xact_commit and xact_abort,
\* finish_copy and abort_copy, fastpg_mem_release_row_locks), on the error paths
\* and for the next client of a dropped session too.
IdleLeavesNothing ==
  \A s \in Session : pg[s] = "Idle" /\ lane # s =>
    /\ ~explicit[s] /\ table_lock[s] = NoTableLock
    /\ \A t \in Tid : row_lock[t] # s
    /\ copy[s] = "none" => stack[s] = <<>>

\* commit_empty_implicit_transaction looks at the top overlay only and takes it
\* away when it is empty: outside a block nothing is ever recorded below the top,
\* although COPY nests overlays there.
ImplicitBelowTopEmpty ==
  \A s \in Session : ~explicit[s] =>
    \A i \in 1..(Depth(s) - 1) : stack[s][i] = EmptyOverlay

\* While TRUNCATE holds its lock no other session has written to the table or
\* truncated it in a transaction that still holds its locks, although savepoints
\* are rolled back and released in between.
TableLockExclusion ==
  \A s, t \in Session : s # t /\ table_lock[s].excl # 0 =>
    table_lock[t].write = 0 /\ table_lock[t].excl = 0
=============================================================================
