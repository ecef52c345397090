----------------------------- MODULE ExecutionLane -----------------------------
(***************************************************************************)
(* How a statement gets into PostgreSQL's C code and what it may wait for  *)
(* there.  Every pgcore call enters the execution lane                     *)
(* (fastpg-pgcore/src/lib.rs), a process-wide mutex in the default         *)
(* ("postgres catalog") build and only a set of counters otherwise.        *)
(* Inside it, the statement takes the catalog lock, a process-wide         *)
(* reader-writer lock, and the row mutexes of the tuples it changes        *)
(* (pgcore_raw_parser.c, fastpg_mem_tableam.c).  A transaction block keeps *)
(* the row mutexes and the catalog write lock when its statement leaves    *)
(* the lane.                                                               *)
(*                                                                         *)
(* A session has one backend thread, so it runs one statement at a time.   *)
(***************************************************************************)
EXTENDS Naturals

CONSTANTS Session,
          NoSession,          \* nobody
          RowKey,             \* the keys of row mutexes
          NoRow,              \* no row
          PostgresCatalog,    \* postgres_catalog_enabled()
          Kinds,              \* the kinds of statement clients send outside a block
          BlockKinds          \* the kinds they send inside one

ASSUME ExecutionLaneAssumption ==
  /\ NoSession \notin Session
  /\ NoRow \notin RowKey
  /\ PostgresCatalog \in BOOLEAN
  /\ Kinds \subseteq {"begin", "query", "write", "ddl"}
  /\ BlockKinds \subseteq {"query", "write", "ddl"}
  /\ ~PostgresCatalog => Kinds = {"query"}

VARIABLES step,        \* step[s]: where the statement of s is
          kind,        \* kind[s]: what it is
          want,        \* want[s]: the row it changes, if it is a write
          seen,        \* seen[s]: update_max_active's active and current
          lane,        \* PGCORE_LANE_LOCK
          active,      \* PGCORE_ACTIVE
          max_active,  \* PGCORE_MAX_ACTIVE
          block,       \* block[s]: PostgreSQL's transaction block: no, open, failed
          readers,     \* fastpg_pgcore_catalog_lock: readers ...
          writer,      \* ... and writer
          dirty,       \* dirty[s]: fastpg_pgcore_catalog_dirty_xact
          row_lock,    \* row_lock[k]: holder of the row mutex k
          peak         \* ghost: the largest value PGCORE_ACTIVE has had

laneVars == <<lane, active, max_active, peak, seen>>
lockVars == <<readers, writer, row_lock>>
vars == <<step, kind, want, laneVars, lockVars, block, dirty>>

\* A statement is sent, waits for the lane, enters it (count, load, raise),
\* starts its command, works, and leaves (uncount, unlock).
Step == {"idle", "queued", "count", "load", "raise", "start", "work", "finish",
         "uncount", "unlock"}

TypeOK == /\ step \in [Session -> Step]
          /\ kind \in [Session -> {"begin", "query", "write", "ddl", "end"}]
          /\ want \in [Session -> RowKey \cup {NoRow}]
          /\ seen \in [Session -> [active : Nat, current : Nat]]
          /\ lane \in Session \cup {NoSession}
          /\ active \in Nat /\ max_active \in Nat /\ peak \in Nat
          /\ block \in [Session -> {"no", "open", "failed"}]
          /\ readers \in SUBSET Session
          /\ writer \in Session \cup {NoSession}
          /\ dirty \in [Session -> BOOLEAN]
          /\ row_lock \in [RowKey -> Session \cup {NoSession}]

Unseen == [active |-> 0, current |-> 0]

Init == /\ step = [s \in Session |-> "idle"]
        /\ kind = [s \in Session |-> "query"]
        /\ want = [s \in Session |-> NoRow]
        /\ seen = [s \in Session |-> Unseen]
        /\ lane = NoSession
        /\ active = 0 /\ max_active = 0 /\ peak = 0
        /\ block = [s \in Session |-> "no"]
        /\ readers = {}
        /\ writer = NoSession
        /\ dirty = [s \in Session |-> FALSE]
        /\ row_lock = [k \in RowKey |-> NoSession]

Goto(s, a, b) == step[s] = a /\ step' = [step EXCEPT ![s] = b]

-----------------------------------------------------------------------------
(* The lane *)

\* A client sends its next statement; COMMIT or ROLLBACK ends a block.
Send(s, k, row) ==
  /\ Goto(s, "idle", "queued")
  /\ k \in IF block[s] = "no" THEN Kinds ELSE BlockKinds \cup {"end"}
  /\ kind' = [kind EXCEPT ![s] = k]
  /\ want' = [want EXCEPT ![s] = IF k = "write" THEN row ELSE NoRow]
  /\ UNCHANGED <<laneVars, lockVars, block, dirty>>

\* Mutant: the lane is entered without waiting for it.
LockLaneUnguarded(s) ==
  /\ Goto(s, "queued", "count")
  /\ lane' = IF PostgresCatalog THEN s ELSE lane
  /\ UNCHANGED <<kind, want, active, max_active, peak, seen, lockVars, block, dirty>>

\* enter_pgcore_lane: lock_pgcore_lane, in the default build only, ...
LockLane(s) == /\ Goto(s, "queued", "count")
               /\ IF PostgresCatalog THEN lane = NoSession /\ lane' = s
                  ELSE UNCHANGED lane
               /\ UNCHANGED <<kind, want, active, max_active, peak, seen, lockVars, block, dirty>>

\* ... PGCORE_ACTIVE.fetch_add(1) + 1, ...
Count(s) == /\ Goto(s, "count", "load")
            /\ active' = active + 1
            /\ seen' = [seen EXCEPT ![s].active = active + 1]
            /\ peak' = IF active + 1 > peak THEN active + 1 ELSE peak
            /\ UNCHANGED <<kind, want, lane, max_active, lockVars, block, dirty>>

\* ... and update_max_active: the first load, ...
LoadMax(s) == /\ Goto(s, "load", "raise")
              /\ seen' = [seen EXCEPT ![s].current = max_active]
              /\ UNCHANGED <<kind, want, lane, active, max_active, peak, lockVars, block, dirty>>

\* Mutant: the maximum is stored without comparing it again.
RaiseMaxByStore(s) ==
  /\ Goto(s, "raise", "start")
  /\ max_active' = IF seen[s].active > seen[s].current THEN seen[s].active ELSE max_active
  /\ seen' = [seen EXCEPT ![s] = Unseen]
  /\ UNCHANGED <<kind, want, lane, active, peak, lockVars, block, dirty>>

\* ... then compare_exchange_weak until it succeeds or the maximum is high enough.
\* (When it fails for no reason the loop reads the same maximum: no step.)
RaiseMax(s) ==
  /\ \/ /\ seen[s].active <= seen[s].current
        /\ Goto(s, "raise", "start")
        /\ seen' = [seen EXCEPT ![s] = Unseen]
        /\ UNCHANGED max_active
     \/ /\ seen[s].active > seen[s].current
        /\ max_active = seen[s].current
        /\ Goto(s, "raise", "start")
        /\ max_active' = seen[s].active
        /\ seen' = [seen EXCEPT ![s] = Unseen]
     \/ /\ seen[s].active > seen[s].current
        /\ max_active # seen[s].current
        /\ Goto(s, "raise", "raise")
        /\ seen' = [seen EXCEPT ![s].current = max_active]
        /\ UNCHANGED max_active
  /\ UNCHANGED <<kind, want, lane, active, peak, lockVars, block, dirty>>

\* Mutant: the guard is dropped twice.
UncountTwice(s) ==
  /\ Goto(s, "uncount", "unlock")
  /\ active' = active - 2
  /\ UNCHANGED <<kind, want, lane, max_active, peak, seen, lockVars, block, dirty>>

\* PgCoreLaneGuard::drop subtracts first; the mutex guard is dropped after it.
Uncount(s) == /\ Goto(s, "uncount", "unlock")
              /\ active' = active - 1
              /\ UNCHANGED <<kind, want, lane, max_active, peak, seen, lockVars, block, dirty>>

UnlockLane(s) == /\ Goto(s, "unlock", "idle")
                 /\ lane' = IF PostgresCatalog THEN NoSession ELSE lane
                 /\ kind' = [kind EXCEPT ![s] = "query"]
                 /\ want' = [want EXCEPT ![s] = NoRow]
                 /\ UNCHANGED <<active, max_active, peak, seen, lockVars, block, dirty>>

-----------------------------------------------------------------------------
(* Inside PostgreSQL *)

\* start_postgres_catalog_command takes the catalog lock for reading unless
\* this session holds it for writing; BEGIN, COMMIT and ROLLBACK start without.
StartCommand(s) ==
  /\ Goto(s, "start", "work")
  /\ IF kind[s] \in {"begin", "end"} \/ writer = s \/ ~PostgresCatalog
     THEN UNCHANGED readers
     ELSE writer = NoSession /\ readers' = readers \cup {s}
  /\ UNCHANGED <<kind, want, laneVars, writer, row_lock, block, dirty>>

\* lock_catalog_utility: gives up the read lock and waits for the write lock.
LockCatalogUtility(s) ==
  IF writer = s THEN UNCHANGED <<readers, writer>>
  ELSE /\ writer = NoSession /\ readers \ {s} = {}
       /\ readers' = {} /\ writer' = s

\* A statement of a failed block other than its end is rejected.
Accepted(s) == block[s] # "failed" \/ kind[s] = "end"

\* A query needs no more locks.
RunQuery(s) == /\ kind[s] \in {"begin", "query"} /\ Accepted(s)
               /\ Goto(s, "work", "finish")
               /\ UNCHANGED <<kind, want, laneVars, lockVars, block, dirty>>

\* acquire_row_lock: pthread_mutex_lock unless this session holds it already.
RunWrite(s) == /\ kind[s] = "write" /\ Accepted(s)
               /\ Goto(s, "work", "finish")
               /\ row_lock[want[s]] \in {NoSession, s}
               /\ row_lock' = [row_lock EXCEPT ![want[s]] = s]
               /\ UNCHANGED <<kind, want, laneVars, readers, writer, block, dirty>>

\* A utility statement that needs the catalog lock.
RunDdl(s) == /\ kind[s] = "ddl" /\ Accepted(s)
             /\ Goto(s, "work", "finish")
             /\ LockCatalogUtility(s)
             /\ dirty' = [dirty EXCEPT ![s] = @ \/ block[s] = "open"]
             /\ UNCHANGED <<kind, want, laneVars, row_lock, block>>

\* COMMIT and ROLLBACK: lock_catalog_xact_finish_if_needed.
RunEnd(s) == /\ kind[s] = "end"
             /\ Goto(s, "work", "finish")
             /\ IF dirty[s] THEN LockCatalogUtility(s) ELSE UNCHANGED <<readers, writer>>
             /\ UNCHANGED <<kind, want, laneVars, row_lock, block, dirty>>

\* fastpg_mem_release_row_locks
Unlocked(s) == [k \in RowKey |-> IF row_lock[k] = s THEN NoSession ELSE row_lock[k]]

\* Mutants: a statement outside a block keeps its row mutexes, or the catalog
\* write lock.
FinishKeepsRowLocks(s) ==
  LET b == CASE kind[s] = "begin" -> "open" [] kind[s] = "end" -> "no" [] OTHER -> block[s]
  IN /\ Goto(s, "finish", "uncount")
     /\ block' = [block EXCEPT ![s] = b]
     /\ readers' = readers \ {s}
     /\ dirty' = [dirty EXCEPT ![s] = @ /\ b # "no"]
     /\ writer' = IF writer = s /\ b = "no" THEN NoSession ELSE writer
     /\ UNCHANGED <<kind, want, laneVars, row_lock>>
FinishKeepsCatalogLock(s) ==
  LET b == CASE kind[s] = "begin" -> "open" [] kind[s] = "end" -> "no" [] OTHER -> block[s]
  IN /\ Goto(s, "finish", "uncount")
     /\ block' = [block EXCEPT ![s] = b]
     /\ readers' = readers \ {s}
     /\ dirty' = [dirty EXCEPT ![s] = @ /\ b # "no"]
     /\ row_lock' = IF b = "no" THEN Unlocked(s) ELSE row_lock
     /\ UNCHANGED <<kind, want, laneVars, writer>>

\* finish_postgres_catalog_command: a session that is in a block afterwards
\* keeps its row mutexes and the catalog write lock.
FinishCommand(s) ==
  LET b == CASE kind[s] = "begin" -> "open" [] kind[s] = "end" -> "no" [] OTHER -> block[s]
  IN /\ Goto(s, "finish", "uncount")
     /\ block' = [block EXCEPT ![s] = b]
     /\ readers' = readers \ {s}
     /\ IF b = "no"
        THEN /\ row_lock' = Unlocked(s)
             /\ dirty' = [dirty EXCEPT ![s] = FALSE]
             /\ writer' = IF writer = s THEN NoSession ELSE writer
        ELSE UNCHANGED <<row_lock, dirty, writer>>
     /\ UNCHANGED <<kind, want, laneVars>>

\* Mutant: the error path forgets the catalog write lock.
AbortKeepsCatalogLock(s) ==
  LET b == IF block[s] = "no" \/ kind[s] = "end" THEN "no" ELSE "failed"
  IN /\ kind[s] # "begin"
     /\ step[s] = "finish" \/ (step[s] = "work" /\ kind[s] # "end")
     /\ step' = [step EXCEPT ![s] = "uncount"]
     /\ block' = [block EXCEPT ![s] = b]
     /\ readers' = readers \ {s}
     /\ row_lock' = Unlocked(s)
     /\ dirty' = [dirty EXCEPT ![s] = @ /\ b # "no"]
     /\ UNCHANGED <<kind, want, laneVars, writer>>

\* Mutant: a statement that a failed block rejects is tried again in the lane.
AbortRetries(s) ==
  LET b == IF block[s] = "no" \/ kind[s] = "end" THEN "no" ELSE "failed"
  IN /\ kind[s] # "begin"
     /\ step[s] = "finish" \/ (step[s] = "work" /\ kind[s] # "end")
     /\ step' = [step EXCEPT ![s] = IF Accepted(s) THEN "uncount" ELSE "start"]
     /\ block' = [block EXCEPT ![s] = b]
     /\ readers' = readers \ {s}
     /\ row_lock' = Unlocked(s)
     /\ writer' = IF writer = s THEN NoSession ELSE writer
     /\ dirty' = [dirty EXCEPT ![s] = @ /\ b # "no"]
     /\ UNCHANGED <<kind, want, laneVars>>

\* Mutant: an error ends the block instead of failing it.
AbortEndsBlock(s) ==
  /\ kind[s] # "begin"
  /\ step[s] = "finish" \/ (step[s] = "work" /\ kind[s] # "end")
  /\ step' = [step EXCEPT ![s] = "uncount"]
  /\ block' = [block EXCEPT ![s] = "no"]
  /\ readers' = readers \ {s}
  /\ row_lock' = Unlocked(s)
  /\ writer' = IF writer = s THEN NoSession ELSE writer
  /\ dirty' = [dirty EXCEPT ![s] = FALSE]
  /\ UNCHANGED <<kind, want, laneVars>>

\* abort_postgres_catalog_command, for an error in the statement or its
\* rejection: all locks go; a block stays open and has failed, unless the error
\* is in its COMMIT.
AbortCommand(s) ==
  LET b == IF block[s] = "no" \/ kind[s] = "end" THEN "no" ELSE "failed"
  IN /\ kind[s] # "begin"
     /\ step[s] = "finish" \/ (step[s] = "work" /\ kind[s] # "end")
     /\ step' = [step EXCEPT ![s] = "uncount"]
     /\ block' = [block EXCEPT ![s] = b]
     /\ readers' = readers \ {s}
     /\ row_lock' = Unlocked(s)
     /\ writer' = IF writer = s THEN NoSession ELSE writer
     /\ dirty' = [dirty EXCEPT ![s] = @ /\ b # "no"]
     /\ UNCHANGED <<kind, want, laneVars>>

Run(s) == RunQuery(s) \/ RunWrite(s) \/ RunDdl(s) \/ RunEnd(s)

\* The steps the backend thread of s takes on its own, once it has the lane.
Advance(s) == \/ Count(s) \/ LoadMax(s) \/ RaiseMax(s) \/ StartCommand(s) \/ Run(s)
              \/ FinishCommand(s) \/ (~Accepted(s) /\ AbortCommand(s))
              \/ Uncount(s) \/ UnlockLane(s)

Next == \E s \in Session : \/ \E k \in Kinds \cup BlockKinds \cup {"end"}, row \in RowKey :
                                Send(s, k, row)
                           \/ LockLane(s) \/ Advance(s) \/ AbortCommand(s)

Spec == Init /\ [][Next]_vars

\* Threads run, and a mutex that keeps becoming free is had in the end.
\* Nothing is assumed of the clients.
FairSpec == Spec /\ \A s \in Session : WF_vars(Advance(s)) /\ SF_vars(LockLane(s))

-----------------------------------------------------------------------------
(* Properties *)

\* A statement runs from the lane mutex to the end of its command; what is left
\* then is to leave the lane.
Phase(s) == CASE step[s] = "idle" -> "idle"
              [] step[s] = "queued" -> "waiting"
              [] step[s] \in {"uncount", "unlock"} -> "done"
              [] OTHER -> "running"

Service == INSTANCE SessionService
             WITH phase <- [s \in Session |-> Phase(s)],
                  request <- [s \in Session |-> IF step[s] = "idle" THEN "none" ELSE kind[s]],
                  block <- block

\* The default build implements SessionService: from one end of the lane to the
\* other a statement runs alone, whatever it and the others wait for, and the
\* error paths (abort_postgres_catalog_command) and the rejections in a failed
\* block move its own block only, and only as PostgreSQL's block states allow.
ImplementsService == Service!Spec

\* The steps of a statement between enter_pgcore_lane and the drop of its guard.
InLane(s) == step[s] \notin {"idle", "queued"}

\* In the default build at most one session is inside the lane (spec/029, "many
\* clients can issue queries concurrently without overlapping C FFI entry"), and
\* the instrumentation agrees (rust_server_concurrency_torture.rs asserts
\* max_active = 1 there).
LaneExclusion == PostgresCatalog => /\ \A s \in Session : InLane(s) <=> lane = s
                                    /\ active <= 1 /\ max_active <= 1

\* update_max_active loses no maximum, however the fetch_adds and the
\* compare_exchange loops of several sessions interleave: when no session is
\* between the two, the metric is the largest number of sessions there ever were.
MaxActiveIsPeak ==
  (\A s \in Session : step[s] \notin {"load", "raise"}) => max_active = peak

\* What a statement leaves locked when it has left the lane belongs to a block
\* that is open and has not failed (finish_ and abort_postgres_catalog_command);
\* the catalog lock is never held for reading and for writing at once.
LocksOutliveOnlyBlocks ==
  /\ \A s \in Session : step[s] \in {"idle", "queued"} /\ block[s] # "open" =>
       writer # s /\ s \notin readers /\ \A k \in RowKey : row_lock[k] # s
  /\ PostgresCatalog => readers \subseteq {lane}
  /\ writer # NoSession => readers = {}

\* The lock the statement of s asks for is not free.
Waits(s) ==
  \/ step[s] = "start" /\ kind[s] \notin {"begin", "end"} /\ writer \notin {NoSession, s}
  \/ /\ step[s] = "work"
     /\ \/ kind[s] = "ddl" \/ (kind[s] = "end" /\ dirty[s])
     /\ writer # s /\ (writer # NoSession \/ readers \ {s} # {})
  \/ step[s] = "work" /\ kind[s] = "write" /\ row_lock[want[s]] \notin {NoSession, s}

\* Nobody waits for a lock while holding the lane: it would keep the holder of
\* the lock from ever ending its transaction.
NoWaitInLane == \A s \in Session : ~Waits(s)

\* Whoever holds a lock that a session in the lane waits for is another session
\* with an open block, outside the lane: the only way to wait is the one the
\* block's own end would resolve.
WaitsOnlyForBlocks ==
  \A s \in Session : Waits(s) =>
    \E t \in Session \ {s} :
      /\ block[t] = "open" /\ ~InLane(t)
      /\ writer = t \/ \E k \in RowKey : row_lock[k] = t

\* Every statement a client sends is answered (spec/027, "two simultaneous
\* clients can run independent transactions").
StatementCompletes == \A s \in Session : step[s] = "queued" ~> step[s] = "idle"

\* COMMIT and ROLLBACK end the block, so that who waits for it can go on
\* (mvcc.sgml, "the second updater can proceed").
BlockEnds == \A s \in Session : step[s] = "queued" /\ kind[s] = "end" ~> block[s] = "no"
=============================================================================
