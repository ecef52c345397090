------------------------- MODULE ExecutionLane_proofs -------------------------
(***************************************************************************)
(* Proofs about ExecutionLane, for any number of sessions and rows.        *)
(***************************************************************************)
EXTENDS ExecutionLane, Integers, TLAPS

-----------------------------------------------------------------------------
(* The lane *)

\* Who is inside holds the mutex; the counter is 1 from fetch_add to fetch_sub.
LaneInv ==
  PostgresCatalog =>
    /\ \A s \in Session : InLane(s) <=> lane = s
    /\ \A s \in Session : lane = s =>
         active = IF step[s] \in {"count", "unlock"} THEN 0 ELSE 1
    /\ lane = NoSession => active = 0
    /\ max_active <= 1
    /\ \A s \in Session : seen[s].active <= 1

\* Type correctness: in particular PGCORE_ACTIVE, an unsigned counter, is never
\* decremented below zero when it is guarded by the lane.
Inv1 == TypeOK /\ LaneInv

\* Nobody is in the lane in the beginning.
LEMMA InitInv1 == Init => Inv1
BY ExecutionLaneAssumption DEF Init, Inv1, TypeOK, LaneInv, Step, Unseen, InLane

\* What every action of ExecutionLane does to the lane's own invariant.
LEMMA NextInv1 == ASSUME PostgresCatalog PROVE Inv1 /\ [Next]_vars => Inv1'
<1> SUFFICES ASSUME Inv1, [Next]_vars PROVE Inv1'
  OBVIOUS
<1> USE ExecutionLaneAssumption DEF Inv1, TypeOK, LaneInv, InLane, Step, Goto, laneVars, lockVars
<1>1. ASSUME NEW s \in Session, NEW k \in Kinds \cup BlockKinds \cup {"end"}, NEW row \in RowKey,
             Send(s, k, row)
      PROVE  Inv1'
  BY <1>1 DEF Send
<1>2. ASSUME NEW s \in Session, LockLane(s) PROVE Inv1'
  BY <1>2 DEF LockLane
<1>3. ASSUME NEW s \in Session, Count(s) PROVE Inv1'
  BY <1>3 DEF Count
<1>4. ASSUME NEW s \in Session, LoadMax(s) PROVE Inv1'
  BY <1>4 DEF LoadMax
<1>5. ASSUME NEW s \in Session, RaiseMax(s) PROVE Inv1'
  <2>1. PICK b \in {"start", "raise"} : step[s] = "raise" /\ step' = [step EXCEPT ![s] = b]
    BY <1>5 DEF RaiseMax
  <2>2. seen' \in [Session -> [active : Nat, current : Nat]]
    BY <1>5, SMTT(20) DEF RaiseMax, Unseen
  <2>3. \A q \in Session : seen'[q].active <= 1
    BY <1>5, SMTT(20) DEF RaiseMax, Unseen
  <2>4. max_active' \in Nat /\ max_active' <= 1
    BY <1>5 DEF RaiseMax
  <2>5. UNCHANGED <<kind, want, lane, active, peak, lockVars, block, dirty>>
    BY <1>5 DEF RaiseMax
  <2> QED
    BY <2>1, <2>2, <2>3, <2>4, <2>5, ZenonT(30)
<1>6. ASSUME NEW s \in Session, StartCommand(s) PROVE Inv1'
  BY <1>6 DEF StartCommand
<1>7. ASSUME NEW s \in Session, RunQuery(s) PROVE Inv1'
  BY <1>7 DEF RunQuery
<1>8. ASSUME NEW s \in Session, RunWrite(s) PROVE Inv1'
  BY <1>8, ZenonT(30) DEF RunWrite
<1>9. ASSUME NEW s \in Session, RunDdl(s) PROVE Inv1'
  BY <1>9 DEF RunDdl, LockCatalogUtility
<1>10. ASSUME NEW s \in Session, RunEnd(s) PROVE Inv1'
  BY <1>10 DEF RunEnd, LockCatalogUtility
<1>11. ASSUME NEW s \in Session, FinishCommand(s) PROVE Inv1'
  <2>1. row_lock' \in [RowKey -> Session \cup {NoSession}]
    BY <1>11 DEF FinishCommand, Unlocked
  <2>2. block' \in [Session -> {"no", "open", "failed"}]
    BY <1>11 DEF FinishCommand
  <2>3. /\ step[s] = "finish" /\ step' = [step EXCEPT ![s] = "uncount"]
        /\ readers' = readers \ {s}
        /\ dirty' \in [Session -> BOOLEAN] /\ writer' \in Session \cup {NoSession}
        /\ UNCHANGED <<kind, want, laneVars>>
    BY <1>11, ZenonT(30) DEF FinishCommand
  <2> QED
    BY <2>1, <2>2, <2>3
<1>12. ASSUME NEW s \in Session, AbortCommand(s) PROVE Inv1'
  BY <1>12 DEF AbortCommand, Unlocked
<1>13. ASSUME NEW s \in Session, Uncount(s) PROVE Inv1'
  BY <1>13 DEF Uncount
<1>14. ASSUME NEW s \in Session, UnlockLane(s) PROVE Inv1'
  BY <1>14, SMTT(20) DEF UnlockLane
<1>15. CASE UNCHANGED vars
  BY <1>15 DEF vars
<1> QED
  BY <1>1, <1>2, <1>3, <1>4, <1>5, <1>6, <1>7, <1>8, <1>9, <1>10, <1>11, <1>12, <1>13,
     <1>14, <1>15, Zenon DEF Next, Advance, Run

\* In the default build the type invariant holds: in particular PGCORE_ACTIVE,
\* an unsigned counter, is never decremented below zero.
THEOREM TypeCorrect == ASSUME PostgresCatalog PROVE Spec => []TypeOK
<1>1. Inv1 => TypeOK
  BY DEF Inv1
<1> QED
  BY <1>1, InitInv1, NextInv1, PTL DEF Spec

\* At most one session executes PostgreSQL code (enter_pgcore_lane), and both
\* counters of the instrumentation stay at 1 or below.
THEOREM LaneIsExclusive == ASSUME PostgresCatalog PROVE Spec => []LaneExclusion
<1>1. Inv1 => LaneExclusion
  BY ExecutionLaneAssumption DEF Inv1, TypeOK, LaneInv, LaneExclusion
<1> QED
  BY <1>1, InitInv1, NextInv1, PTL DEF Spec

-----------------------------------------------------------------------------
(* The locks a statement leaves behind *)

LockInv ==
  /\ \A s \in readers : step[s] \in {"work", "finish"}
  /\ \A s \in Session : step[s] = "finish" => Accepted(s)
  /\ \A s \in Session : step[s] # "finish" /\ block[s] # "open" =>
       writer # s /\ \A k \in RowKey : row_lock[k] # s
  /\ writer # NoSession => readers = {}
  /\ \A s \in Session : kind[s] = "write" => want[s] \in RowKey

\* Nothing is locked in the beginning.
LEMMA InitLockInv == Init => LockInv
BY ExecutionLaneAssumption DEF Init, LockInv

\* Taking, keeping and giving back the catalog lock and the row mutexes.
LEMMA NextLockInv == TypeOK /\ LockInv /\ [Next]_vars => LockInv'
<1> SUFFICES ASSUME TypeOK, LockInv, [Next]_vars PROVE LockInv'
  OBVIOUS
<1> USE ExecutionLaneAssumption DEF TypeOK, LockInv, Accepted, Step, Goto, lockVars
<1>1. ASSUME NEW s \in Session, NEW k \in Kinds \cup BlockKinds \cup {"end"}, NEW row \in RowKey,
             Send(s, k, row)
      PROVE  LockInv'
  BY <1>1 DEF Send
<1>2. ASSUME NEW s \in Session, LockLane(s) \/ Count(s) \/ LoadMax(s) \/ Uncount(s) \/ UnlockLane(s)
      PROVE  LockInv'
  <2>1. CASE LockLane(s)
    BY <2>1 DEF LockLane
  <2>2. CASE Count(s)
    BY <2>2 DEF Count
  <2>3. CASE LoadMax(s)
    BY <2>3 DEF LoadMax
  <2>4. CASE Uncount(s)
    BY <2>4 DEF Uncount
  <2>5. CASE UnlockLane(s)
    BY <2>5 DEF UnlockLane
  <2> QED
    BY <1>2, <2>1, <2>2, <2>3, <2>4, <2>5
<1>3. ASSUME NEW s \in Session, RaiseMax(s) PROVE LockInv'
  <2>1. PICK b \in {"start", "raise"} : step[s] = "raise" /\ step' = [step EXCEPT ![s] = b]
    BY <1>3 DEF RaiseMax
  <2>2. UNCHANGED <<kind, want, readers, writer, row_lock, block>>
    BY <1>3 DEF RaiseMax
  <2> QED
    BY <2>1, <2>2
<1>4. ASSUME NEW s \in Session, StartCommand(s) PROVE LockInv'
  BY <1>4 DEF StartCommand
<1>5. ASSUME NEW s \in Session, RunQuery(s) PROVE LockInv'
  BY <1>5 DEF RunQuery
<1>6. ASSUME NEW s \in Session, RunWrite(s) PROVE LockInv'
  BY <1>6 DEF RunWrite
<1>7. ASSUME NEW s \in Session, RunDdl(s) PROVE LockInv'
  BY <1>7 DEF RunDdl, LockCatalogUtility
<1>8. ASSUME NEW s \in Session, RunEnd(s) PROVE LockInv'
  BY <1>8 DEF RunEnd, LockCatalogUtility
<1>9. ASSUME NEW s \in Session, FinishCommand(s) PROVE LockInv'
  <2>1. /\ step[s] = "finish" /\ step' = [step EXCEPT ![s] = "uncount"]
        /\ readers' = readers \ {s}
        /\ UNCHANGED <<kind, want>>
    BY <1>9 DEF FinishCommand
  <2>2. CASE block'[s] = "no"
    <3>1. /\ block' = [block EXCEPT ![s] = "no"]
          /\ row_lock' = Unlocked(s)
          /\ writer' = IF writer = s THEN NoSession ELSE writer
      BY <1>9, <2>2, ZenonT(30) DEF FinishCommand
    <3> QED
      BY <2>1, <3>1 DEF Unlocked
  <2>3. CASE block'[s] # "no"
    <3>1. /\ block' = [block EXCEPT ![s] = "open"]
          /\ UNCHANGED <<row_lock, writer>>
      BY <1>9, <2>3, Zenon DEF FinishCommand
    <3> QED
      BY <2>1, <3>1
  <2> QED
    BY <2>2, <2>3
<1>10. ASSUME NEW s \in Session, AbortCommand(s) PROVE LockInv'
  BY <1>10 DEF AbortCommand, Unlocked
<1>11. CASE UNCHANGED vars
  BY <1>11 DEF vars
<1> QED
  BY <1>1, <1>2, <1>3, <1>4, <1>5, <1>6, <1>7, <1>8, <1>9, <1>10, <1>11 DEF Next, Advance, Run

\* The locks a session holds outside the lane belong to an open block that has
\* not failed; the catalog lock never has a reader and a writer at once.
THEOREM LocksSound == ASSUME PostgresCatalog PROVE Spec => []LocksOutliveOnlyBlocks
<1>1. Inv1 /\ LockInv => LocksOutliveOnlyBlocks
  BY DEF Inv1, TypeOK, LaneInv, LockInv, LocksOutliveOnlyBlocks, InLane
<1>2. Inv1 => TypeOK
  BY DEF Inv1
<1> QED
  BY <1>1, <1>2, InitInv1, NextInv1, InitLockInv, NextLockInv, PTL DEF Spec

\* Who waits for a lock is in the lane, and so the only reader there can be.
LEMMA WaiterHasLane ==
  ASSUME PostgresCatalog, Inv1, LockInv, NEW s \in Session, Waits(s)
  PROVE  lane = s /\ readers \subseteq {s}
<1>1. InLane(s)
  BY DEF Waits, InLane
<1>2. lane = s
  BY <1>1 DEF Inv1, LaneInv
<1>3. ASSUME NEW r \in readers PROVE r \in Session /\ InLane(r)
  BY DEF Inv1, TypeOK, LockInv, InLane
<1>4. ASSUME NEW r \in readers PROVE r = s
  BY <1>2, <1>3 DEF Inv1, LaneInv
<1> QED
  BY <1>2, <1>4

\* The lock a session in the lane waits for is held by an open block of a session
\* outside it: two statements inside the lane never wait for each other.
THEOREM WaitsAreForBlocks == ASSUME PostgresCatalog PROVE Spec => []WaitsOnlyForBlocks
<1>1. ASSUME Inv1, LockInv, NEW s \in Session, Waits(s)
      PROVE  \E t \in Session \ {s} :
               /\ block[t] = "open" /\ ~InLane(t)
               /\ writer = t \/ \E k \in RowKey : row_lock[k] = t
  <2>1. lane = s /\ readers \subseteq {s}
    BY <1>1, WaiterHasLane
  <2>2. \A t \in Session \ {s} : ~InLane(t) /\ step[t] # "finish"
    BY <1>1, <2>1 DEF Inv1, LaneInv, InLane
  <2>3. CASE writer \in Session \ {s}
    BY <1>1, <2>2, <2>3 DEF LockInv
  <2>4. CASE writer \notin Session \ {s}
    <3>1. PICK k \in RowKey : row_lock[k] \in Session \ {s}
      BY <1>1, <2>1, <2>4 DEF Waits, Inv1, TypeOK, LockInv
    <3> QED
      BY <1>1, <2>2, <3>1 DEF LockInv
  <2> QED
    BY <2>3, <2>4
<1>2. Inv1 /\ LockInv => WaitsOnlyForBlocks
  BY <1>1 DEF WaitsOnlyForBlocks
<1>3. Inv1 => TypeOK
  BY DEF Inv1
<1> QED
  BY <1>2, <1>3, InitInv1, NextInv1, InitLockInv, NextLockInv, PTL DEF Spec

-----------------------------------------------------------------------------
(* Workloads that cannot get stuck *)

\* When blocks only read, every lock is given back by the statement that took it.
TameInv ==
  /\ \A s \in Session : block[s] # "no" /\ step[s] \notin {"idle", "uncount", "unlock"} =>
       kind[s] \in {"query", "end"}
  /\ \A s \in Session : ~dirty[s]
  /\ \A s \in Session : writer = s => step[s] = "finish" /\ kind[s] = "ddl"
  /\ \A s \in Session : \A k \in RowKey :
       row_lock[k] = s => step[s] = "finish" /\ kind[s] = "write"

\* The same in the beginning when blocks only query.
LEMMA InitTameInv == Init => TameInv
BY ExecutionLaneAssumption DEF Init, TameInv

\* A session whose blocks only query holds locks only while it is in the lane.
LEMMA NextTameInv == ASSUME BlockKinds \subseteq {"query"}
                     PROVE  TypeOK /\ LockInv /\ TameInv /\ [Next]_vars => TameInv'
<1> SUFFICES ASSUME TypeOK, LockInv, TameInv, [Next]_vars PROVE TameInv'
  OBVIOUS
<1> USE ExecutionLaneAssumption DEF TypeOK, TameInv, Step, Goto, lockVars
<1>1. ASSUME NEW s \in Session, NEW k \in Kinds \cup BlockKinds \cup {"end"}, NEW row \in RowKey,
             Send(s, k, row)
      PROVE  TameInv'
  BY <1>1 DEF Send
<1>2. ASSUME NEW s \in Session, LockLane(s) PROVE TameInv'
  BY <1>2 DEF LockLane
<1>3. ASSUME NEW s \in Session, Count(s) PROVE TameInv'
  BY <1>3 DEF Count
<1>4. ASSUME NEW s \in Session, LoadMax(s) PROVE TameInv'
  BY <1>4 DEF LoadMax
<1>5. ASSUME NEW s \in Session, RaiseMax(s) PROVE TameInv'
  <2>1. PICK b \in {"start", "raise"} : step[s] = "raise" /\ step' = [step EXCEPT ![s] = b]
    BY <1>5 DEF RaiseMax
  <2>2. UNCHANGED <<kind, writer, row_lock, block, dirty>>
    BY <1>5 DEF RaiseMax
  <2> QED
    BY <2>1, <2>2
<1>6. ASSUME NEW s \in Session, StartCommand(s) PROVE TameInv'
  BY <1>6 DEF StartCommand
<1>7. ASSUME NEW s \in Session, RunQuery(s) PROVE TameInv'
  BY <1>7 DEF RunQuery
<1>8. ASSUME NEW s \in Session, RunWrite(s) PROVE TameInv'
  BY <1>8 DEF RunWrite
<1>9. ASSUME NEW s \in Session, RunDdl(s) PROVE TameInv'
  BY <1>9, SMTT(20) DEF RunDdl, LockCatalogUtility
<1>10. ASSUME NEW s \in Session, RunEnd(s) PROVE TameInv'
  BY <1>10 DEF RunEnd
<1>11. ASSUME NEW s \in Session, FinishCommand(s) PROVE TameInv'
  <2>1. /\ step[s] = "finish" /\ step' = [step EXCEPT ![s] = "uncount"]
        /\ UNCHANGED kind
    BY <1>11 DEF FinishCommand
  <2>2. PICK b \in {"no", "open", "failed"} : block' = [block EXCEPT ![s] = b]
    BY <1>11, Zenon DEF FinishCommand
  <2>3. \A q \in Session : ~dirty'[q]
    BY <1>11 DEF FinishCommand
  <2>4. kind[s] \in {"write", "ddl"} => block[s] = "no"
    BY <2>1
  <2>5. writer' # s /\ (writer' # NoSession => writer' = writer)
    BY <1>11, <2>4 DEF FinishCommand
  <2>6. \A k \in RowKey : row_lock'[k] # s /\ (row_lock'[k] # NoSession => row_lock'[k] = row_lock[k])
    BY <1>11, <2>4 DEF FinishCommand, Unlocked
  <2> QED
    BY <2>1, <2>2, <2>3, <2>5, <2>6
<1>12. ASSUME NEW s \in Session, AbortCommand(s) PROVE TameInv'
  BY <1>12 DEF AbortCommand, Unlocked
<1>13. ASSUME NEW s \in Session, Uncount(s) PROVE TameInv'
  BY <1>13 DEF Uncount
<1>14. ASSUME NEW s \in Session, UnlockLane(s) PROVE TameInv'
  BY <1>14 DEF UnlockLane
<1>15. CASE UNCHANGED vars
  BY <1>15 DEF vars
<1> QED
  BY <1>1, <1>2, <1>3, <1>4, <1>5, <1>6, <1>7, <1>8, <1>9, <1>10, <1>11, <1>12, <1>13,
     <1>14, <1>15, Zenon DEF Next, Advance, Run

\* If no client writes or runs DDL inside a block, a statement that has the lane
\* never waits for a lock: the server cannot get stuck.  Writes and DDL outside
\* blocks are unrestricted.
THEOREM TameNeverWaits == ASSUME PostgresCatalog, BlockKinds \subseteq {"query"}
                          PROVE  Spec => []NoWaitInLane
<1>1. ASSUME Inv1, LockInv, TameInv, NEW s \in Session, Waits(s) PROVE FALSE
  <2>1. lane = s /\ readers \subseteq {s}
    BY <1>1, WaiterHasLane
  <2>2. \A t \in Session \ {s} : step[t] # "finish"
    BY <1>1, <2>1 DEF Inv1, LaneInv, InLane
  <2>3. writer \in {s, NoSession} /\ \A k \in RowKey : row_lock[k] \in {s, NoSession}
    BY <1>1, <2>2 DEF Inv1, TypeOK, TameInv
  <2> QED
    BY <1>1, <2>1, <2>3 DEF Waits, LockInv
<1>2. Inv1 /\ LockInv /\ TameInv => NoWaitInLane
  BY <1>1, Zenon DEF NoWaitInLane
<1>3. Inv1 => TypeOK
  BY DEF Inv1
<1> QED
  BY <1>2, <1>3, InitInv1, NextInv1, InitLockInv, NextLockInv, InitTameInv, NextTameInv, PTL DEF Spec

-----------------------------------------------------------------------------
(* What the sessions see: SessionService *)

\* No session has a statement or a block in the beginning.
LEMMA InitService == Init => Service!Init
BY DEF Init, Service!Init, Phase

\* Every action of ExecutionLane is a step of SessionService or leaves its state
\* alone.
LEMMA NextService == ASSUME PostgresCatalog
                     PROVE  Inv1 /\ [Next]_vars => [Service!Next]_(Service!vars)
<1> SUFFICES ASSUME Inv1, [Next]_vars PROVE [Service!Next]_(Service!vars)
  OBVIOUS
<1> USE DEF Inv1, TypeOK, Step, Goto, Phase
<1>1. ASSUME NEW s \in Session, NEW k \in Kinds \cup BlockKinds \cup {"end"}, NEW row \in RowKey,
             Send(s, k, row)
      PROVE  Service!Submit(s, k) /\ k \in Service!Request
  BY <1>1, ExecutionLaneAssumption, ZenonT(30) DEF Send, Service!Submit, Service!Request
<1>2. ASSUME NEW s \in Session, LockLane(s) PROVE Service!Enter(s)
  <2>1. \A t \in Session : Phase(t) \notin {"running", "done"}
    BY <1>2, ExecutionLaneAssumption DEF LockLane, LaneInv, InLane
  <2> QED
    BY <1>2, <2>1, Zenon DEF LockLane, Service!Enter
<1>3. ASSUME NEW s \in Session, FinishCommand(s) PROVE Service!Complete(s)
  <2>1. \E b \in Service!Outcome(kind[s], block[s]) : block' = [block EXCEPT ![s] = b]
    BY <1>3, Zenon DEF FinishCommand, Service!Outcome
  <2>2. step[s] = "finish" /\ step' = [step EXCEPT ![s] = "uncount"] /\ UNCHANGED kind
    BY <1>3 DEF FinishCommand
  <2> QED
    BY <2>1, <2>2, Zenon DEF Service!Complete
<1>4. ASSUME NEW s \in Session, AbortCommand(s) PROVE Service!Complete(s)
  <2>1. \E b \in Service!Outcome(kind[s], block[s]) : block' = [block EXCEPT ![s] = b]
    BY <1>4, Zenon DEF AbortCommand, Service!Outcome
  <2>2. /\ step[s] \in {"finish", "work"} /\ step' = [step EXCEPT ![s] = "uncount"]
        /\ UNCHANGED kind
    BY <1>4 DEF AbortCommand
  <2> QED
    BY <2>1, <2>2, Zenon DEF Service!Complete
<1>5. ASSUME NEW s \in Session, UnlockLane(s) PROVE Service!Leave(s)
  BY <1>5, ZenonT(30) DEF UnlockLane, Service!Leave
<1>6. ASSUME NEW s \in Session,
             Count(s) \/ LoadMax(s) \/ RaiseMax(s) \/ StartCommand(s) \/ Run(s) \/ Uncount(s)
      PROVE  UNCHANGED Service!vars
  <2>1. /\ UNCHANGED <<kind, block>>
        /\ \E a, b \in {"count", "load", "raise", "start", "work", "finish", "uncount", "unlock"} :
             /\ step[s] = a /\ step' = [step EXCEPT ![s] = b]
             /\ a = "uncount" <=> b = "unlock"
             /\ a # "unlock" /\ b # "uncount"
    BY <1>6 DEF Count, LoadMax, RaiseMax, StartCommand, Run, RunQuery, RunWrite, RunDdl, RunEnd,
                Uncount
  <2> QED
    BY <2>1 DEF Service!vars
<1>7. CASE UNCHANGED vars
  BY <1>7 DEF vars, Service!vars
<1> HIDE DEF Inv1, TypeOK, Step, Goto, Phase
<1> QED
  BY <1>1, <1>2, <1>3, <1>4, <1>5, <1>6, <1>7, Zenon DEF Next, Advance, Service!Next

\* The default build runs the statements of any number of sessions one at a time
\* and moves each block as PostgreSQL does, on the error paths too: it implements
\* SessionService.
THEOREM LaneImplementsService == ASSUME PostgresCatalog PROVE Spec => ImplementsService
BY InitService, NextService, InitInv1, NextInv1, PTL DEF Spec, ImplementsService, Service!Spec

-----------------------------------------------------------------------------
(* The metric *)

\* A maximum that is not in PGCORE_MAX_ACTIVE yet is on its way there: a session
\* between fetch_add and compare_exchange has seen it.
PeakInv ==
  /\ step \in [Session -> Step]
  /\ seen \in [Session -> [active : Int, current : Int]]
  /\ active \in Int /\ max_active \in Int /\ peak \in Int
  /\ 0 <= peak /\ max_active <= peak
  /\ \A s \in Session : seen[s].active <= peak
  /\ \A s \in Session : step[s] = "raise" => seen[s].current <= max_active
  /\ max_active < peak =>
       \E s \in Session : step[s] \in {"load", "raise"} /\ seen[s].active = peak

\* All counters are zero in the beginning.
LEMMA InitPeakInv == Init => PeakInv
BY DEF Init, PeakInv, Step, Unseen

\* fetch_add, the loads and compare_exchange of several sessions, in any order.
LEMMA NextPeakInv == PeakInv /\ [Next]_vars => PeakInv'
<1> SUFFICES ASSUME PeakInv, [Next]_vars PROVE PeakInv'
  OBVIOUS
<1> USE DEF PeakInv, Step, Goto, laneVars
<1>1. ASSUME NEW s \in Session, Count(s) PROVE PeakInv'
  BY <1>1 DEF Count
<1>2. ASSUME NEW s \in Session, LoadMax(s) PROVE PeakInv'
  BY <1>2 DEF LoadMax
<1>3. ASSUME NEW s \in Session, RaiseMax(s) PROVE PeakInv'
  <2>1. ASSUME seen[s].active <= seen[s].current, step[s] = "raise",
               step' = [step EXCEPT ![s] = "start"], seen' = [seen EXCEPT ![s] = Unseen],
               UNCHANGED <<max_active, active, peak>>
        PROVE  PeakInv'
    BY <2>1 DEF Unseen
  <2>2. ASSUME seen[s].active > seen[s].current, max_active = seen[s].current,
               step[s] = "raise", step' = [step EXCEPT ![s] = "start"],
               max_active' = seen[s].active, seen' = [seen EXCEPT ![s] = Unseen],
               UNCHANGED <<active, peak>>
        PROVE  PeakInv'
    BY <2>2 DEF Unseen
  <2>3. ASSUME step[s] = "raise", step' = [step EXCEPT ![s] = "raise"],
               seen' = [seen EXCEPT ![s].current = max_active],
               UNCHANGED <<max_active, active, peak>>
        PROVE  PeakInv'
    BY <2>3
  <2> HIDE DEF PeakInv
  <2> QED
    BY <1>3, <2>1, <2>2, <2>3 DEF RaiseMax
<1>4. ASSUME NEW s \in Session, Uncount(s) PROVE PeakInv'
  BY <1>4 DEF Uncount
<1>5. ASSUME UNCHANGED <<active, max_active, peak, seen>>,
             step' \in [Session -> Step],
             \A q \in Session : step[q] # step'[q] =>
               step[q] \notin {"load", "raise"} /\ step'[q] \notin {"load", "raise"}
      PROVE  PeakInv'
  BY <1>5
<1>6. ASSUME NEW s \in Session, NEW k \in Kinds \cup BlockKinds \cup {"end"}, NEW row \in RowKey,
             Send(s, k, row)
      PROVE  PeakInv'
  BY <1>5, <1>6 DEF Send
<1>7. ASSUME NEW s \in Session,
             LockLane(s) \/ StartCommand(s) \/ Run(s) \/ FinishCommand(s) \/ AbortCommand(s)
                \/ UnlockLane(s)
      PROVE  PeakInv'
  <2>1. /\ UNCHANGED <<active, max_active, peak, seen>>
        /\ \E a, b \in Step \ {"load", "raise"} : step[s] = a /\ step' = [step EXCEPT ![s] = b]
    BY <1>7 DEF LockLane, StartCommand, Run, RunQuery, RunWrite, RunDdl, RunEnd, FinishCommand,
                AbortCommand, UnlockLane
  <2>2. PICK a \in Step \ {"load", "raise"}, b \in Step \ {"load", "raise"} :
          step[s] = a /\ step' = [step EXCEPT ![s] = b]
    BY <2>1, Zenon
  <2>3. /\ step' \in [Session -> Step]
        /\ \A q \in Session : step[q] # step'[q] => q = s
        /\ step[s] = a /\ step'[s] = b
    BY <2>2
  <2> HIDE DEF PeakInv, Step
  <2> QED
    BY <1>5, <2>1, <2>2, <2>3
<1>8. CASE UNCHANGED vars
  BY <1>8 DEF vars
<1> QED
  BY <1>1, <1>2, <1>3, <1>4, <1>6, <1>7, <1>8, Zenon DEF Next, Advance

\* In both builds update_max_active loses no maximum, whatever the number of
\* sessions and the order of their atomic operations.
THEOREM MetricIsPeak == Spec => []MaxActiveIsPeak
<1>1. PeakInv => MaxActiveIsPeak
  BY DEF PeakInv, MaxActiveIsPeak
<1> QED
  BY <1>1, InitPeakInv, NextPeakInv, PTL DEF Spec
=============================================================================
