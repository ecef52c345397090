----------------------------- MODULE TableAm_proofs -----------------------------
(***************************************************************************)
(* The locks and overlays of the table access method, for any number of    *)
(* sessions, pages and rows and any nesting of savepoints: what the end of *)
(* a statement or of a block leaves behind, and that TRUNCATE is alone.    *)
(***************************************************************************)
EXTENDS AmInvariants, TLAPS

-----------------------------------------------------------------------------
(* Sequences *)

\* One element is replaced.
LEMMA ReplaceOne ==
  ASSUME NEW X, NEW S \in Seq(X), NEW i \in 1..Len(S), NEW e \in X
  PROVE  /\ [S EXCEPT ![i] = e] \in Seq(X) /\ Len([S EXCEPT ![i] = e]) = Len(S)
         /\ \A j \in 1..Len(S) : [S EXCEPT ![i] = e][j] = IF j = i THEN e ELSE S[j]
OBVIOUS

\* A function on 1..n is a sequence.
LEMMA FunctionSeq ==
  ASSUME NEW X, NEW n \in Nat, NEW T, T = [i \in 1..n |-> T[i]], \A i \in 1..n : T[i] \in X
  PROVE  T \in Seq(X) /\ Len(T) = n
OBVIOUS

-----------------------------------------------------------------------------
(* The table access method *)

\* What the laws of the storage engine say of one session.
LEMMA DepthFacts ==
  ASSUME DepthLaws, NEW s \in Session
  PROVE  RowDepths(s) /\ SearchTypes(s) /\ SubxactDepths(s) /\ XactDepths(s)
BY DEF DepthLaws

\* It is stronger than the type invariant.
LEMMA AmSoundType == AmSound => TableAmTypeOK
<1> SUFFICES ASSUME AmSound PROVE TableAmTypeOK
  OBVIOUS
<1>1. \A s \in Session : stack[s] \in Seq(Overlay)
  <2>1. SoundOverlay \subseteq Overlay
    BY DEF SoundOverlay
  <2> QED
    BY <2>1 DEF AmSound, StorageSound
<1>2. stack \in [Session -> Seq(Overlay)]
  BY <1>1 DEF AmSound, StorageSound
<1> QED
  BY <1>2 DEF AmSound, AmTypes, StorageSound, TableAmTypeOK, StorageTypeOK, WellFormed

\* Depths are numbers.
LEMMA DepthType ==
  ASSUME AmSound, NEW s \in Session
  PROVE  Depth(s) \in Nat /\ Extra(s) \in Nat
BY DEF AmSound, StorageSound, Depth, Extra

\* Only the session that moves has to be looked at.
LEMMA AmOneMoves ==
  ASSUME AmSound, NEW s \in Session, StorageSound', OnlyStackOf(s), AmTypes',
         \A u \in Session \ {s} : /\ copy'[u] = copy[u] /\ cid'[u] = cid[u] /\ pg'[u] = pg[u]
                                  /\ lane' = u => lane = u,
         DepthOK(s)'
  PROVE  AmSound'
<1>1. ASSUME NEW u \in Session PROVE DepthOK(u)'
  <2>1. CASE u = s
    BY <2>1
  <2>2. CASE u # s
    <3>1. DepthOK(u) /\ stack'[u] = stack[u] /\ copy'[u] = copy[u] /\ cid'[u] = cid[u]
          /\ (lane' = u => lane = u) /\ pg'[u] = pg[u]
      BY <2>2 DEF AmSound, OnlyStackOf
    <3> QED
      BY <3>1 DEF DepthOK, Extra, Depth
  <2> QED
    BY <2>1, <2>2
<1> QED
  BY <1>1 DEF AmSound

\* A lock is taken at a level of PostgreSQL's.
LEMMA LevelFacts ==
  ASSUME AmSound, NEW s \in Session, copy[s] \in {"none", "data"}
  PROVE  /\ Depth(s) \in Nat /\ Level(s) \in 1..MaxDepth
         /\ Depth(s) # 0 => Level(s) = Depth(s) - Extra(s)
<1>1. Depth(s) \in Nat /\ DepthOK(s)
  BY DEF AmSound, StorageSound, Depth
<1>2. CASE copy[s] = "data"
  BY <1>1, <1>2, TableAmAssumption DEF DepthOK, Level, Extra
<1>3. CASE copy[s] = "none"
  BY <1>1, <1>3, TableAmAssumption DEF DepthOK, Level, Extra
<1> QED
  BY <1>1, <1>2, <1>3

\* Taking a table lock keeps the table of locks one.
LEMMA LockTableType ==
  ASSUME AmSound, NEW s \in Session, copy[s] \in {"none", "data"}, NEW mode \in {"write", "excl"},
         LockTable(s, mode)
  PROVE  table_lock' \in [Session -> [write : 0..MaxDepth, excl : 0..MaxDepth]]
<1>1. Level(s) \in 0..MaxDepth
  BY LevelFacts
<1>2. table_lock \in [Session -> [write : 0..MaxDepth, excl : 0..MaxDepth]]
  BY DEF AmSound, AmTypes
<1>3. CASE mode = "write"
  BY <1>1, <1>2, <1>3 DEF LockTable
<1>4. CASE mode = "excl"
  BY <1>1, <1>2, <1>4 DEF LockTable
<1> QED
  BY <1>3, <1>4

\* So does giving up everything,
LEMMA ReleaseAllType ==
  ASSUME AmSound, NEW s \in Session, ReleaseAll(s)
  PROVE  /\ cid' \in [Session -> Cid] /\ \A u \in Session \ {s} : cid'[u] = cid[u]
         /\ row_lock' \in [Tid -> Session \cup {NoSession}]
         /\ lock_root' \in [Session -> Redirects]
         /\ table_lock' \in [Session -> [write : 0..MaxDepth, excl : 0..MaxDepth]]
<1>1. 0 \in Cid /\ NoRedirects \in Redirects /\ NoTableLock \in [write : 0..MaxDepth, excl : 0..MaxDepth]
  BY MaxCidAssumption, TableAmAssumption DEF Cid, NoRedirects, Redirects, NoTableLock
<1> QED
  BY <1>1 DEF ReleaseAll, ReleaseRowLocks, AmSound, AmTypes

\* and taking a row mutex keeps the mutexes and the lock roots what they are.
LEMMA AcquireType ==
  ASSUME AmSound, DepthLaws, NEW s \in Session, NEW t \in Tid, NEW via, AcquireRowLock(s, t, via)
  PROVE  /\ row_lock' \in [Tid -> Session \cup {NoSession}]
         /\ lock_root' \in [Session -> Redirects]
<1> DEFINE roots == RecordLockRoot(s, t, via)
           key == Resolve(roots, t)
<1>1. rel.line[t].root \in Tid \cup {NoTid}
  BY DEF AmSound, StorageSound, WellFormed, Relation, LinePointer
<1>2. roots \in Redirects
  BY <1>1 DEF RecordLockRoot, AmSound, AmTypes, Redirects
<1> HIDE DEF roots
<1>3. key \in Tid
  BY <1>2, DepthFacts DEF SearchTypes, To, Ensured
<1>4. /\ lock_root' = [lock_root EXCEPT ![s] = roots]
      /\ row_lock' = row_lock \/ row_lock' = [row_lock EXCEPT ![key] = s]
  BY DEF AcquireRowLock, roots
<1> HIDE DEF key
<1> QED
  BY <1>2, <1>3, <1>4 DEF AmSound, AmTypes

-----------------------------------------------------------------------------
(* Statements *)

\* A row operation enters the lane and writes to the top overlay.
LEMMA RowOperationSound ==
  ASSUME AmSound, NEW s \in Session, CanRun(s), copy[s] \in {"none", "data"},
         NEW mode \in {"write", "excl"}, LockTable(s, mode),
         StorageSound', OnlyStackOf(s),
         Depth(s)' \in {Depth(s), IF Depth(s) = 0 THEN 1 ELSE Depth(s)},
         lane' = s, utility' \in BOOLEAN, UNCHANGED <<pg, cid, copy>>,
         row_lock' \in [Tid -> Session \cup {NoSession}], lock_root' \in [Session -> Redirects]
  PROVE  AmSound'
<1>1. table_lock' \in [Session -> [write : 0..MaxDepth, excl : 0..MaxDepth]]
  BY LockTableType
<1>2. AmTypes'
  BY <1>1 DEF AmSound, AmTypes
<1>3. DepthOK(s) /\ Depth(s) \in Nat /\ Extra(s)' = Extra(s) /\ Extra(s) \in Nat
  BY DEF AmSound, StorageSound, Depth, Extra
<1>4. cid'[s] < MaxCid
  BY DEF CanRun
<1>5. DepthOK(s)'
  BY <1>3, <1>4, TableAmAssumption DEF DepthOK
<1> QED
  BY <1>2, <1>5, AmOneMoves

\* INSERT, and the rows of a COPY
LEMMA TupleInsertSound ==
  ASSUME AmSound, DepthLaws, NEW s \in Session, NEW row \in Row, TupleInsert(s, row)
  PROVE  /\ AmSound' /\ OnlyStackOf(s)
         /\ Depth(s)' = (IF Depth(s) = 0 THEN 1 ELSE Depth(s))
<1>1. /\ CanRun(s) /\ copy[s] \in {"none", "data"} /\ RelationInsert(s, row, cid[s])
      /\ LockTable(s, "write") /\ lane' = s /\ UNCHANGED <<pg, utility, cid, copy>>
      /\ UNCHANGED <<row_lock, lock_root>>
  BY DEF TupleInsert, InQuery
<1>2. StorageSound /\ cid[s] \in Cid /\ utility' \in BOOLEAN
      /\ row_lock' \in [Tid -> Session \cup {NoSession}] /\ lock_root' \in [Session -> Redirects]
  BY <1>1, SMTT(20) DEF AmSound, AmTypes
<1>3. StorageSound' /\ OnlyStackOf(s) /\ Depth(s)' = (IF Depth(s) = 0 THEN 1 ELSE Depth(s))
  BY <1>1, <1>2, DepthFacts DEF RowDepths, To, Ensured
<1> QED
  BY <1>1, <1>2, <1>3, RowOperationSound

\* What DELETE, UPDATE and a miss have in common.
LEMMA LockForWriteSound ==
  ASSUME AmSound, DepthLaws, NEW s \in Session, NEW t \in Tid, NEW via, LockForWrite(s, t, via),
         StorageSound', OnlyStackOf(s),
         Depth(s)' \in {Depth(s), IF Depth(s) = 0 THEN 1 ELSE Depth(s)}
  PROVE  AmSound'
<1>1. /\ CanRun(s) /\ copy[s] \in {"none", "data"}
      /\ LockTable(s, "write") /\ lane' = s /\ UNCHANGED <<pg, utility, cid, copy>>
      /\ AcquireRowLock(s, t, via)
  BY DEF LockForWrite, InQuery
<1>2. row_lock' \in [Tid -> Session \cup {NoSession}] /\ lock_root' \in [Session -> Redirects]
  BY <1>1, AcquireType
<1>3. utility' \in BOOLEAN
  BY <1>1 DEF AmSound, AmTypes
<1> QED
  BY <1>1, <1>2, <1>3, RowOperationSound

\* DELETE
LEMMA TupleDeleteSound ==
  ASSUME AmSound, DepthLaws, NEW s \in Session, NEW t \in Tid, NEW via, TupleDelete(s, t, via)
  PROVE  /\ AmSound' /\ OnlyStackOf(s)
         /\ Depth(s)' = (IF Depth(s) = 0 THEN 1 ELSE Depth(s))
<1>1. LockForWrite(s, t, via) /\ RelationDelete(s, t, cid[s])
  BY DEF TupleDelete
<1>2. StorageSound /\ cid[s] \in Cid
  BY SMTT(20) DEF AmSound, AmTypes
<1>3. StorageSound' /\ OnlyStackOf(s) /\ Depth(s)' = (IF Depth(s) = 0 THEN 1 ELSE Depth(s))
  BY <1>1, <1>2, DepthFacts DEF RowDepths, To, Ensured
<1> QED
  BY <1>1, <1>3, LockForWriteSound

\* UPDATE
LEMMA TupleUpdateSound ==
  ASSUME AmSound, DepthLaws, NEW s \in Session, NEW t \in Tid, NEW via, NEW row \in Row, NEW hot,
         TupleUpdate(s, t, via, row, hot)
  PROVE  /\ AmSound' /\ OnlyStackOf(s)
         /\ Depth(s)' = (IF Depth(s) = 0 THEN 1 ELSE Depth(s))
<1>1. LockForWrite(s, t, via) /\ RelationUpdate(s, t, row, hot, cid[s])
  BY DEF TupleUpdate
<1>2. StorageSound /\ cid[s] \in Cid
  BY SMTT(20) DEF AmSound, AmTypes
<1>3. StorageSound' /\ OnlyStackOf(s) /\ Depth(s)' = (IF Depth(s) = 0 THEN 1 ELSE Depth(s))
  BY <1>1, <1>2, DepthFacts DEF RowDepths, To, Ensured
<1> QED
  BY <1>1, <1>3, LockForWriteSound

\* A DELETE or UPDATE that finds nothing.
LEMMA TupleMissSound ==
  ASSUME AmSound, DepthLaws, NEW s \in Session, NEW t \in Tid, NEW via, TupleMiss(s, t, via)
  PROVE  AmSound' /\ OnlyStackOf(s) /\ Depth(s)' = Depth(s)
<1>1. LockForWrite(s, t, via) /\ RelationMiss(s, t)
  BY DEF TupleMiss
<1>2. StorageSound' /\ OnlyStackOf(s) /\ Depth(s)' = Depth(s)
  BY <1>1, DepthFacts DEF AmSound, RowDepths, To, Ensured
<1> QED
  BY <1>1, <1>2, LockForWriteSound

\* TRUNCATE
LEMMA SetNewFilelocatorSound ==
  ASSUME AmSound, DepthLaws, NEW s \in Session, SetNewFilelocator(s)
  PROVE  /\ AmSound' /\ OnlyStackOf(s)
         /\ Depth(s)' = (IF Depth(s) = 0 THEN 1 ELSE Depth(s))
<1>1. /\ CanRun(s) /\ copy[s] \in {"none", "data"} /\ RelationClear(s)
      /\ LockTable(s, "excl") /\ lane' = s /\ utility' \in BOOLEAN /\ UNCHANGED <<pg, cid, copy>>
      /\ UNCHANGED <<row_lock, lock_root>>
  BY DEF SetNewFilelocator, Ready
<1>2. /\ StorageSound
      /\ row_lock' \in [Tid -> Session \cup {NoSession}] /\ lock_root' \in [Session -> Redirects]
  BY <1>1, SMTT(20) DEF AmSound, AmTypes
<1>3. StorageSound' /\ OnlyStackOf(s) /\ Depth(s)' = (IF Depth(s) = 0 THEN 1 ELSE Depth(s))
  BY <1>1, <1>2, DepthFacts, Zenon DEF RowDepths, To, Ensured
<1> QED
  BY <1>1, <1>2, <1>3, RowOperationSound

\* The end of a statement
LEMMA FinishCommandSound ==
  ASSUME AmSound, DepthLaws, IdleInv, NEW s \in Session, FinishCommand(s)
  PROVE  AmSound' /\ OnlyStackOf(s) /\ (pg[s] # "Idle" => Depth(s)' = Depth(s))
<1>1. /\ copy[s] \in {"none", "data"} /\ copy' = [copy EXCEPT ![s] = IF @ = "data" THEN "done" ELSE @]
      /\ lane' = NoSession /\ utility' = FALSE /\ pg' = pg /\ cid[s] < MaxCid
  BY DEF FinishCommand, IdleInv, InStep, CanRun, AmSound, DepthOK
<1>2. /\ copy' \in [Session -> CopyStep] /\ \A u \in Session \ {s} : copy'[u] = copy[u]
      /\ Extra(s)' = Extra(s) /\ copy'[s] # "data"
  BY <1>1 DEF AmSound, AmTypes, CopyStep, Extra
<1>3. Depth(s) \in Nat /\ DepthOK(s) /\ Extra(s) \in Nat
  BY DEF AmSound, StorageSound, Depth, Extra
<1>4. CASE pg[s] = "Idle"
  <2>1. XactCommitIfImplicit(s) /\ ReleaseAll(s)
    BY <1>4 DEF FinishCommand
  <2>2. StorageSound' /\ OnlyStackOf(s) /\ Depth(s)' \in 0..Depth(s)
    BY <2>1, DepthFacts DEF AmSound, XactDepths, To, Ensured
  <2>3. AmTypes' /\ \A u \in Session \ {s} : cid'[u] = cid[u]
    BY <1>1, <1>2, <2>1, ReleaseAllType, Zenon DEF AmSound, AmTypes
  <2>4. DepthOK(s)'
    BY <1>1, <1>2, <1>3, <1>4, <2>2, TableAmAssumption DEF DepthOK
  <2> QED
    BY <1>1, <1>2, <1>4, <2>2, <2>3, <2>4, AmOneMoves, TableAmAssumption
<1>5. CASE pg[s] # "Idle"
  <2>1. cid' = [cid EXCEPT ![s] = @ + 1] /\ UNCHANGED <<storageVars, row_lock, lock_root, table_lock>>
    BY <1>5 DEF FinishCommand
  <2>2. StorageSound' /\ OnlyStackOf(s) /\ Depth(s)' = Depth(s)
    BY <2>1 DEF AmSound, StorageSound, storageVars, OnlyStackOf, Depth
  <2>3. cid' \in [Session -> Cid] /\ \A u \in Session \ {s} : cid'[u] = cid[u]
    BY <1>1, <2>1, MaxCidAssumption DEF AmSound, AmTypes, Cid
  <2>4. AmTypes'
    BY <1>1, <1>2, <2>1, <2>3, Zenon DEF AmSound, AmTypes
  <2>5. DepthOK(s)'
    BY <1>1, <1>2, <1>3, <2>2, TableAmAssumption DEF DepthOK
  <2> QED
    BY <1>1, <1>2, <2>2, <2>3, <2>4, <2>5, AmOneMoves, TableAmAssumption
<1> QED
  BY <1>4, <1>5

\* A statement fails
LEMMA AbortCommandSound ==
  ASSUME AmSound, DepthLaws, IdleInv, NEW s \in Session, AbortCommand(s)
  PROVE  /\ AmSound' /\ OnlyStackOf(s) /\ copy[s] \in {"none", "data"}
         /\ pg[s] = "InBlock" /\ Level(s) > 1 => Depth(s)' = Depth(s) - 1
<1>1. /\ copy[s] \in {"none", "data"} /\ copy' = [copy EXCEPT ![s] = IF @ = "data" THEN "failed" ELSE @]
      /\ lane' = NoSession /\ utility' = FALSE
  BY DEF AbortCommand, IdleInv, InStep
<1>2. /\ copy' \in [Session -> CopyStep] /\ \A u \in Session \ {s} : copy'[u] = copy[u]
      /\ Extra(s)' = Extra(s) /\ copy'[s] # "data"
  BY <1>1 DEF AmSound, AmTypes, CopyStep, Extra
<1>3. Depth(s) \in Nat /\ DepthOK(s) /\ Extra(s) \in Nat
  BY DEF AmSound, StorageSound, Depth, Extra
<1>4. CASE pg[s] = "InBlock" /\ Level(s) > 1
  <2>1. /\ pg' = [pg EXCEPT ![s] = "SubAborted"] /\ SubxactAbort(s, Depth(s))
        /\ ReleaseRowLocks(s) /\ table_lock' = [table_lock EXCEPT ![s] = DropLevel(s, Level(s))]
        /\ UNCHANGED <<lock_root, cid>>
    BY <1>4 DEF AbortCommand
  <2>2. Depth(s) \in 1..(Depth(s) + 1)
    BY <1>3, <1>4 DEF Level
  <2>3. StorageSound' /\ OnlyStackOf(s) /\ Depth(s)' = Depth(s) - 1
    BY <2>1, <2>2, DepthFacts DEF AmSound, SubxactDepths, To, Ensured
  <2>4. DropLevel(s, Level(s)) \in [write : 0..MaxDepth, excl : 0..MaxDepth]
    BY TableAmAssumption DEF DropLevel, AmSound, AmTypes
  <2>5. AmTypes'
    BY <1>1, <1>2, <2>1, <2>4, Zenon DEF AmSound, AmTypes, ReleaseRowLocks
  <2>6. DepthOK(s)'
    <3>1. Level(s) = Depth(s) - Extra(s)
      BY <1>1, <2>2, LevelFacts
    <3> QED
      BY <1>1, <1>2, <1>3, <1>4, <2>3, <3>1, TableAmAssumption DEF DepthOK
  <2> QED
    BY <1>1, <1>2, <2>1, <2>3, <2>5, <2>6, AmOneMoves, TableAmAssumption
<1>5. CASE ~(pg[s] = "InBlock" /\ Level(s) > 1)
  <2>1. /\ pg' = [pg EXCEPT ![s] = IF @ = "Idle" THEN "Idle" ELSE "Aborted"]
        /\ XactAbortIfImplicit(s) /\ ReleaseAll(s)
    BY <1>5 DEF AbortCommand
  <2>2. StorageSound' /\ OnlyStackOf(s) /\ Depth(s)' \in 0..Depth(s)
    BY <2>1, DepthFacts, SMTT(20) DEF AmSound, XactDepths, To, Ensured
  <2>3. AmTypes' /\ \A u \in Session \ {s} : cid'[u] = cid[u]
    BY <1>1, <1>2, <2>1, ReleaseAllType, ZenonT(30) DEF AmSound, AmTypes
  <2>4. pg'[s] \in {"Idle", "Aborted"}
    BY <2>1 DEF AmSound, AmTypes
  <2>5. DepthOK(s)'
    BY <1>1, <1>2, <1>3, <2>2, <2>4, TableAmAssumption DEF DepthOK
  <2> QED
    BY <1>1, <1>2, <1>5, <2>1, <2>2, <2>3, <2>5, AmOneMoves, TableAmAssumption
<1> QED
  BY <1>4, <1>5

-----------------------------------------------------------------------------
(* Transaction statements *)

\* BEGIN
LEMMA BeginBlockSound ==
  ASSUME AmSound, DepthLaws, NEW s \in Session, BeginBlock(s)
  PROVE  /\ AmSound' /\ OnlyStackOf(s)
         /\ Depth(s)' = (IF Depth(s) = 0 THEN 1 ELSE Depth(s))
<1>1. /\ copy[s] = "none" /\ lane = NoSession /\ pg' = [pg EXCEPT ![s] = "InBlock"] /\ XactBegin(s)
      /\ UNCHANGED <<lane, utility, cid, row_lock, lock_root, copy, table_lock>>
  BY SMTT(20) DEF BeginBlock, Ready
<1>2. StorageSound' /\ OnlyStackOf(s) /\ Depth(s)' = (IF Depth(s) = 0 THEN 1 ELSE Depth(s))
  BY <1>1, DepthFacts, Zenon DEF AmSound, XactDepths, To, Ensured
<1>3. AmTypes'
  BY <1>1 DEF AmSound, AmTypes
<1>4. Depth(s) \in Nat /\ DepthOK(s) /\ Extra(s)' = Extra(s) /\ Extra(s) = 0
  BY <1>1 DEF AmSound, StorageSound, Depth, Extra
<1>5. DepthOK(s)'
  BY <1>1, <1>2, <1>4, TableAmAssumption DEF DepthOK
<1> QED
  BY <1>1, <1>2, <1>3, <1>5, AmOneMoves, TableAmAssumption

\* SAVEPOINT
LEMMA DefineSavepointSound ==
  ASSUME AmSound, DepthLaws, NEW s \in Session, DefineSavepoint(s)
  PROVE  AmSound' /\ OnlyStackOf(s) /\ Depth(s)' = Depth(s) + 1
<1>1. /\ copy[s] = "none" /\ lane = NoSession /\ Depth(s) < MaxDepth /\ SubxactBegin(s)
      /\ UNCHANGED <<pg, lane, utility, cid, row_lock, lock_root, copy, table_lock>>
      /\ pg[s] = "InBlock"
  BY DEF DefineSavepoint, Ready, amVars
<1>2. Depth(s) \in Nat /\ DepthOK(s) /\ Extra(s)' = Extra(s) /\ Extra(s) = 0
  BY <1>1, SMTT(20) DEF AmSound, StorageSound, Depth, Extra
<1>3. StorageSound' /\ OnlyStackOf(s) /\ Depth(s)' = Depth(s) + 1
  <2>1. To(s, Ensured(s) + 1)
    BY <1>1, DepthFacts, Zenon DEF AmSound, SubxactDepths
  <2>2. Ensured(s) = Depth(s)
    BY <1>1, <1>2 DEF DepthOK, Ensured
  <2> QED
    BY <2>1, <2>2 DEF To
<1>4. AmTypes'
  BY <1>1 DEF AmSound, AmTypes
<1>5. DepthOK(s)'
  BY <1>1, <1>2, <1>3, TableAmAssumption DEF DepthOK
<1> QED
  BY <1>1, <1>3, <1>4, <1>5, AmOneMoves, TableAmAssumption

\* RELEASE
LEMMA ReleaseSavepointSound ==
  ASSUME AmSound, DepthLaws, NEW s \in Session, NEW n, ReleaseSavepoint(s, n)
  PROVE  AmSound' /\ OnlyStackOf(s) /\ Depth(s)' = n - 1
<1>1. /\ copy[s] = "none" /\ lane = NoSession /\ pg[s] = "InBlock" /\ n \in 2..Depth(s)
      /\ SubxactCommit(s, n) /\ table_lock' = [table_lock EXCEPT ![s] = PassLevel(s, n)]
      /\ UNCHANGED <<pg, lane, utility, cid, row_lock, lock_root, copy>>
  BY DEF ReleaseSavepoint, Ready
<1>2. Depth(s) \in Nat /\ DepthOK(s) /\ Extra(s)' = Extra(s) /\ Extra(s) = 0
  BY <1>1, SMTT(20) DEF AmSound, StorageSound, Depth, Extra
<1>3. StorageSound' /\ OnlyStackOf(s) /\ Depth(s)' = n - 1
  BY <1>1, DepthFacts, ZenonT(30) DEF AmSound, SubxactDepths, To, Ensured
<1>4. n - 1 \in 0..MaxDepth
  BY <1>1, <1>2, TableAmAssumption DEF DepthOK
<1>5. PassLevel(s, n) \in [write : 0..MaxDepth, excl : 0..MaxDepth]
  BY <1>4 DEF PassLevel, AmSound, AmTypes
<1>6. AmTypes'
  BY <1>1, <1>5 DEF AmSound, AmTypes
<1>7. DepthOK(s)'
  BY <1>1, <1>2, <1>3, TableAmAssumption DEF DepthOK
<1> QED
  BY <1>1, <1>3, <1>6, <1>7, AmOneMoves, TableAmAssumption

\* ROLLBACK TO
LEMMA RollbackToSavepointSound ==
  ASSUME AmSound, DepthLaws, NEW s \in Session, NEW n \in 2..MaxDepth, RollbackToSavepoint(s, n)
  PROVE  AmSound' /\ OnlyStackOf(s) /\ Depth(s)' = n
<1>1. /\ copy[s] = "none" /\ lane = NoSession /\ SubxactRestart(s, n)
      /\ pg' = [pg EXCEPT ![s] = "InBlock"]
      /\ table_lock' = [table_lock EXCEPT ![s] = DropLevel(s, n)]
      /\ UNCHANGED <<lane, utility, cid, row_lock, lock_root, copy>>
      /\ n \in 2..Depth(s) \/ n \in 2..(Depth(s) + 1)
  BY DEF RollbackToSavepoint, Ready
<1>2. Depth(s) \in Nat /\ DepthOK(s) /\ Extra(s)' = Extra(s) /\ Extra(s) = 0
  BY <1>1 DEF AmSound, StorageSound, Depth, Extra
<1>3. n \in 1..(Depth(s) + 1) /\ n \in Nat /\ n <= MaxDepth /\ n >= 2
  BY <1>1, <1>2, TableAmAssumption, SMTT(20)
<1>4. StorageSound' /\ OnlyStackOf(s) /\ Depth(s)' = n
  BY <1>1, <1>3, DepthFacts, Zenon DEF AmSound, SubxactDepths, To, Ensured
<1>5. DropLevel(s, n) \in [write : 0..MaxDepth, excl : 0..MaxDepth]
  BY TableAmAssumption DEF DropLevel, AmSound, AmTypes
<1>6. AmTypes'
  BY <1>1, <1>5 DEF AmSound, AmTypes
<1>7. DepthOK(s)'
  BY <1>1, <1>2, <1>3, <1>4, TableAmAssumption, SMTT(20) DEF DepthOK
<1> QED
  BY <1>1, <1>4, <1>6, <1>7, AmOneMoves, TableAmAssumption

\* COMMIT, ROLLBACK and the end of the session
LEMMA EndBlockSound ==
  ASSUME AmSound, DepthLaws, NEW s \in Session, CommitBlock(s) \/ RollbackBlock(s) \/ EndSession(s)
  PROVE  AmSound' /\ OnlyStackOf(s) /\ Depth(s)' = 0
<1>1. /\ lane = NoSession /\ lane' = lane /\ utility' = utility
      /\ pg' = [pg EXCEPT ![s] = "Idle"]
      /\ XactCommit(s) \/ XactAbort(s) \/ DropSession(s)
      /\ ReleaseAll(s)
      /\ copy' = [copy EXCEPT ![s] = "none"] \/ (copy' = copy /\ copy[s] = "none")
  BY DEF CommitBlock, RollbackBlock, EndSession, Ready
<1>2. StorageSound' /\ OnlyStackOf(s) /\ Depth(s)' = 0
  BY <1>1, DepthFacts DEF AmSound, XactDepths, To, Ensured
<1>3. /\ copy' \in [Session -> CopyStep] /\ \A u \in Session \ {s} : copy'[u] = copy[u]
      /\ copy'[s] = "none"
  BY <1>1 DEF AmSound, AmTypes, CopyStep
<1>4. AmTypes' /\ \A u \in Session \ {s} : cid'[u] = cid[u]
  BY <1>1, <1>3, ReleaseAllType, Zenon DEF AmSound, AmTypes
<1>5. pg'[s] = "Idle" /\ \A u \in Session \ {s} : pg'[u] = pg[u]
  BY <1>1 DEF AmSound, AmTypes
<1>6. DepthOK(s)'
  BY <1>1, <1>2, <1>3, <1>5, TableAmAssumption DEF DepthOK, Extra
<1> QED
  BY <1>1, <1>2, <1>3, <1>4, <1>5, <1>6, AmOneMoves, TableAmAssumption, ZenonT(30)

-----------------------------------------------------------------------------
(* COPY *)

\* COPY begins,
LEMMA BeginCopySound ==
  ASSUME AmSound, DepthLaws, NEW s \in Session, BeginCopy(s)
  PROVE  /\ AmSound' /\ OnlyStackOf(s)
         /\ Depth(s)' = (IF Depth(s) = 0 THEN 2 ELSE Depth(s) + 1)
<1>1. /\ copy[s] = "none" /\ lane = NoSession /\ SubxactBegin(s) /\ cid[s] < MaxCid
      /\ copy' = [copy EXCEPT ![s] = "data"]
      /\ UNCHANGED <<pg, lane, utility, row_lock, lock_root>>
      /\ table_lock' = table_lock \/ LockTable(s, "write")
      /\ cid' = cid \/ cid' = [cid EXCEPT ![s] = @ + 1]
  BY DEF BeginCopy, Ready, CanRun
<1>2. Depth(s) \in Nat /\ DepthOK(s) /\ Extra(s) = 0
  BY <1>1, SMTT(20) DEF AmSound, StorageSound, Depth, Extra
<1>3. StorageSound' /\ OnlyStackOf(s) /\ Depth(s)' = (IF Depth(s) = 0 THEN 2 ELSE Depth(s) + 1)
  BY <1>1, DepthFacts DEF AmSound, SubxactDepths, To, Ensured
<1>4. /\ copy' \in [Session -> CopyStep] /\ \A u \in Session \ {s} : copy'[u] = copy[u]
      /\ copy'[s] = "data" /\ Extra(s)' = 1
  BY <1>1 DEF AmSound, AmTypes, CopyStep, Extra
<1>5. cid' \in [Session -> Cid] /\ \A u \in Session \ {s} : cid'[u] = cid[u]
  BY <1>1, MaxCidAssumption DEF AmSound, AmTypes, Cid
<1>6. table_lock' \in [Session -> [write : 0..MaxDepth, excl : 0..MaxDepth]]
  BY <1>1, LockTableType, SMTT(20) DEF AmSound, AmTypes
<1>7. AmTypes'
  BY <1>1, <1>4, <1>5, <1>6, ZenonT(20) DEF AmSound, AmTypes
<1>8. DepthOK(s)'
  BY <1>1, <1>2, <1>3, <1>4, TableAmAssumption, SMTT(20) DEF DepthOK
<1> QED
  BY <1>1, <1>3, <1>4, <1>5, <1>7, <1>8, AmOneMoves, Zenon

\* fails,
LEMMA CopyFailSound ==
  ASSUME AmSound, NEW s \in Session, CopyFail(s)
  PROVE  AmSound' /\ OnlyStackOf(s) /\ Depth(s)' = Depth(s)
<1>1. /\ copy[s] = "data" /\ copy' = [copy EXCEPT ![s] = "failed"]
      /\ UNCHANGED <<storageVars, pg, lane, utility, cid, row_lock, lock_root, table_lock>>
  BY DEF CopyFail
<1>2. StorageSound' /\ OnlyStackOf(s) /\ Depth(s)' = Depth(s)
  BY <1>1 DEF AmSound, StorageSound, storageVars, OnlyStackOf, Depth
<1>3. /\ copy' \in [Session -> CopyStep] /\ \A u \in Session \ {s} : copy'[u] = copy[u]
      /\ copy'[s] = "failed" /\ Extra(s)' = 1 /\ Extra(s) = 1
  BY <1>1 DEF AmSound, AmTypes, CopyStep, Extra
<1>4. AmTypes'
  BY <1>1, <1>3, ZenonT(20) DEF AmSound, AmTypes
<1>5. DepthOK(s)'
  BY <1>1, <1>2, <1>3, ZenonT(20) DEF DepthOK, AmSound
<1> QED
  BY <1>1, <1>2, <1>3, <1>4, <1>5, AmOneMoves, ZenonT(20)

\* closes its overlay
LEMMA CloseCopySound ==
  ASSUME AmSound, DepthLaws, NEW s \in Session, CloseCopy(s)
  PROVE  /\ AmSound' /\ OnlyStackOf(s)
         /\ Depth(s)' = (IF Depth(s) > 1 THEN Depth(s) - 1 ELSE Depth(s))
<1>1. /\ copy[s] \in {"done", "failed"}
      /\ copy' = [copy EXCEPT ![s] = IF @ = "done" THEN "commit" ELSE "abort"]
      /\ UNCHANGED <<pg, lane, utility, cid, row_lock, lock_root, table_lock>>
  BY DEF CloseCopy
<1>2. Depth(s) \in Nat /\ DepthOK(s) /\ Extra(s) = 1
  BY <1>1 DEF AmSound, StorageSound, Depth, Extra
<1>3. StorageSound' /\ OnlyStackOf(s) /\ Depth(s)' = (IF Depth(s) > 1 THEN Depth(s) - 1 ELSE Depth(s))
  <2>1. CASE Depth(s) > 1
    <3>1. SubxactCommit(s, Depth(s)) \/ SubxactAbort(s, Depth(s))
      BY <2>1 DEF CloseCopy, SubxactCommitTop, SubxactAbortTop
    <3>2. Depth(s) \in 2..Depth(s) /\ Depth(s) \in 1..(Depth(s) + 1)
      BY <1>2, <2>1
    <3> QED
      BY <2>1, <3>1, <3>2, DepthFacts DEF AmSound, SubxactDepths, To, Ensured
  <2>2. CASE ~(Depth(s) > 1)
    BY <2>2 DEF CloseCopy, SubxactCommitTop, SubxactAbortTop, AmSound, StorageSound, storageVars,
       OnlyStackOf, Depth
  <2> QED
    BY <2>1, <2>2
<1>4. /\ copy' \in [Session -> CopyStep] /\ \A u \in Session \ {s} : copy'[u] = copy[u]
      /\ copy'[s] \in {"commit", "abort"} /\ Extra(s)' = 0
  BY <1>1 DEF AmSound, AmTypes, CopyStep, Extra
<1>5. AmTypes'
  BY <1>1, <1>4, ZenonT(20) DEF AmSound, AmTypes
<1>6. DepthOK(s)'
  BY <1>1, <1>2, <1>3, <1>4, TableAmAssumption, SMTT(20) DEF DepthOK
<1> QED
  BY <1>1, <1>3, <1>4, <1>5, <1>6, AmOneMoves

\* and ends.
LEMMA EndCopySound ==
  ASSUME AmSound, DepthLaws, IdleInv, NEW s \in Session, EndCopy(s)
  PROVE  AmSound' /\ OnlyStackOf(s) /\ (pg[s] # "Idle" => Depth(s)' = Depth(s))
<1>1. /\ copy[s] \in {"commit", "abort"} /\ copy' = [copy EXCEPT ![s] = "none"]
      /\ XactCommitIfImplicit(s) \/ XactAbortIfImplicit(s)
      /\ UNCHANGED <<pg, lane, utility, cid, row_lock, lock_root, table_lock>>
  BY DEF EndCopy
<1>2. Depth(s) \in Nat /\ DepthOK(s) /\ Extra(s) = 0
  BY <1>1 DEF AmSound, StorageSound, Depth, Extra
<1>3. StorageSound' /\ OnlyStackOf(s) /\ Depth(s)' \in 0..Depth(s)
  BY <1>1, DepthFacts, SMTT(20) DEF AmSound, XactDepths, To, Ensured
<1>4. ASSUME pg[s] # "Idle" PROVE Depth(s)' = Depth(s)
  <2>1. explicit[s]
    BY <1>4, Zenon DEF IdleInv, InStep
  <2> QED
    BY <1>1, <2>1, ZenonT(30) DEF XactCommitIfImplicit, XactAbortIfImplicit, storageVars, Depth
<1>5. /\ copy' \in [Session -> CopyStep] /\ \A u \in Session \ {s} : copy'[u] = copy[u]
      /\ copy'[s] = "none" /\ Extra(s)' = 0
  BY <1>1 DEF AmSound, AmTypes, CopyStep, Extra
<1>6. AmTypes'
  BY <1>1, <1>5, ZenonT(20) DEF AmSound, AmTypes
<1>7. DepthOK(s)'
  <2>1. /\ Depth(s) <= MaxDepth /\ (pg[s] \in {"InBlock", "SubAborted"} => Depth(s) > 0)
        /\ lane = s => cid[s] < MaxCid
    BY <1>2, TableAmAssumption DEF DepthOK
  <2>2. pg'[s] = pg[s] /\ lane' = lane /\ cid'[s] = cid[s]
    BY <1>1
  <2>3. Depth(s)' <= MaxDepth /\ (pg'[s] \in {"InBlock", "SubAborted"} => Depth(s)' > 0)
    BY <1>2, <1>3, <1>4, <2>1, <2>2, TableAmAssumption
  <2> QED
    BY <1>5, <2>1, <2>2, <2>3, TableAmAssumption DEF DepthOK
<1> QED
  BY <1>1, <1>3, <1>4, <1>5, <1>6, <1>7, AmOneMoves, Zenon

-----------------------------------------------------------------------------
(* All steps *)

\* The table access method starts sound,
LEMMA InitAmSound ==
  ASSUME TableAmInit, WellFormed(EmptyRelation)
  PROVE  AmSound
<1>1. StorageSound
  <2>1. <<>> \in Seq(SoundOverlay)
    OBVIOUS
  <2> QED
    BY <2>1 DEF TableAmInit, StorageInit, StorageSound
<1>2. AmTypes
  <2>1. 0 \in Cid /\ NoRedirects \in Redirects /\ NoTableLock \in [write : 0..MaxDepth, excl : 0..MaxDepth]
    BY MaxCidAssumption, TableAmAssumption DEF Cid, NoRedirects, Redirects, NoTableLock
  <2> QED
    BY <2>1, Zenon DEF TableAmInit, AmTypes, CopyStep
<1>3. \A s \in Session : DepthOK(s)
  BY TableAmAssumption DEF TableAmInit, StorageInit, DepthOK, Depth, Extra
<1> QED
  BY <1>1, <1>2, <1>3 DEF AmSound

\* and every step leaves it so.
LEMMA NextAmSound ==
  ASSUME AmSound, DepthLaws, IdleInv, [TableAmNext]_<<storageVars, amVars>>
  PROVE  AmSound'
<1>1. CASE UNCHANGED <<storageVars, amVars>>
  BY <1>1, ZenonT(20) DEF storageVars, amVars, AmSound, StorageSound, AmTypes, DepthOK, Extra, Depth
<1>2. CASE TableAmNext
  <2>1. PICK s \in Session :
          \/ BeginBlock(s) \/ \E row \in Row : TupleInsert(s, row)
          \/ \E t \in Tid, via \in Via :
               \/ TupleDelete(s, t, via) \/ TupleMiss(s, t, via)
               \/ \E row \in Row, hot \in BOOLEAN : TupleUpdate(s, t, via, row, hot)
          \/ SetNewFilelocator(s) \/ FinishCommand(s) \/ AbortCommand(s) \/ DefineSavepoint(s)
          \/ \E n \in 2..MaxDepth : ReleaseSavepoint(s, n) \/ RollbackToSavepoint(s, n)
          \/ CommitBlock(s) \/ RollbackBlock(s) \/ EndSession(s)
          \/ BeginCopy(s) \/ CopyFail(s) \/ CloseCopy(s) \/ EndCopy(s)
    BY <1>2, Zenon DEF TableAmNext
  <2>2. CASE \E row \in Row : TupleInsert(s, row)
    BY <2>2, TupleInsertSound
  <2>3. CASE \E t \in Tid, via \in Via :
               \/ TupleDelete(s, t, via) \/ TupleMiss(s, t, via)
               \/ \E row \in Row, hot \in BOOLEAN : TupleUpdate(s, t, via, row, hot)
    BY <2>3, TupleDeleteSound, TupleMissSound, TupleUpdateSound, SMTT(20)
  <2>4. CASE SetNewFilelocator(s) \/ FinishCommand(s) \/ AbortCommand(s)
    BY <2>4, SetNewFilelocatorSound, FinishCommandSound, AbortCommandSound, Zenon
  <2>5. CASE BeginBlock(s) \/ DefineSavepoint(s)
    BY <2>5, BeginBlockSound, DefineSavepointSound
  <2>6. CASE \E n \in 2..MaxDepth : ReleaseSavepoint(s, n) \/ RollbackToSavepoint(s, n)
    BY <2>6, ReleaseSavepointSound, RollbackToSavepointSound
  <2>7. CASE CommitBlock(s) \/ RollbackBlock(s) \/ EndSession(s)
    BY <2>7, EndBlockSound
  <2>8. CASE BeginCopy(s) \/ CopyFail(s) \/ CloseCopy(s) \/ EndCopy(s)
    BY <2>8, BeginCopySound, CopyFailSound, CloseCopySound, EndCopySound
  <2> QED
    BY <2>1, <2>2, <2>3, <2>4, <2>5, <2>6, <2>7, <2>8, Zenon
<1> QED
  BY <1>1, <1>2

-----------------------------------------------------------------------------
(* Effects *)

\* Releasing everything a session holds leaves the other sessions alone.
LEMMA ReleaseAllFrees ==
  ASSUME Shape, NEW s \in Session, ReleaseAll(s)
  PROVE  /\ DOMAIN table_lock' = Session /\ row_lock' \in [Tid -> Session \cup {NoSession}]
         /\ table_lock'[s] = NoTableLock /\ \A t \in Tid : row_lock'[t] # s
         /\ \A u \in Session \ {s} : /\ table_lock'[u] = table_lock[u]
                                     /\ \A t \in Tid : row_lock[t] # u => row_lock'[t] # u
BY TableAmAssumption DEF Shape, ReleaseAll, ReleaseRowLocks

\* A row mutex is only ever taken from nobody.
LEMMA AcquireTakesFree ==
  ASSUME Shape, NEW s \in Session, NEW t, NEW via, AcquireRowLock(s, t, via)
  PROVE  /\ row_lock' \in [Tid -> Session \cup {NoSession}]
         /\ \A u \in Session \ {s} : \A x \in Tid : row_lock[x] # u => row_lock'[x] # u
<1> DEFINE key == Resolve(RecordLockRoot(s, t, via), t)
<1>1. row_lock' = row_lock \/ row_lock' = [row_lock EXCEPT ![key] = s]
  BY DEF AcquireRowLock
<1> HIDE DEF key
<1> QED
  BY <1>1 DEF Shape

\* A table lock is taken by one session.
LEMMA LockTableOthers ==
  ASSUME Shape, NEW s \in Session, NEW mode, LockTable(s, mode)
  PROVE  /\ DOMAIN table_lock' = Session
         /\ \A u \in Session \ {s} : table_lock'[u] = table_lock[u]
BY DEF Shape, LockTable

\* A step of s leaves what the other sessions hold alone.
OthersKeep(s) ==
  \A u \in Session \ {s} : /\ stack'[u] = stack[u] /\ explicit'[u] = explicit[u]
                           /\ pg'[u] = pg[u] /\ table_lock'[u] = table_lock[u]
                           /\ copy'[u] = copy[u]
                           /\ \A t \in Tid : row_lock[t] # u => row_lock'[t] # u

\* Only the session that moves has to be looked at.
LEMMA OneSessionMoves ==
  ASSUME IdleInv, NEW s \in Session, Shape', OthersKeep(s),
         \A u \in Session \ {s} : lane' = u <=> lane = u,
         explicit'[s] <=> pg'[s] # "Idle",
         lane' = s => pg'[s] \in {"Idle", "InBlock"} /\ copy'[s] \in {"none", "data"},
         pg'[s] = "Idle" => Held(s)'
  PROVE  IdleInv'
<1>1. InStep'
  <2>1. ASSUME NEW u \in Session
        PROVE  /\ explicit'[u] <=> pg'[u] # "Idle"
               /\ lane' = u => pg'[u] \in {"Idle", "InBlock"} /\ copy'[u] \in {"none", "data"}
    <3>1. CASE u = s
      BY <3>1
    <3>2. CASE u # s
      BY <3>2 DEF IdleInv, InStep, OthersKeep
    <3> QED
      BY <3>1, <3>2
  <2> QED
    BY <2>1 DEF InStep
<1>2. ASSUME NEW u \in Session, pg'[u] = "Idle" PROVE Held(u)'
  <2>1. CASE u = s
    BY <1>2, <2>1
  <2>2. CASE u # s
    <3>1. Held(u) /\ stack'[u] = stack[u] /\ copy'[u] = copy[u] /\ (lane' = u <=> lane = u)
          /\ table_lock'[u] = table_lock[u] /\ \A t \in Tid : row_lock[t] # u => row_lock'[t] # u
      BY <1>2, <2>2, ZenonT(20) DEF IdleInv, OthersKeep
    <3> QED
      BY <3>1, ZenonT(20) DEF Held, ImplicitStack, NoLocks
  <2> QED
    BY <2>1, <2>2
<1> QED
  BY <1>1, <1>2, ZenonT(20) DEF IdleInv

-----------------------------------------------------------------------------
(* Short stacks *)

\* The top overlay of a stack of one or two is replaced.
LEMMA SetTopShort ==
  ASSUME NEW a, NEW b, NEW o
  PROVE  /\ SetTop(EnsureTransaction(<<>>), o) = <<o>>
         /\ SetTop(EnsureTransaction(<<a>>), o) = <<o>>
         /\ SetTop(EnsureTransaction(<<a, b>>), o) = <<a, o>>
BY DEF SetTop, EnsureTransaction

\* Two sequences of one length with the same elements are equal.
LEMMA SameSeq ==
  ASSUME NEW X, NEW S \in Seq(X), NEW T \in Seq(X), Len(S) = Len(T),
         \A i \in 1..Len(S) : S[i] = T[i]
  PROVE  S = T
OBVIOUS

\* What a cut leaves.
LEMMA CutSeq ==
  ASSUME NEW X, NEW S \in Seq(X), NEW k \in 0..Len(S)
  PROVE  /\ SubSeq(S, 1, k) \in Seq(X) /\ Len(SubSeq(S, 1, k)) = k
         /\ \A i \in 1..k : SubSeq(S, 1, k)[i] = S[i]
OBVIOUS

\* The top overlay of a stack of one or two is taken away.
LEMMA PopShort ==
  ASSUME NEW a, NEW b
  PROVE  SubSeq(<<a>>, 1, 0) = <<>> /\ SubSeq(<<a, b>>, 1, 1) = <<a>>
<1> DEFINE q == SubSeq(<<a, b>>, 1, 1)
           e == SubSeq(<<a>>, 1, 0)
<1>1. <<a>> \in Seq({a, b}) /\ <<a, b>> \in Seq({a, b}) /\ Len(<<a>>) = 1 /\ Len(<<a, b>>) = 2
  OBVIOUS
<1>2. q \in Seq({a, b}) /\ Len(q) = 1 /\ q[1] = <<a, b>>[1]
  BY <1>1, CutSeq
<1>3. e \in Seq({a, b}) /\ Len(e) = 0
  BY <1>1, CutSeq
<1> HIDE DEF q, e
<1>4. q = <<a>>
  BY <1>1, <1>2, SameSeq
<1>5. e = <<>>
  BY <1>3
<1> QED
  BY <1>4, <1>5 DEF q, e

\* Nothing is taken away from no overlays.
LEMMA CutNothing == \A k \in Int : k < 1 => SubSeq(<<>>, 1, k) = <<>>
<1> SUFFICES ASSUME NEW k \in Int, k < 1 PROVE SubSeq(<<>>, 1, k) = <<>>
  OBVIOUS
<1>1. <<>> \in Seq({}) /\ SubSeq(<<>>, 1, k) \in Seq({}) /\ Len(SubSeq(<<>>, 1, k)) = 0
  OBVIOUS
<1> QED
  BY <1>1

\* An overlay is put on top of one.
LEMMA AppendShort == ASSUME NEW e PROVE Append(<<e>>, e) = <<e, e>>
<1> DEFINE q == Append(<<e>>, e)
<1>1. <<e>> \in Seq({e}) /\ <<e, e>> \in Seq({e}) /\ Len(<<e>>) = 1 /\ Len(<<e, e>>) = 2
  OBVIOUS
<1>2. q \in Seq({e}) /\ Len(q) = 2
  BY <1>1
<1>3. \A i \in 1..2 : q[i] \in {e} /\ <<e, e>>[i] = e
  <2> HIDE DEF q
  <2> QED
    BY <1>2
<1> HIDE DEF q
<1>4. q = <<e, e>>
  BY <1>1, <1>2, <1>3, SameSeq
<1> QED
  BY <1>4 DEF q

\* Where the top is empty and what is below it too, an implicit commit takes one
\* overlay away; otherwise it leaves none.
LEMMA CommitIfImplicitStack ==
  ASSUME Shape, NEW s \in Session, XactCommitIfImplicit(s)
  PROVE  /\ DOMAIN stack' = Session /\ explicit' = explicit
         /\ \A u \in Session \ {s} : stack'[u] = stack[u]
         /\ ~explicit[s] => /\ stack[s] = <<>> => stack'[s] = <<>>
                            /\ \A o : stack[s] = <<o>> => stack'[s] = <<>>
                            /\ \A o : stack[s] = <<EmptyOverlay, o>> =>
                                 stack'[s] \in {<<>>, <<EmptyOverlay>>}
<1>1. /\ explicit' = explicit
      /\ \/ stack' = stack /\ (explicit[s] \/ stack[s] = <<>>)
         \/ stack' = [stack EXCEPT ![s] = SubSeq(@, 1, Len(@) - 1)]
         \/ stack' = [stack EXCEPT ![s] = <<>>]
  BY DEF XactCommitIfImplicit, PopTop, CommitAll, storageVars
<1>2. ASSUME NEW o, stack[s] = <<o>> PROVE SubSeq(stack[s], 1, Len(stack[s]) - 1) = <<>>
  BY <1>2, PopShort
<1>3. ASSUME NEW o, stack[s] = <<EmptyOverlay, o>>
      PROVE  SubSeq(stack[s], 1, Len(stack[s]) - 1) = <<EmptyOverlay>>
  <2>1. Len(stack[s]) - 1 = 1
    BY <1>3
  <2> QED
    BY <1>3, <2>1, PopShort, ZenonT(20)
<1>4. \A o : <<o>> # <<>> /\ <<EmptyOverlay, o>> # <<>>
  OBVIOUS
<1>5. /\ DOMAIN stack' = Session /\ \A u \in Session \ {s} : stack'[u] = stack[u]
      /\ \/ stack'[s] = stack[s] /\ (explicit[s] \/ stack[s] = <<>>)
         \/ stack'[s] = SubSeq(stack[s], 1, Len(stack[s]) - 1)
         \/ stack'[s] = <<>>
  BY <1>1 DEF Shape
<1>6. stack[s] = <<>> => stack'[s] = stack[s] \/ explicit[s]
  BY ZenonT(20) DEF XactCommitIfImplicit, storageVars
<1> QED
  BY <1>1, <1>2, <1>3, <1>4, <1>5, <1>6, Zenon

\* An implicit rollback leaves no overlay.
LEMMA AbortIfImplicitStack ==
  ASSUME Shape, NEW s \in Session, XactAbortIfImplicit(s)
  PROVE  /\ DOMAIN stack' = Session /\ explicit' = explicit
         /\ \A u \in Session \ {s} : stack'[u] = stack[u]
         /\ ~explicit[s] => stack'[s] = <<>>
BY ZenonT(20) DEF Shape, XactAbortIfImplicit, RollbackAll, storageVars

\* The end of an explicit transaction leaves no overlay.
LEMMA XactEndStack ==
  ASSUME Shape, NEW s \in Session, XactCommit(s) \/ XactAbort(s) \/ DropSession(s)
  PROVE  /\ DOMAIN stack' = Session /\ explicit' \in [Session -> BOOLEAN]
         /\ \A u \in Session \ {s} : stack'[u] = stack[u] /\ explicit'[u] = explicit[u]
         /\ stack'[s] = <<>> /\ ~explicit'[s]
BY Zenon DEF Shape, XactCommit, XactAbort, CommitAll, RollbackAll, DropSession

-----------------------------------------------------------------------------
(* Statements *)

\* A row operation works on the top overlay of its own session and enters the lane.
LEMMA RowOperationInv ==
  ASSUME IdleInv, NEW s \in Session, CanRun(s), lane' = s, UNCHANGED <<pg, explicit, copy>>,
         copy[s] \in {"none", "data"},
         \/ stack' = stack /\ copy[s] = "none"
         \/ \E o : stack' = [stack EXCEPT ![s] = SetTop(EnsureTransaction(stack[s]), o)],
         NEW mode, LockTable(s, mode),
         row_lock' \in [Tid -> Session \cup {NoSession}],
         \A u \in Session \ {s} : \A t \in Tid : row_lock[t] # u => row_lock'[t] # u
  PROVE  IdleInv'
<1> DEFINE Top(o) == SetTop(EnsureTransaction(stack[s]), o)
<1>1. \/ stack' = stack /\ copy[s] = "none"
      \/ \E o : stack' = [stack EXCEPT ![s] = Top(o)]
  BY Zenon
<1>2. ASSUME NEW o
      PROVE  /\ stack[s] = <<>> => Top(o) = <<o>>
             /\ \A x : stack[s] = <<x>> => Top(o) = <<o>>
             /\ \A x, y : stack[s] = <<x, y>> => Top(o) = <<x, o>>
  <2>1. stack[s] = <<>> => Top(o) = <<o>>
    BY SetTopShort, Zenon
  <2>2. ASSUME NEW x, stack[s] = <<x>> PROVE Top(o) = <<o>>
    BY <2>2, SetTopShort, ZenonT(30)
  <2>3. ASSUME NEW x, NEW y, stack[s] = <<x, y>> PROVE Top(o) = <<x, o>>
    <3>1. SetTop(EnsureTransaction(<<x, y>>), o) = <<x, o>>
      BY SetTopShort, Zenon
    <3> QED
      BY <2>3, <3>1, ZenonT(20)
  <2> QED
    BY <2>1, <2>2, <2>3, ZenonT(20)
<1> HIDE DEF Top
<1>3. Shape' /\ OthersKeep(s)
  BY <1>1, LockTableOthers, ZenonT(20) DEF IdleInv, Shape, OthersKeep
<1>7. (stack'[s] = stack[s] /\ copy[s] = "none") \/ \E o : stack'[s] = Top(o)
  BY <1>1 DEF IdleInv, Shape
<1>4. ASSUME pg[s] = "Idle" PROVE Held(s)'
  <2>1. ImplicitStack(s)
    BY <1>4, ZenonT(20) DEF IdleInv, Held
  <2>2. CASE copy[s] = "none"
    <3>1. \E o : stack[s] \in {<<>>, <<o>>}
      BY <2>1, <2>2, ZenonT(20) DEF ImplicitStack
    <3>2. \E o : stack'[s] \in {<<>>, <<o>>}
      BY <1>2, <1>7, <3>1, ZenonT(20)
    <3> QED
      BY <2>2, <3>2, ZenonT(20) DEF Held, ImplicitStack
  <2>3. CASE copy[s] = "data"
    <3>1. \E o : stack[s] = <<EmptyOverlay, o>>
      BY <2>1, <2>3, ZenonT(20) DEF ImplicitStack
    <3>3. \E p : stack'[s] = Top(p)
      BY <1>7, <2>3
    <3>4. PICK p : stack'[s] = Top(p)
      BY <3>3, Zenon
    <3>5. PICK x : stack[s] = <<EmptyOverlay, x>>
      BY <3>1, Zenon
    <3>6. Top(p) = <<EmptyOverlay, p>>
      BY <1>2, <3>5
    <3>2. \E o : stack'[s] = <<EmptyOverlay, o>>
      BY <3>4, <3>6
    <3> QED
      BY <2>3, <3>2, ZenonT(20) DEF Held, ImplicitStack
  <2> QED
    BY <2>2, <2>3, ZenonT(20)
<1>5. explicit'[s] <=> pg'[s] # "Idle"
  BY ZenonT(20) DEF IdleInv, InStep
<1>6. \A u \in Session \ {s} : lane' = u <=> lane = u
  BY TableAmAssumption, ZenonT(20) DEF CanRun
<1> QED
  BY <1>3, <1>4, <1>5, <1>6, OneSessionMoves, ZenonT(20) DEF CanRun

\* INSERT, and the rows of a COPY
LEMMA TupleInsertInv ==
  ASSUME IdleInv, NEW s \in Session, NEW row, TupleInsert(s, row)
  PROVE  IdleInv'
<1>1. PICK o : stack' = [stack EXCEPT ![s] = SetTop(EnsureTransaction(stack[s]), o)]
  BY Zenon DEF TupleInsert, RelationInsert
<1>2. /\ CanRun(s) /\ lane' = s /\ pg' = pg /\ explicit' = explicit /\ LockTable(s, "write")
      /\ copy[s] \in {"none", "data"} /\ copy' = copy
      /\ row_lock' = row_lock /\ row_lock \in [Tid -> Session \cup {NoSession}]
  BY Zenon DEF TupleInsert, RelationInsert, InQuery, IdleInv, Shape
<1> QED
  BY <1>1, <1>2, RowOperationInv, Zenon

\* What DELETE, UPDATE and a miss have in common.
LEMMA LockForWriteInv ==
  ASSUME IdleInv, NEW s \in Session, NEW t, NEW via, LockForWrite(s, t, via),
         \/ stack' = stack
         \/ \E o : stack' = [stack EXCEPT ![s] = SetTop(EnsureTransaction(stack[s]), o)],
         UNCHANGED explicit
  PROVE  IdleInv'
BY AcquireTakesFree, RowOperationInv, ZenonT(20) DEF LockForWrite, InQuery, IdleInv

\* DELETE
LEMMA TupleDeleteInv ==
  ASSUME IdleInv, NEW s \in Session, NEW t, NEW via, TupleDelete(s, t, via)
  PROVE  IdleInv'
<1>1. PICK o : stack' = [stack EXCEPT ![s] = SetTop(EnsureTransaction(stack[s]), o)]
  BY Zenon DEF TupleDelete, RelationDelete
<1>2. LockForWrite(s, t, via) /\ explicit' = explicit
  BY DEF TupleDelete, RelationDelete
<1> QED
  BY <1>1, <1>2, LockForWriteInv, Zenon

\* UPDATE
LEMMA TupleUpdateInv ==
  ASSUME IdleInv, NEW s \in Session, NEW t, NEW via, NEW row, NEW hot,
         TupleUpdate(s, t, via, row, hot)
  PROVE  IdleInv'
<1>1. PICK o : stack' = [stack EXCEPT ![s] = SetTop(EnsureTransaction(stack[s]), o)]
  BY Zenon DEF TupleUpdate, RelationUpdate
<1>2. LockForWrite(s, t, via) /\ explicit' = explicit
  BY DEF TupleUpdate, RelationUpdate
<1> QED
  BY <1>1, <1>2, LockForWriteInv, Zenon

\* A DELETE or UPDATE that finds its row gone.
LEMMA TupleMissInv ==
  ASSUME IdleInv, NEW s \in Session, NEW t, NEW via, TupleMiss(s, t, via)
  PROVE  IdleInv'
<1>1. stack' = stack /\ explicit' = explicit
  BY DEF TupleMiss, RelationMiss
<1> QED
  BY <1>1, LockForWriteInv DEF TupleMiss

\* TRUNCATE
LEMMA SetNewFilelocatorInv ==
  ASSUME IdleInv, NEW s \in Session, SetNewFilelocator(s)
  PROVE  IdleInv'
<1>1. PICK o : stack' = [stack EXCEPT ![s] = SetTop(EnsureTransaction(stack[s]), o)]
  BY Zenon DEF SetNewFilelocator, RelationClear
<1>2. /\ CanRun(s) /\ lane' = s /\ pg' = pg /\ explicit' = explicit /\ LockTable(s, "excl")
      /\ copy[s] \in {"none", "data"} /\ copy' = copy
      /\ row_lock' = row_lock /\ row_lock \in [Tid -> Session \cup {NoSession}]
  BY ZenonT(20) DEF SetNewFilelocator, RelationClear, Ready, IdleInv, Shape
<1> QED
  BY <1>1, <1>2, RowOperationInv, Zenon


\* A session that has left the lane holds only overlays.
LEMMA HeldAfterEnd ==
  ASSUME NEW s \in Session, NoLocks(s)', lane' # s, ImplicitStack(s)'
  PROVE  Held(s)'
BY DEF Held

\* The end of a statement.
LEMMA FinishCommandInv ==
  ASSUME IdleInv, NEW s \in Session, FinishCommand(s)
  PROVE  IdleInv'
<1>1. /\ lane \in {NoSession, s} /\ lane' = NoSession /\ pg' = pg /\ Shape
      /\ explicit[s] <=> pg[s] # "Idle"
      /\ copy' = [copy EXCEPT ![s] = IF @ = "data" THEN "done" ELSE @]
      /\ copy[s] \in {"none", "data"}
  BY ZenonT(20) DEF FinishCommand, CanRun, IdleInv, InStep
<1>2. /\ \A u \in Session \ {s} : lane' = u <=> lane = u
      /\ lane' # s
  BY <1>1, TableAmAssumption, SMTT(20)
<1>3. CASE pg[s] = "Idle"
  <2>1. XactCommitIfImplicit(s) /\ ReleaseAll(s)
    BY <1>3 DEF FinishCommand
  <2>2. /\ DOMAIN stack' = Session /\ explicit' = explicit
        /\ \A u \in Session \ {s} : stack'[u] = stack[u]
        /\ stack[s] = <<>> => stack'[s] = <<>>
        /\ \A o : stack[s] = <<o>> => stack'[s] = <<>>
        /\ \A o : stack[s] = <<EmptyOverlay, o>> => stack'[s] \in {<<>>, <<EmptyOverlay>>}
    BY <1>1, <1>3, <2>1, CommitIfImplicitStack, ZenonT(20)
  <2>3. Shape' /\ OthersKeep(s) /\ NoLocks(s)'
    BY <1>1, <2>1, <2>2, ReleaseAllFrees, ZenonT(20) DEF Shape, OthersKeep, NoLocks
  <2>4. ImplicitStack(s)
    BY <1>3 DEF IdleInv, Held
  <2>5. ImplicitStack(s)'
    <3>1. CASE copy[s] = "none"
      <4>1. \E o : stack[s] \in {<<>>, <<o>>}
        BY <2>4, <3>1, ZenonT(20) DEF ImplicitStack
      <4>2. stack'[s] = <<>> /\ copy'[s] = "none"
        BY <1>1, <2>2, <3>1, <4>1, ZenonT(20) DEF Shape
      <4> QED
        BY <1>2, <4>2, ZenonT(20) DEF ImplicitStack
    <3>2. CASE copy[s] = "data"
      <4>1. \E o : stack[s] = <<EmptyOverlay, o>>
        BY <2>4, <3>2 DEF ImplicitStack
      <4>2. stack'[s] \in {<<>>, <<EmptyOverlay>>} /\ copy'[s] = "done"
        BY <1>1, <2>2, <3>2, <4>1, ZenonT(20) DEF Shape
      <4> QED
        BY <4>2, ZenonT(20) DEF ImplicitStack
    <3> QED
      BY <1>1, <3>1, <3>2
  <2>6. (explicit'[s] <=> pg'[s] # "Idle") /\ Held(s)'
    BY <1>1, <2>2, <2>3, <2>5, ZenonT(20) DEF Held, IdleInv, InStep
  <2> QED
    BY <1>2, <2>3, <2>6, OneSessionMoves, Zenon
<1>4. CASE pg[s] # "Idle"
  <2>1. UNCHANGED <<stack, explicit, row_lock, table_lock>>
    BY <1>4 DEF FinishCommand, storageVars
  <2>2. Shape' /\ OthersKeep(s)
    BY <1>1, <2>1, ZenonT(20) DEF Shape, OthersKeep
  <2> QED
    BY <1>1, <1>2, <1>4, <2>1, <2>2, OneSessionMoves, ZenonT(20)
<1> QED
  BY <1>3, <1>4

\* A statement fails: outside a block its transaction ends, in a block the block
\* or the savepoint fails and the session is not idle.
LEMMA AbortCommandInv ==
  ASSUME IdleInv, NEW s \in Session, AbortCommand(s)
  PROVE  IdleInv'
<1>1. /\ lane \in {NoSession, s} /\ lane' = NoSession /\ pg[s] \in {"Idle", "InBlock"}
      /\ Shape /\ (explicit[s] <=> pg[s] # "Idle")
      /\ copy' = [copy EXCEPT ![s] = IF @ = "data" THEN "failed" ELSE @]
      /\ copy[s] \in {"none", "data"}
  BY ZenonT(20) DEF AbortCommand, IdleInv, InStep
<1>2. /\ \A u \in Session \ {s} : lane' = u <=> lane = u
      /\ lane' # s
  BY <1>1, TableAmAssumption
<1>3. CASE pg[s] = "InBlock" /\ Level(s) > 1
  <2>1. /\ pg' = [pg EXCEPT ![s] = "SubAborted"] /\ explicit' = explicit
        /\ \E S : stack' = [stack EXCEPT ![s] = S]
        /\ \E l : table_lock' = [table_lock EXCEPT ![s] = l]
        /\ ReleaseRowLocks(s)
    BY <1>3, ZenonT(20) DEF AbortCommand, SubxactAbort
  <2>2. Shape' /\ OthersKeep(s) /\ pg'[s] = "SubAborted"
    BY <1>1, <2>1, TableAmAssumption, ZenonT(20) DEF Shape, OthersKeep, ReleaseRowLocks
  <2>3. explicit'[s]
    BY <1>1, <1>3, <2>1
  <2> QED
    BY <1>1, <1>2, <2>2, <2>3, OneSessionMoves, ZenonT(20)
<1>4. CASE ~(pg[s] = "InBlock" /\ Level(s) > 1)
  <2>1. /\ pg' = [pg EXCEPT ![s] = IF @ = "Idle" THEN "Idle" ELSE "Aborted"]
        /\ XactAbortIfImplicit(s) /\ ReleaseAll(s)
    BY <1>4, ZenonT(20) DEF AbortCommand
  <2>2. /\ DOMAIN stack' = Session /\ explicit' = explicit
        /\ \A u \in Session \ {s} : stack'[u] = stack[u]
        /\ pg[s] = "Idle" => stack'[s] = <<>>
    BY <1>1, <2>1, AbortIfImplicitStack, ZenonT(20)
  <2>3. pg'[s] = (IF pg[s] = "Idle" THEN "Idle" ELSE "Aborted")
    BY <1>1, <2>1, ZenonT(20) DEF Shape
  <2>4. Shape' /\ OthersKeep(s) /\ NoLocks(s)'
    BY <1>1, <2>1, <2>2, ReleaseAllFrees, ZenonT(20) DEF Shape, OthersKeep, NoLocks
  <2>5. copy'[s] \in {"none", "failed"}
    BY <1>1, ZenonT(20) DEF Shape
  <2>6. pg'[s] = "Idle" => ImplicitStack(s)'
    BY <1>2, <2>2, <2>3, <2>5, ZenonT(20) DEF ImplicitStack
  <2>7. pg'[s] = "Idle" => Held(s)'
    BY <1>2, <2>4, <2>6, HeldAfterEnd
  <2>8. explicit'[s] <=> pg'[s] # "Idle"
    BY <1>1, <2>2, <2>3, ZenonT(20)
  <2> QED
    BY <1>2, <2>4, <2>7, <2>8, OneSessionMoves, ZenonT(20)
<1> QED
  BY <1>3, <1>4

-----------------------------------------------------------------------------
(* Transaction statements *)

\* BEGIN
LEMMA BeginBlockInv ==
  ASSUME IdleInv, NEW s \in Session, BeginBlock(s)
  PROVE  IdleInv'
<1>1. /\ lane = NoSession /\ lane' = NoSession /\ Shape
      /\ pg' = [pg EXCEPT ![s] = "InBlock"] /\ explicit' = [explicit EXCEPT ![s] = TRUE]
      /\ \E S : stack' = [stack EXCEPT ![s] = S]
      /\ UNCHANGED <<row_lock, table_lock, copy>>
  BY Zenon DEF BeginBlock, Ready, XactBegin, IdleInv
<1>2. Shape' /\ OthersKeep(s) /\ pg'[s] = "InBlock" /\ explicit'[s]
  BY <1>1, ZenonT(20) DEF Shape, OthersKeep
<1> QED
  BY <1>1, <1>2, TableAmAssumption, OneSessionMoves

\* SAVEPOINT, RELEASE and ROLLBACK TO stay in the block.
LEMMA SavepointStmtInv ==
  ASSUME IdleInv, NEW s \in Session, NEW n,
         DefineSavepoint(s) \/ ReleaseSavepoint(s, n) \/ RollbackToSavepoint(s, n)
  PROVE  IdleInv'
<1>1. /\ lane = NoSession /\ lane' = NoSession /\ Shape /\ pg[s] # "Idle"
      /\ pg' = pg \/ pg' = [pg EXCEPT ![s] = "InBlock"]
      /\ explicit' = explicit /\ row_lock' = row_lock /\ copy' = copy
      /\ \E S : stack' = [stack EXCEPT ![s] = S]
      /\ table_lock' = table_lock \/ \E l : table_lock' = [table_lock EXCEPT ![s] = l]
  BY ZenonT(20) DEF DefineSavepoint, ReleaseSavepoint, RollbackToSavepoint, Ready, SubxactBegin,
         SubxactCommit, SubxactRestart, IdleInv, amVars
<1>2. Shape' /\ OthersKeep(s) /\ pg'[s] # "Idle"
  BY <1>1, ZenonT(20) DEF Shape, OthersKeep
<1>3. explicit'[s]
  BY <1>1, ZenonT(20) DEF IdleInv, InStep
<1>4. \A u \in Session : lane' # u /\ lane # u
  BY <1>1, TableAmAssumption
<1> QED
  BY <1>2, <1>3, <1>4, OneSessionMoves, Zenon

\* COMMIT and ROLLBACK, and the end of the session
LEMMA EndBlockInv ==
  ASSUME IdleInv, NEW s \in Session, CommitBlock(s) \/ RollbackBlock(s) \/ EndSession(s)
  PROVE  IdleInv'
<1>1. /\ lane = NoSession /\ lane' = NoSession /\ Shape
      /\ pg' = [pg EXCEPT ![s] = "Idle"]
      /\ XactCommit(s) \/ XactAbort(s) \/ DropSession(s)
      /\ ReleaseAll(s)
      /\ copy' = [copy EXCEPT ![s] = "none"] \/ (copy' = copy /\ copy[s] = "none")
  BY ZenonT(20) DEF CommitBlock, RollbackBlock, EndSession, Ready, IdleInv
<1>2. /\ DOMAIN stack' = Session /\ explicit' \in [Session -> BOOLEAN]
      /\ \A u \in Session \ {s} : stack'[u] = stack[u] /\ explicit'[u] = explicit[u]
      /\ stack'[s] = <<>> /\ ~explicit'[s]
  BY <1>1, XactEndStack, ZenonT(20)
<1>3. lane' # s
  BY <1>1, TableAmAssumption
<1>4. Shape' /\ OthersKeep(s) /\ NoLocks(s)' /\ pg'[s] = "Idle" /\ copy'[s] = "none"
  BY <1>1, <1>2, ReleaseAllFrees, ZenonT(30) DEF Shape, OthersKeep, NoLocks
<1>5. Held(s)'
  BY <1>2, <1>3, <1>4, ZenonT(20) DEF Held, ImplicitStack
<1>6. \A u \in Session : lane' # u /\ lane # u
  BY <1>1, TableAmAssumption
<1> QED
  BY <1>2, <1>4, <1>5, <1>6, OneSessionMoves, Zenon

-----------------------------------------------------------------------------
(* COPY *)

\* The overlay of a COPY outside a block goes on top of an empty one.
LEMMA BeginCopyInv ==
  ASSUME IdleInv, NEW s \in Session, BeginCopy(s)
  PROVE  IdleInv'
<1>1. /\ lane = NoSession /\ lane' = NoSession /\ pg' = pg /\ explicit' = explicit
      /\ copy[s] = "none" /\ copy' = [copy EXCEPT ![s] = "data"] /\ row_lock' = row_lock
      /\ stack' = [stack EXCEPT ![s] = Append(EnsureTransaction(@), EmptyOverlay)]
      /\ Shape /\ (explicit[s] <=> pg[s] # "Idle") /\ lane' # s
  BY TableAmAssumption, ZenonT(20) DEF BeginCopy, Ready, SubxactBegin, IdleInv, InStep
<1>2. /\ pg[s] = "Idle" => table_lock' = table_lock
      /\ DOMAIN table_lock' = Session
      /\ \A u \in Session \ {s} : table_lock'[u] = table_lock[u]
  BY <1>1, LockTableOthers, SMTT(20) DEF BeginCopy, Shape
<1>3. Shape' /\ OthersKeep(s)
  BY <1>1, <1>2, SMTT(20) DEF Shape, OthersKeep
<1>4. ASSUME pg[s] = "Idle" PROVE Held(s)'
  <2>1. stack[s] = <<>> /\ NoLocks(s)
    BY <1>1, <1>4, ZenonT(20) DEF IdleInv, Held, ImplicitStack
  <2>2. Append(EnsureTransaction(<<>>), EmptyOverlay) = <<EmptyOverlay, EmptyOverlay>>
    <3>1. EnsureTransaction(<<>>) = <<EmptyOverlay>>
      BY DEF EnsureTransaction
    <3> QED
      BY <3>1, AppendShort, Zenon
  <2>3. stack'[s] = <<EmptyOverlay, EmptyOverlay>>
    BY <1>1, <2>1, <2>2 DEF Shape
  <2>4. copy'[s] = "data" /\ NoLocks(s)'
    BY <1>1, <1>2, <1>4, <2>1, SMTT(20) DEF Shape, NoLocks
  <2> QED
    BY <1>1, <2>3, <2>4, ZenonT(20) DEF Held, ImplicitStack
<1> QED
  BY <1>1, <1>3, <1>4, OneSessionMoves, ZenonT(20)

\* A step at the end of a COPY outside the lane moves the overlays of s only.
LEMMA CopyStepInv ==
  ASSUME IdleInv, NEW s \in Session, NEW c,
         lane # s, lane' = lane, UNCHANGED <<pg, row_lock, table_lock>>,
         copy' = [copy EXCEPT ![s] = c],
         DOMAIN stack' = Session, \A u \in Session \ {s} : stack'[u] = stack[u],
         explicit' = explicit, pg[s] = "Idle" => ImplicitStack(s)'
  PROVE  IdleInv'
<1>1. Shape' /\ OthersKeep(s)
  BY ZenonT(20) DEF IdleInv, Shape, OthersKeep
<1>2. explicit'[s] <=> pg'[s] # "Idle"
  BY ZenonT(20) DEF IdleInv, InStep
<1>3. pg'[s] = "Idle" => Held(s)'
  BY ZenonT(20) DEF IdleInv, Held, NoLocks
<1> QED
  BY <1>1, <1>2, <1>3, OneSessionMoves, ZenonT(20)

\* CopyFail
LEMMA CopyFailInv ==
  ASSUME IdleInv, NEW s \in Session, CopyFail(s)
  PROVE  IdleInv'
<1>1. /\ copy[s] = "data" /\ lane # s /\ copy' = [copy EXCEPT ![s] = "failed"]
      /\ UNCHANGED <<pg, lane, row_lock, table_lock, stack, explicit>>
      /\ DOMAIN stack = Session /\ DOMAIN copy = Session
  BY ZenonT(20) DEF CopyFail, storageVars, IdleInv, Shape
<1>2. ASSUME pg[s] = "Idle" PROVE ImplicitStack(s)'
  <2>1. stack[s] = <<EmptyOverlay, EmptyOverlay>>
    BY <1>1, <1>2, ZenonT(20) DEF IdleInv, Held, ImplicitStack
  <2>2. copy'[s] = "failed" /\ stack'[s] = stack[s]
    BY <1>1
  <2> QED
    BY <2>1, <2>2, ZenonT(20) DEF ImplicitStack
<1> QED
  BY <1>1, <1>2, CopyStepInv, Zenon

\* finish_copy and abort_copy, first half: outside a block at most one overlay is
\* left, and it is empty.
LEMMA CloseCopyInv ==
  ASSUME IdleInv, NEW s \in Session, CloseCopy(s)
  PROVE  IdleInv'
<1>1. /\ copy[s] \in {"done", "failed"}
      /\ copy' = [copy EXCEPT ![s] = IF @ = "done" THEN "commit" ELSE "abort"]
      /\ UNCHANGED <<pg, lane, row_lock, table_lock>>
      /\ DOMAIN stack = Session /\ DOMAIN copy = Session
  BY ZenonT(20) DEF CloseCopy, IdleInv, Shape
<1>2. lane # s /\ copy'[s] \in {"commit", "abort"}
  BY <1>1, ZenonT(20) DEF IdleInv, InStep
<1>3. /\ explicit' = explicit
      /\ \/ stack' = stack /\ ~(copy[s] = "failed" /\ Depth(s) > 1)
         \/ Depth(s) > 1 /\ copy[s] = "done" /\ \E S : stack' = [stack EXCEPT ![s] = S]
         \/ copy[s] = "failed" /\ stack' = [stack EXCEPT ![s] = SubSeq(@, 1, Depth(s) - 1)]
  BY Zenon DEF CloseCopy, SubxactCommitTop, SubxactAbortTop, SubxactCommit, SubxactAbort, storageVars
<1>4. DOMAIN stack' = Session /\ \A u \in Session \ {s} : stack'[u] = stack[u]
  BY <1>1, <1>3
<1>5. ASSUME pg[s] = "Idle" PROVE ImplicitStack(s)'
  <2>1. ImplicitStack(s)
    BY <1>5 DEF IdleInv, Held
  <2>2. CASE copy[s] = "done"
    <3>1. stack[s] \in {<<>>, <<EmptyOverlay>>}
      BY <2>1, <2>2, ZenonT(20) DEF ImplicitStack
    <3>2. ~(Depth(s) > 1)
      <4>1. CASE stack[s] = <<>>
        BY <4>1 DEF Depth
      <4>2. CASE stack[s] = <<EmptyOverlay>>
        BY <4>2 DEF Depth
      <4> QED
        BY <3>1, <4>1, <4>2
    <3>3. stack'[s] = stack[s]
      BY <1>3, <2>2, <3>2
    <3> QED
      BY <1>2, <3>1, <3>3, SMTT(20) DEF ImplicitStack
  <2>3. CASE copy[s] = "failed"
    <3>1. stack[s] \in {<<>>, <<EmptyOverlay, EmptyOverlay>>}
      BY <2>1, <2>3, ZenonT(20) DEF ImplicitStack
    <3>2. CASE stack[s] = <<>>
      <4>1. Depth(s) - 1 < 1
        BY <3>2 DEF Depth
      <4>2. SubSeq(stack[s], 1, Depth(s) - 1) = <<>>
        BY <3>2, <4>1, CutNothing DEF Depth
      <4>3. stack'[s] = <<>>
        BY <1>1, <1>3, <2>3, <3>2, <4>2, ZenonT(30)
      <4> QED
        BY <1>2, <4>3, ZenonT(20) DEF ImplicitStack
    <3>3. CASE stack[s] = <<EmptyOverlay, EmptyOverlay>>
      <4>1. Depth(s) = 2
        BY <3>3 DEF Depth
      <4>2. stack'[s] = SubSeq(stack[s], 1, 1)
        BY <1>1, <1>3, <2>3, <4>1
      <4>3. stack'[s] = <<EmptyOverlay>>
        BY <3>3, <4>2, PopShort
      <4> QED
        BY <1>2, <4>3, ZenonT(20) DEF ImplicitStack
    <3> QED
      BY <3>1, <3>2, <3>3
  <2> QED
    BY <1>1, <2>2, <2>3, SMTT(20)
<1> QED
  BY <1>1, <1>2, <1>3, <1>4, <1>5, CopyStepInv, ZenonT(30)

\* finish_copy and abort_copy, second half: outside a block nothing is left.
LEMMA EndCopyInv ==
  ASSUME IdleInv, NEW s \in Session, EndCopy(s)
  PROVE  IdleInv'
<1>1. /\ copy[s] \in {"commit", "abort"} /\ copy' = [copy EXCEPT ![s] = "none"]
      /\ UNCHANGED <<pg, lane, row_lock, table_lock>>
      /\ Shape /\ (explicit[s] <=> pg[s] # "Idle")
  BY ZenonT(20) DEF EndCopy, IdleInv, InStep
<1>2. lane # s /\ copy'[s] = "none"
  BY <1>1, ZenonT(20) DEF IdleInv, InStep, Shape
<1>3. /\ explicit' = explicit /\ DOMAIN stack' = Session
      /\ \A u \in Session \ {s} : stack'[u] = stack[u]
      /\ pg[s] = "Idle" => (stack'[s] = <<>> \/ ~(stack[s] \in {<<>>, <<EmptyOverlay>>}))
  <2>1. CASE XactCommitIfImplicit(s)
    BY <1>1, <2>1, CommitIfImplicitStack, ZenonT(20)
  <2>2. CASE XactAbortIfImplicit(s)
    BY <1>1, <2>2, AbortIfImplicitStack, ZenonT(20)
  <2> QED
    BY <2>1, <2>2, ZenonT(20) DEF EndCopy
<1>4. ASSUME pg[s] = "Idle" PROVE ImplicitStack(s)'
  <2>1. stack[s] \in {<<>>, <<EmptyOverlay>>}
    BY <1>1, <1>4, ZenonT(20) DEF IdleInv, Held, ImplicitStack
  <2> QED
    BY <1>1, <1>2, <1>3, <1>4, <2>1, ZenonT(20) DEF ImplicitStack
<1> QED
  BY <1>1, <1>2, <1>3, <1>4, CopyStepInv, ZenonT(30)

-----------------------------------------------------------------------------
(* What is idle is clean *)

\* Nobody has anything in the beginning.
LEMMA InitIdleInv == TableAmInit => IdleInv
BY TableAmAssumption DEF TableAmInit, StorageInit, IdleInv, Shape, InStep, Held, NoLocks,
   ImplicitStack

\* Every step preserves the invariant.
LEMMA NextIdleInv == IdleInv /\ [TableAmNext]_<<storageVars, amVars>> => IdleInv'
<1> SUFFICES ASSUME IdleInv, [TableAmNext]_<<storageVars, amVars>> PROVE IdleInv'
  BY SMTT(20)
<1>1. CASE UNCHANGED <<storageVars, amVars>>
  <2>1. /\ stack' = stack /\ explicit' = explicit /\ pg' = pg /\ lane' = lane /\ copy' = copy
        /\ table_lock' = table_lock /\ row_lock' = row_lock
    BY <1>1 DEF storageVars, amVars
  <2>2. Shape' /\ InStep'
    BY <2>1, Zenon DEF IdleInv, Shape, InStep
  <2>3. \A s \in Session : Held(s)' <=> Held(s)
    BY <2>1, Zenon DEF Held, NoLocks, ImplicitStack
  <2> QED
    BY <2>1, <2>2, <2>3, Zenon DEF IdleInv
<1>2. CASE TableAmNext
  BY <1>2, BeginBlockInv, TupleInsertInv, TupleDeleteInv, TupleMissInv, TupleUpdateInv,
     SetNewFilelocatorInv, FinishCommandInv, AbortCommandInv, SavepointStmtInv, EndBlockInv,
     BeginCopyInv, CopyFailInv, CloseCopyInv, EndCopyInv, ZenonT(20)
     DEF TableAmNext
<1> QED
  BY <1>1, <1>2

\* A session outside a block and between two statements holds no overlay, no
\* table lock and no row mutex, whichever way its last statement, COPY or block
\* ended: xact_commit, xact_abort, finish_copy, abort_copy and
\* fastpg_mem_release_row_locks miss nothing.
THEOREM IdleIsClean == TableAmSpec => []IdleLeavesNothing
<1>1. IdleInv => IdleLeavesNothing
  BY ZenonT(20) DEF IdleInv, IdleLeavesNothing, InStep, Held, NoLocks, ImplicitStack
<1> QED
  BY <1>1, InitIdleInv, NextIdleInv, PTL DEF TableAmSpec

\* Outside a block nothing is recorded below the top overlay, so that the commit
\* that looks at the top only (commit_empty_implicit_transaction) loses nothing.
THEOREM ImplicitCommitLosesNothing == TableAmSpec => []ImplicitBelowTopEmpty
<1>1. IdleInv => ImplicitBelowTopEmpty
  <2> SUFFICES ASSUME IdleInv, NEW s \in Session, ~explicit[s], NEW i \in 1..(Depth(s) - 1)
               PROVE  stack[s][i] = EmptyOverlay
    BY DEF ImplicitBelowTopEmpty
  <2>1. ImplicitStack(s)
    BY DEF IdleInv, InStep, Held
  <2>2. \/ stack[s] = <<>> \/ \E o : stack[s] = <<o>>
        \/ \E o : stack[s] = <<EmptyOverlay, o>>
    BY <2>1, ZenonT(20) DEF ImplicitStack
  <2>3. CASE stack[s] = <<>>
    BY <2>3 DEF Depth
  <2>4. ASSUME NEW o, stack[s] = <<o>> PROVE stack[s][i] = EmptyOverlay
    BY <2>4 DEF Depth
  <2>5. ASSUME NEW o, stack[s] = <<EmptyOverlay, o>> PROVE stack[s][i] = EmptyOverlay
    <3>1. i = 1
      BY <2>5 DEF Depth
    <3> QED
      BY <2>5, <3>1
  <2> QED
    BY <2>2, <2>3, <2>4, <2>5
<1> QED
  BY <1>1, InitIdleInv, NextIdleInv, PTL DEF TableAmSpec

-----------------------------------------------------------------------------
(* TRUNCATE is alone *)

ExclusionInv == DOMAIN table_lock = Session /\ TableLockExclusion

\* A step of s that gives up locks, or passes them on, lets nobody in.
LEMMA FewerLocks ==
  ASSUME ExclusionInv, NEW s \in Session, NEW l, table_lock' = [table_lock EXCEPT ![s] = l],
         l.excl # 0 => table_lock[s].excl # 0,
         table_lock[s].write = 0 => l.write = 0
  PROVE  ExclusionInv'
<1>1. /\ DOMAIN table_lock' = Session /\ table_lock'[s] = l
      /\ \A u \in Session \ {s} : table_lock'[u] = table_lock[u]
  BY DEF ExclusionInv
<1>2. ASSUME NEW u \in Session, NEW v \in Session, u # v, table_lock'[u].excl # 0
      PROVE  table_lock'[v].write = 0 /\ table_lock'[v].excl = 0
  BY <1>1, <1>2 DEF ExclusionInv, TableLockExclusion
<1> QED
  BY <1>1, <1>2 DEF ExclusionInv, TableLockExclusion

\* A lock is taken only beside locks it goes together with.
LEMMA MoreLocks ==
  ASSUME ExclusionInv, NEW s \in Session,
         \/ CanLockTable(s, FALSE) /\ LockTable(s, "write")
         \/ CanLockTable(s, TRUE) /\ LockTable(s, "excl")
  PROVE  ExclusionInv'
<1>1. CASE CanLockTable(s, FALSE) /\ LockTable(s, "write")
  <2>1. /\ DOMAIN table_lock' = Session
        /\ \A u \in Session \ {s} : table_lock'[u] = table_lock[u] /\ table_lock[u].excl = 0
        /\ table_lock'[s].excl = table_lock[s].excl
    BY <1>1 DEF CanLockTable, LockTable, ExclusionInv
  <2> QED
    BY <2>1 DEF ExclusionInv, TableLockExclusion
<1>2. CASE CanLockTable(s, TRUE) /\ LockTable(s, "excl")
  <2>1. /\ DOMAIN table_lock' = Session
        /\ \A u \in Session \ {s} : /\ table_lock'[u] = table_lock[u]
                                    /\ table_lock[u].excl = 0 /\ table_lock[u].write = 0
    BY <1>2, ZenonT(20) DEF CanLockTable, LockTable, ExclusionInv
  <2> QED
    BY <2>1 DEF ExclusionInv, TableLockExclusion
<1> QED
  BY <1>1, <1>2, Zenon

\* The end of a transaction gives up everything.
LEMMA ReleaseAllExclusion ==
  ASSUME ExclusionInv, NEW s \in Session, ReleaseAll(s)
  PROVE  ExclusionInv'
BY FewerLocks, Zenon DEF ReleaseAll, NoTableLock

\* Nobody has a lock in the beginning.
LEMMA InitExclusion == TableAmInit => ExclusionInv
BY DEF TableAmInit, ExclusionInv, TableLockExclusion, NoTableLock

\* Every step keeps TRUNCATE alone.
LEMMA NextExclusion == ExclusionInv /\ [TableAmNext]_<<storageVars, amVars>> => ExclusionInv'
<1> SUFFICES ASSUME ExclusionInv, [TableAmNext]_<<storageVars, amVars>> PROVE ExclusionInv'
  OBVIOUS
<1>1. ASSUME UNCHANGED table_lock PROVE ExclusionInv'
  BY <1>1 DEF ExclusionInv, TableLockExclusion
<1>2. ASSUME NEW s \in Session, \E row \in Row : TupleInsert(s, row) PROVE ExclusionInv'
  BY <1>2, MoreLocks, Zenon DEF TupleInsert
<1>3. ASSUME NEW s \in Session, NEW t, NEW via, LockForWrite(s, t, via) PROVE ExclusionInv'
  BY <1>3, MoreLocks, Zenon DEF LockForWrite
<1>4. ASSUME NEW s \in Session, SetNewFilelocator(s) PROVE ExclusionInv'
  BY <1>4, MoreLocks, Zenon DEF SetNewFilelocator
<1>5. ASSUME NEW s \in Session, FinishCommand(s) PROVE ExclusionInv'
  BY <1>1, <1>5, ReleaseAllExclusion, SMTT(20) DEF FinishCommand
<1>6. ASSUME NEW s \in Session, AbortCommand(s) PROVE ExclusionInv'
  <2>1. CASE table_lock' = [table_lock EXCEPT ![s] = DropLevel(s, Level(s))]
    BY <2>1, FewerLocks, Zenon DEF DropLevel
  <2> QED
    BY <1>6, <2>1, ReleaseAllExclusion, ZenonT(20) DEF AbortCommand
<1>7. ASSUME NEW s \in Session, NEW n \in 2..MaxDepth, ReleaseSavepoint(s, n) PROVE ExclusionInv'
  <2>1. PassLevel(s, n).excl # 0 => table_lock[s].excl # 0
    BY DEF PassLevel
  <2>2. table_lock[s].write = 0 => PassLevel(s, n).write = 0
    BY DEF PassLevel
  <2> QED
    BY <1>7, <2>1, <2>2, FewerLocks, Zenon DEF ReleaseSavepoint
<1>8. ASSUME NEW s \in Session, NEW n, RollbackToSavepoint(s, n) PROVE ExclusionInv'
  <2>1. DropLevel(s, n).excl # 0 => table_lock[s].excl # 0
    BY DEF DropLevel
  <2>2. table_lock[s].write = 0 => DropLevel(s, n).write = 0
    BY ZenonT(20) DEF DropLevel
  <2> QED
    BY <1>8, <2>1, <2>2, FewerLocks, Zenon DEF RollbackToSavepoint
<1>9. ASSUME NEW s \in Session, CommitBlock(s) \/ RollbackBlock(s) \/ EndSession(s)
      PROVE  ExclusionInv'
  BY <1>9, ReleaseAllExclusion, ZenonT(20) DEF CommitBlock, RollbackBlock, EndSession
<1>10. ASSUME NEW s \in Session, BeginBlock(s) \/ DefineSavepoint(s) PROVE ExclusionInv'
  BY <1>1, <1>10 DEF BeginBlock, DefineSavepoint, amVars
<1>11. ASSUME NEW s \in Session, BeginCopy(s) PROVE ExclusionInv'
  BY <1>1, <1>11, MoreLocks, Zenon DEF BeginCopy
<1>12. ASSUME NEW s \in Session, CopyFail(s) \/ CloseCopy(s) \/ EndCopy(s) PROVE ExclusionInv'
  BY <1>1, <1>12, ZenonT(20) DEF CopyFail, CloseCopy, EndCopy
<1>13. CASE TableAmNext
  <2>1. ASSUME NEW s \in Session, NEW t \in Tid, NEW via \in Via,
               \/ TupleDelete(s, t, via) \/ TupleMiss(s, t, via)
               \/ \E row \in Row, hot \in BOOLEAN : TupleUpdate(s, t, via, row, hot)
        PROVE  LockForWrite(s, t, via)
    BY <2>1 DEF TupleDelete, TupleMiss, TupleUpdate
  <2> QED
    BY <1>2, <1>3, <1>4, <1>5, <1>6, <1>7, <1>8, <1>9, <1>10, <1>11, <1>12, <1>13,
       <2>1, SMTT(20) DEF TableAmNext
<1>14. CASE UNCHANGED <<storageVars, amVars>>
  BY <1>1, <1>14 DEF amVars
<1> QED
  BY <1>13, <1>14

\* TRUNCATE's lock on the table and the locks of writers exclude each other at
\* every moment, through savepoints that are released, rolled back or failed.
THEOREM TruncateIsAlone == TableAmSpec => []TableLockExclusion
<1>1. ExclusionInv => TableLockExclusion
  BY DEF ExclusionInv
<1> QED
  BY <1>1, InitExclusion, NextExclusion, PTL DEF TableAmSpec

=============================================================================
