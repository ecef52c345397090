---------------------------- MODULE TableAmTxn_types ----------------------------
(***************************************************************************)
(* The state of the table access method, of the storage engine below it    *)
(* and of the contract beside it keeps its type, for every set of          *)
(* statements, TRUNCATE included: pages stay dense, stacks of overlays     *)
(* are no deeper than PostgreSQL's nesting and the frames of the contract  *)
(* stay level with them.                                                   *)
(***************************************************************************)
EXTENDS TableAmInvariants, TableAm_proofs

-----------------------------------------------------------------------------
(* The code *)

\* A step beside the contract is a step of the code.
LEMMA NextIsTableAmNext == [Next]_allVars => [TableAmNext]_<<storageVars, amVars>>
<1> SUFFICES ASSUME [Next]_allVars PROVE [TableAmNext]_<<storageVars, amVars>>
  OBVIOUS
<1>1. CASE UNCHANGED allVars
  BY <1>1 DEF allVars
<1>2. ASSUME NEW s \in Session, Begin(s) \/ Insert(s) \/ Truncate(s) \/ Finish(s) \/ Fail(s)
                                 \/ Commit(s) \/ Rollback(s) \/ Disconnect(s)
      PROVE  TableAmNext
  BY <1>2, Zenon DEF Begin, Insert, Truncate, Finish, Fail, Commit, Rollback, Disconnect, TableAmNext
<1>3. ASSUME NEW s \in Session, SavepointStmt(s) \/ Copy(s) PROVE TableAmNext
  BY <1>3 DEF SavepointStmt, Copy, TableAmNext
<1>4. ASSUME NEW s \in Session, Delete(s) \/ Update(s) PROVE TableAmNext
  <2>1. AccessPath \subseteq Via
    BY DEF AccessPath, Via
  <2>2. \E t \in Tid, via \in Via :
          \/ TupleDelete(s, t, via) \/ TupleMiss(s, t, via)
          \/ \E row \in Row, hot \in BOOLEAN : TupleUpdate(s, t, via, row, hot)
    BY <1>4, <2>1, Zenon DEF Delete, Update
  <2> QED
    BY <2>2 DEF TableAmNext
<1> QED
  BY <1>1, <1>2, <1>3, <1>4, Zenon DEF Next

-----------------------------------------------------------------------------
(* The contract *)

\* A statement writes to the last frame, or opens the first.
LEMMA WriteFacts ==
  ASSUME txn \in [Session -> Seq(Store!Frame)], NEW s \in Session,
         NEW I \in SUBSET Row, NEW D \in SUBSET Row, txn' = Store!Write(s, I, D)
  PROVE  /\ txn' \in [Session -> Seq(Store!Frame)]
         /\ \A u \in Session \ {s} : txn'[u] = txn[u]
         /\ Len(txn'[s]) = (IF Len(txn[s]) = 0 THEN 1 ELSE Len(txn[s]))
         /\ txn'[s][Len(txn'[s])] = [ins |-> Store!Inserted(s) \cup I, del |-> Store!Removed(s) \cup D]
         /\ \A i \in 1..(Len(txn'[s]) - 1) : txn'[s][i] = txn[s][i]
<1> DEFINE F == [ins |-> Store!Inserted(s) \cup I, del |-> Store!Removed(s) \cup D]
           T == IF Len(txn[s]) = 0 THEN <<F>> ELSE [txn[s] EXCEPT ![Len(txn[s])] = F]
<1>1. txn[s] \in Seq(Store!Frame) /\ Len(txn[s]) \in Nat /\ (txn[s] = <<>> <=> Len(txn[s]) = 0)
  OBVIOUS
<1>2. Store!Inserted(s) \in SUBSET Row /\ Store!Removed(s) \in SUBSET Row
  <2>1. CASE txn[s] = <<>>
    BY <2>1 DEF Store!Inserted, Store!Removed, Store!Open
  <2>2. CASE txn[s] # <<>>
    <3>1. txn[s][Len(txn[s])] \in Store!Frame
      BY <1>1, <2>2
    <3> QED
      BY <2>2, <3>1 DEF Store!Inserted, Store!Removed, Store!Open, Store!Depth, Store!Frame
  <2> QED
    BY <2>1, <2>2
<1>3. F \in Store!Frame
  BY <1>2 DEF Store!Frame
<1>4. txn' = [txn EXCEPT ![s] = T]
  <2>1. CASE txn[s] = <<>>
    BY <1>1, <2>1 DEF Store!Write, Store!Open, Store!Inserted, Store!Removed
  <2>2. CASE txn[s] # <<>>
    BY <1>1, <2>2 DEF Store!Write, Store!Open, Store!Inserted, Store!Removed, Store!Depth
  <2> QED
    BY <2>1, <2>2
<1> HIDE DEF F
<1>5. /\ T \in Seq(Store!Frame) /\ Len(T) = (IF Len(txn[s]) = 0 THEN 1 ELSE Len(txn[s]))
      /\ T[Len(T)] = F /\ \A i \in 1..(Len(T) - 1) : T[i] = txn[s][i]
  <2>1. CASE Len(txn[s]) = 0
    <3>1. T = <<F>>
      BY <2>1
    <3>2. <<F>> \in Seq(Store!Frame) /\ Len(<<F>>) = 1 /\ <<F>>[1] = F
      BY <1>3
    <3>3. 1..(1 - 1) = {}
      OBVIOUS
    <3> HIDE DEF T
    <3> QED
      BY <2>1, <3>1, <3>2, <3>3
  <2>2. CASE Len(txn[s]) # 0
    <3>1. T = [txn[s] EXCEPT ![Len(txn[s])] = F]
      BY <2>2
    <3>2. Len(txn[s]) \in 1..Len(txn[s])
      BY <1>1, <2>2
    <3>3. \A i \in 1..(Len(txn[s]) - 1) : i \in 1..Len(txn[s]) /\ i # Len(txn[s])
      BY <1>1
    <3> HIDE DEF T
    <3>4. /\ T \in Seq(Store!Frame) /\ Len(T) = Len(txn[s])
          /\ \A j \in 1..Len(txn[s]) : T[j] = IF j = Len(txn[s]) THEN F ELSE txn[s][j]
      BY <1>1, <1>3, <3>1, <3>2, ReplaceOne
    <3> QED
      BY <2>2, <3>2, <3>3, <3>4, ZenonT(20)
  <2> QED
    BY <2>1, <2>2
<1> HIDE DEF T
<1>6. /\ txn' \in [Session -> Seq(Store!Frame)] /\ txn'[s] = T
      /\ \A u \in Session \ {s} : txn'[u] = txn[u]
  BY <1>4, <1>5
<1> QED
  BY <1>5, <1>6, Zenon DEF F

\* Only the session that moves has to be looked at.
LEMMA FramesOneMoves ==
  ASSUME StoreSound, NEW s \in Session, Store!TypeOK', OnlyMoves(s), Frames(s)'
  PROVE  StoreSound'
<1>1. ASSUME NEW u \in Session PROVE Frames(u)'
  <2>1. CASE u = s
    BY <2>1
  <2>2. CASE u # s
    <3>1. Frames(u) /\ stack'[u] = stack[u] /\ copy'[u] = copy[u] /\ pg'[u] = pg[u]
          /\ (lane' = u <=> lane = u) /\ txn'[u] = txn[u]
      BY <2>2, Zenon DEF StoreSound, OnlyMoves
    <3> QED
      BY <3>1, Zenon DEF Frames, Extra, Depth
  <2> QED
    BY <2>1, <2>2
<1> QED
  BY <1>1 DEF StoreSound

\* What a session should see are rows.
LEMMA ViewType ==
  ASSUME Store!TypeOK, NEW s \in Session
  PROVE  Store!View(s) \in SUBSET Row
<1>1. CASE Len(txn[s]) = 0
  BY <1>1 DEF Store!TypeOK, Store!View, Store!ViewAt, Store!Depth
<1>2. CASE Len(txn[s]) # 0
  <2>1. txn[s] \in Seq(Store!Frame) /\ Len(txn[s]) \in 1..Len(txn[s])
    BY <1>2 DEF Store!TypeOK
  <2>2. txn[s][Len(txn[s])] \in Store!Frame
    BY <2>1
  <2> QED
    BY <1>2, <2>2 DEF Store!TypeOK, Store!View, Store!ViewAt, Store!Depth, Store!Frame
<1> QED
  BY <1>1, <1>2

\* A row operation and its effect on the contract.
LEMMA RowOperationFrames ==
  ASSUME TypeInv, NEW s \in Session, CanRun(s), lane' = s, UNCHANGED <<pg, copy, cid, committed>>,
         OnlyStackOf(s), Depth(s)' = (IF Depth(s) = 0 THEN 1 ELSE Depth(s)),
         NEW I \in SUBSET Row, NEW D \in SUBSET Row, txn' = Store!Write(s, I, D),
         used' \in SUBSET Row, origin' \in [Row -> Row]
  PROVE  StoreSound' /\ OnlyMoves(s)
<1>1. /\ txn' \in [Session -> Seq(Store!Frame)] /\ \A u \in Session \ {s} : txn'[u] = txn[u]
      /\ Len(txn'[s]) = (IF Len(txn[s]) = 0 THEN 1 ELSE Len(txn[s]))
  BY WriteFacts, Zenon DEF TypeInv, StoreSound, Store!TypeOK
<1>2. Store!TypeOK'
  BY <1>1, SMTT(20) DEF TypeInv, StoreSound, Store!TypeOK
<1>3. OnlyMoves(s)
  BY <1>1, TableAmAssumption, ZenonT(30) DEF OnlyMoves, OnlyStackOf, CanRun
<1>4. txn[s] \in Seq(Store!Frame) /\ txn'[s] \in Seq(Store!Frame)
  BY <1>1, SMTT(20) DEF TypeInv, StoreSound, Store!TypeOK
<1>5. /\ Len(txn[s]) \in Nat /\ (txn[s] = <<>> <=> Len(txn[s]) = 0)
      /\ (txn'[s] = <<>> <=> Len(txn'[s]) = 0)
  BY <1>4, SMTT(20)
<1>6. /\ Depth(s) \in Nat /\ Extra(s)' = Extra(s) /\ Extra(s) \in Nat
      /\ pg[s] \in {"Idle", "InBlock"} /\ Frames(s) /\ pg'[s] = pg[s]
  BY SMTT(20) DEF TypeInv, AmSound, StorageSound, StoreSound, Depth, Extra, CanRun
<1>7. Frames(s)'
  BY <1>1, <1>5, <1>6, SMTT(30) DEF Frames
<1> QED
  BY <1>2, <1>3, <1>7, FramesOneMoves, SMTT(20) DEF TypeInv

\* A delete or update that finds a tuple finds a row.
LEMMA FoundRow ==
  ASSUME DepthLaws, NEW s \in Session, NEW t \in Tid, Found(s, t)
  PROVE  RowAt(Target(s, t)) \in Row
<1>1. rel.line[Target(s, t)].row \in Row
  BY DepthFacts, Zenon DEF SearchTypes
<1> QED
  BY <1>1 DEF RowAt

\* The contract moves with the access method: INSERT.
LEMMA InsertFrames ==
  ASSUME TypeInv, DepthLaws, NEW s \in Session, Insert(s)
  PROVE  StoreSound' /\ OnlyMoves(s)
<1>1. PICK n \in Row \ used : TupleInsert(s, n) /\ Store!DoInsert(s, n)
  BY DEF Insert
<1>2. OnlyStackOf(s) /\ Depth(s)' = (IF Depth(s) = 0 THEN 1 ELSE Depth(s))
  BY <1>1, TupleInsertSound, SMTT(20) DEF TypeInv
<1>3. CanRun(s) /\ lane' = s /\ UNCHANGED <<pg, copy, cid>>
  BY <1>1 DEF TupleInsert, InQuery
<1>4. /\ txn' = Store!Write(s, {n}, {}) /\ committed' = committed
      /\ used' \in SUBSET Row /\ origin' \in [Row -> Row]
  BY <1>1 DEF Store!DoInsert, TypeInv, StoreSound, Store!TypeOK
<1>5. {n} \in SUBSET Row /\ {} \in SUBSET Row
  OBVIOUS
<1> QED
  BY <1>2, <1>3, <1>4, <1>5, RowOperationFrames

\* A delete or update that finds nothing.
LEMMA MissFrames ==
  ASSUME TypeInv, DepthLaws, NEW s \in Session, NEW t \in Tid, NEW via, TupleMiss(s, t, via), UNCHANGED storeVars
  PROVE  StoreSound' /\ OnlyMoves(s)
<1>1. OnlyStackOf(s) /\ Depth(s)' = Depth(s)
  BY TupleMissSound DEF TypeInv
<1>2. CanRun(s) /\ lane' = s /\ UNCHANGED <<pg, copy, cid>>
  BY DEF TupleMiss, LockForWrite, InQuery
<1>3. Store!TypeOK' /\ txn' = txn
  BY ZenonT(30) DEF TypeInv, StoreSound, Store!TypeOK, Store!Frame, storeVars
<1>4. OnlyMoves(s)
  BY <1>1, <1>2, <1>3, TableAmAssumption, Zenon DEF OnlyMoves, OnlyStackOf, CanRun
<1>5. Frames(s)'
  BY <1>1, <1>2, <1>3 DEF Frames, Extra, CanRun, TypeInv, StoreSound
<1> QED
  BY <1>3, <1>4, <1>5, FramesOneMoves DEF TypeInv

\* DELETE
LEMMA DeleteFrames ==
  ASSUME TypeInv, DepthLaws, NEW s \in Session, Delete(s)
  PROVE  StoreSound' /\ OnlyMoves(s)
<1>1. PICK t \in Tid, via \in AccessPath :
        \/ TupleDelete(s, t, via) /\ Store!DoDelete(s, RowAt(Target(s, t)))
        \/ TupleMiss(s, t, via) /\ UNCHANGED storeVars
  BY DEF Delete
<1>2. CASE TupleDelete(s, t, via) /\ Store!DoDelete(s, RowAt(Target(s, t)))
  <2>1. OnlyStackOf(s) /\ Depth(s)' = (IF Depth(s) = 0 THEN 1 ELSE Depth(s))
    BY <1>2, TupleDeleteSound, SMTT(20) DEF TypeInv
  <2>2. CanRun(s) /\ lane' = s /\ UNCHANGED <<pg, copy, cid>> /\ Found(s, t)
    BY <1>2, Zenon DEF TupleDelete, LockForWrite, InQuery, RelationDelete
  <2>3. RowAt(Target(s, t)) \in Row
    BY <2>2, FoundRow
  <2>4. /\ txn' = Store!Write(s, {}, {RowAt(Target(s, t))}) /\ committed' = committed
        /\ used' \in SUBSET Row /\ origin' \in [Row -> Row]
    BY <1>2 DEF Store!DoDelete, TypeInv, StoreSound, Store!TypeOK
  <2>5. {RowAt(Target(s, t))} \in SUBSET Row /\ {} \in SUBSET Row
    BY <2>3
  <2> QED
    BY <2>1, <2>2, <2>4, <2>5, RowOperationFrames
<1> QED
  BY <1>1, <1>2, MissFrames

\* UPDATE
LEMMA UpdateFrames ==
  ASSUME TypeInv, DepthLaws, NEW s \in Session, Update(s)
  PROVE  StoreSound' /\ OnlyMoves(s)
<1>1. PICK t \in Tid, via \in AccessPath :
        \/ \E n \in Row \ used, hot \in {FALSE} \cup {o = "hot" : o \in Ops} :
             TupleUpdate(s, t, via, n, hot) /\ Store!DoUpdate(s, RowAt(Target(s, t)), n)
        \/ TupleMiss(s, t, via) /\ UNCHANGED storeVars
  BY ZenonT(30) DEF Update
<1>2. ASSUME NEW n \in Row \ used, NEW hot,
             TupleUpdate(s, t, via, n, hot), Store!DoUpdate(s, RowAt(Target(s, t)), n)
      PROVE  StoreSound' /\ OnlyMoves(s)
  <2>1. OnlyStackOf(s) /\ Depth(s)' = (IF Depth(s) = 0 THEN 1 ELSE Depth(s))
    BY <1>2, TupleUpdateSound, SMTT(20) DEF TypeInv
  <2>2. CanRun(s) /\ lane' = s /\ UNCHANGED <<pg, copy, cid>> /\ Found(s, t)
    BY <1>2, Zenon DEF TupleUpdate, LockForWrite, InQuery, RelationUpdate
  <2>3. RowAt(Target(s, t)) \in Row
    BY <2>2, FoundRow
  <2>4. /\ txn' = Store!Write(s, {n}, {RowAt(Target(s, t))}) /\ committed' = committed
        /\ used' \in SUBSET Row /\ origin' \in [Row -> Row]
    BY <1>2, <2>3 DEF Store!DoUpdate, TypeInv, StoreSound, Store!TypeOK
  <2>5. {RowAt(Target(s, t))} \in SUBSET Row /\ {n} \in SUBSET Row
    BY <2>3
  <2> QED
    BY <2>1, <2>2, <2>4, <2>5, RowOperationFrames
<1> QED
  BY <1>1, <1>2, MissFrames, Zenon

\* TRUNCATE
LEMMA TruncateFrames ==
  ASSUME TypeInv, DepthLaws, NEW s \in Session, Truncate(s)
  PROVE  StoreSound' /\ OnlyMoves(s)
<1>1. SetNewFilelocator(s) /\ Store!DoClear(s)
  BY DEF Truncate
<1>2. OnlyStackOf(s) /\ Depth(s)' = (IF Depth(s) = 0 THEN 1 ELSE Depth(s))
  BY <1>1, SetNewFilelocatorSound DEF TypeInv
<1>3. CanRun(s) /\ lane' = s /\ UNCHANGED <<pg, copy, cid>>
  BY <1>1 DEF SetNewFilelocator
<1>4. /\ txn' = Store!Write(s, {}, Store!View(s)) /\ committed' = committed
      /\ used' \in SUBSET Row /\ origin' \in [Row -> Row]
  BY <1>1 DEF Store!DoClear, TypeInv, StoreSound, Store!TypeOK
<1>5. Store!View(s) \in SUBSET Row /\ {} \in SUBSET Row
  BY ViewType DEF TypeInv, StoreSound
<1> QED
  BY <1>2, <1>3, <1>4, <1>5, RowOperationFrames

\* The frames of s are dropped.
LEMMA NoFrames ==
  ASSUME Store!TypeOK, NEW s \in Session, committed' \in SUBSET Row,
         txn' = [txn EXCEPT ![s] = <<>>] \/ (txn' = txn /\ txn[s] = <<>>),
         UNCHANGED <<used, origin>>
  PROVE  Store!TypeOK' /\ txn'[s] = <<>> /\ \A u \in Session \ {s} : txn'[u] = txn[u]
<1>1. <<>> \in Seq(Store!Frame)
  OBVIOUS
<1> QED
  BY <1>1, Zenon DEF Store!TypeOK

\* A statement outside a block, or a block, ends and takes its transaction along.
LEMMA EndFrames ==
  ASSUME TypeInv, NEW s \in Session,
         Store!DoCommit(s) \/ Store!DoAbort(s) \/ (UNCHANGED storeVars /\ ~Store!Open(s))
  PROVE  Store!TypeOK' /\ txn'[s] = <<>> /\ \A u \in Session \ {s} : txn'[u] = txn[u]
<1>1. Store!TypeOK
  BY DEF TypeInv, StoreSound
<1>2. Store!View(s) \in SUBSET Row
  BY <1>1, ViewType
<1>3. /\ committed' \in SUBSET Row /\ UNCHANGED <<used, origin>>
      /\ txn' = [txn EXCEPT ![s] = <<>>] \/ (txn' = txn /\ txn[s] = <<>>)
  BY <1>1, <1>2 DEF Store!DoCommit, Store!DoAbort, Store!Open, storeVars, Store!TypeOK
<1> QED
  BY <1>1, <1>3, NoFrames

\* The end of a statement
LEMMA FinishFrames ==
  ASSUME TypeInv, DepthLaws, NEW s \in Session, Finish(s)
  PROVE  StoreSound' /\ OnlyMoves(s)
<1>1. FinishCommand(s) /\ AmSound /\ IdleInv
  BY SMTT(20) DEF Finish, TypeInv
<1>2. /\ copy[s] \in {"none", "data"} /\ copy' = [copy EXCEPT ![s] = IF @ = "data" THEN "done" ELSE @]
      /\ lane' = NoSession /\ pg' = pg /\ lane \in {NoSession, s}
      /\ pg[s] \in {"Idle", "InBlock"}
  BY <1>1, ZenonT(30) DEF FinishCommand, IdleInv, InStep, CanRun
<1>3. /\ \A u \in Session \ {s} : copy'[u] = copy[u]
      /\ Extra(s)' = Extra(s)
  BY <1>1, <1>2 DEF AmSound, AmTypes, CopyStep, Extra
<1>4. OnlyStackOf(s) /\ (pg[s] # "Idle" => Depth(s)' = Depth(s))
  BY <1>1, FinishCommandSound, SMTT(20)
<1>5. \A u \in Session \ {s} : cid'[u] = cid[u]
  BY <1>1, ReleaseAllType, SMTT(20) DEF FinishCommand, AmSound, AmTypes
<1>6. CASE pg[s] = "Idle"
  <2>1. Store!TypeOK' /\ txn'[s] = <<>> /\ \A u \in Session \ {s} : txn'[u] = txn[u]
    BY <1>6, EndFrames, SMTT(20) DEF Finish, EndsWith
  <2>2. OnlyMoves(s)
    BY <1>2, <1>3, <1>4, <1>5, <2>1, TableAmAssumption, SMTT(20) DEF OnlyMoves, OnlyStackOf
  <2>3. Frames(s)'
    BY <1>2, <1>6, <2>1 DEF Frames
  <2> QED
    BY <2>1, <2>2, <2>3, FramesOneMoves, ZenonT(30) DEF TypeInv
<1>7. CASE pg[s] # "Idle"
  <2>1. UNCHANGED storeVars
    BY <1>7 DEF Finish, EndsWith
  <2>2. Store!TypeOK' /\ txn' = txn
    BY <2>1, ZenonT(30) DEF storeVars, TypeInv, StoreSound, Store!TypeOK, Store!Frame
  <2>3. OnlyMoves(s)
    BY <1>2, <1>3, <1>4, <1>5, <2>2, TableAmAssumption DEF OnlyMoves, OnlyStackOf
  <2>4. Frames(s)'
    BY <1>2, <1>3, <1>4, <1>7, <2>2, ZenonT(30) DEF Frames, TypeInv, StoreSound
  <2> QED
    BY <2>2, <2>3, <2>4, FramesOneMoves DEF TypeInv
<1> QED
  BY <1>6, <1>7

\* A sequence cut short, as the contract writes it.
LEMMA CutFunction ==
  ASSUME NEW X, NEW S \in Seq(X), NEW n \in 1..(Len(S) + 1), NEW T, T = [i \in 1..(n - 1) |-> S[i]]
  PROVE  T \in Seq(X) /\ Len(T) = n - 1
<1>1. n - 1 \in Nat /\ \A i \in 1..(n - 1) : S[i] \in X
  OBVIOUS
<1> QED
  BY <1>1, FunctionSeq

\* A statement that fails
LEMMA FailFrames ==
  ASSUME TypeInv, DepthLaws, NEW s \in Session, Fail(s)
  PROVE  StoreSound' /\ OnlyMoves(s)
<1>1. AbortCommand(s) /\ AmSound /\ IdleInv /\ StoreSound
  BY SMTT(20) DEF Fail, TypeInv
<1>2. /\ OnlyStackOf(s) /\ copy[s] \in {"none", "data"}
      /\ pg[s] = "InBlock" /\ Level(s) > 1 => Depth(s)' = Depth(s) - 1
  BY <1>1, AbortCommandSound, ZenonT(30)
<1>3. /\ copy' = [copy EXCEPT ![s] = IF @ = "data" THEN "failed" ELSE @]
      /\ lane' = NoSession /\ lane \in {NoSession, s} /\ pg[s] \in {"Idle", "InBlock"}
  BY <1>1 DEF AbortCommand
<1>4. /\ \A u \in Session \ {s} : copy'[u] = copy[u]
      /\ Extra(s)' = Extra(s) /\ copy'[s] \in {"none", "failed"}
  BY <1>1, <1>2, <1>3, SMTT(20) DEF AmSound, AmTypes, CopyStep, Extra
<1>5. \A u \in Session \ {s} : cid'[u] = cid[u]
  BY <1>1, ReleaseAllType, ZenonT(20) DEF AbortCommand, AmSound, AmTypes
<1>6. txn[s] \in Seq(Store!Frame) /\ Len(txn[s]) \in Nat /\ (txn[s] = <<>> <=> Len(txn[s]) = 0)
  <2>1. txn[s] \in Seq(Store!Frame)
    BY <1>1 DEF StoreSound, Store!TypeOK
  <2> QED
    BY <2>1
<1>7. pg[s] = "InBlock" => Len(txn[s]) = Level(s)
  <2>1. ASSUME pg[s] = "InBlock" PROVE Len(txn[s]) = Depth(s) - Extra(s) /\ Depth(s) # 0
    <3>1. Len(txn[s]) = Depth(s) - Extra(s) /\ Len(txn[s]) # 0 /\ Extra(s) \in Nat /\ Depth(s) \in Nat
      BY <1>1, <1>6, <2>1, DepthType, SMTT(20) DEF StoreSound, Frames
    <3> QED
      BY <1>6, <3>1, SMTT(20)
  <2> QED
    BY <1>1, <1>2, <2>1, LevelFacts
<1>8. CASE pg[s] = "InBlock" /\ Level(s) > 1
  <2>1. Store!DoDropFrame(s) /\ pg' = [pg EXCEPT ![s] = "SubAborted"]
    BY <1>6, <1>7, <1>8, SMTT(30) DEF Fail, Store!Open, Store!Depth, AbortCommand
  <2> DEFINE T == [i \in 1..(Len(txn[s]) - 1) |-> txn[s][i]]
  <2>2. T \in Seq(Store!Frame) /\ Len(T) = Len(txn[s]) - 1
    <3>1. Len(txn[s]) \in 1..(Len(txn[s]) + 1)
      BY <1>6, <1>7, <1>8
    <3> QED
      BY <1>6, <3>1, CutFunction
  <2>3. txn' = [txn EXCEPT ![s] = T] /\ UNCHANGED <<committed, used, origin>>
    BY <2>1 DEF Store!DoDropFrame
  <2> HIDE DEF T
  <2>4. Store!TypeOK' /\ txn'[s] = T /\ \A u \in Session \ {s} : txn'[u] = txn[u]
    BY <1>1, <2>2, <2>3 DEF StoreSound, Store!TypeOK
  <2>5. pg'[s] = "SubAborted" /\ \A u \in Session \ {s} : pg'[u] = pg[u]
    BY <1>1, <2>1, SMTT(20) DEF AmSound, AmTypes
  <2>6. OnlyMoves(s)
    BY <1>2, <1>3, <1>4, <1>5, <2>4, <2>5, TableAmAssumption, ZenonT(30) DEF OnlyMoves, OnlyStackOf
  <2>7. T # <<>>
    <3>1. Len(T) # 0
      BY <1>6, <1>7, <1>8, <2>2
    <3> QED
      BY <3>1
  <2>8. Len(T) = Depth(s)' - Extra(s)'
    <3>1. Extra(s) \in Nat /\ Depth(s) \in Nat /\ Len(txn[s]) = Depth(s) - Extra(s)
      BY <1>1, <1>8, DepthType, SMTT(20) DEF StoreSound, Frames
    <3> QED
      BY <1>2, <1>4, <1>8, <2>2, <3>1, SMTT(20)
  <2>9. Frames(s)'
    BY <1>4, <2>4, <2>5, <2>7, <2>8, SMTT(20) DEF Frames
  <2> QED
    BY <1>1, <2>4, <2>6, <2>9, FramesOneMoves, SMTT(20)
<1>9. CASE ~(pg[s] = "InBlock" /\ Level(s) > 1)
  <2>1. Store!DoAbort(s) \/ (UNCHANGED storeVars /\ ~Store!Open(s))
    <3>1. ~(Len(txn[s]) > 1)
      BY <1>1, <1>3, <1>6, <1>7, <1>9 DEF StoreSound, Frames
    <3> QED
      BY <3>1 DEF Fail, Store!Depth
  <2>2. Store!TypeOK' /\ txn'[s] = <<>> /\ \A u \in Session \ {s} : txn'[u] = txn[u]
    BY <2>1, EndFrames
  <2>3. pg' = [pg EXCEPT ![s] = IF @ = "Idle" THEN "Idle" ELSE "Aborted"]
    BY <1>1, <1>9 DEF AbortCommand
  <2>4. pg'[s] \in {"Idle", "Aborted"} /\ \A u \in Session \ {s} : pg'[u] = pg[u]
    BY <1>1, <2>3, SMTT(20) DEF AmSound, AmTypes
  <2>5. OnlyMoves(s)
    BY <1>2, <1>3, <1>4, <1>5, <2>2, <2>4, TableAmAssumption, SMTT(30) DEF OnlyMoves, OnlyStackOf
  <2>6. Frames(s)'
    BY <1>4, <2>2, <2>4, SMTT(30) DEF Frames
  <2> QED
    BY <1>1, <2>2, <2>5, <2>6, FramesOneMoves
<1> QED
  BY <1>8, <1>9

\* BEGIN
LEMMA BeginFrames ==
  ASSUME TypeInv, DepthLaws, NEW s \in Session, Begin(s)
  PROVE  StoreSound' /\ OnlyMoves(s)
<1>1. BeginBlock(s) /\ Store!DoBegin(s) /\ AmSound /\ IdleInv /\ StoreSound
  BY DEF Begin, TypeInv
<1>2. OnlyStackOf(s) /\ Depth(s)' = (IF Depth(s) = 0 THEN 1 ELSE Depth(s))
  BY <1>1, BeginBlockSound
<1>3. /\ lane = NoSession /\ lane' = lane /\ pg[s] = "Idle" /\ copy[s] = "none"
      /\ pg' = [pg EXCEPT ![s] = "InBlock"] /\ UNCHANGED <<copy, cid>>
  BY <1>1 DEF BeginBlock, Ready
<1>4. Depth(s) = 0
  <2>1. stack[s] = <<>>
    BY <1>1, <1>3, TableAmAssumption, ZenonT(20) DEF IdleInv, Held, ImplicitStack
  <2> QED
    BY <2>1 DEF Depth
<1>5. Store!EmptyFrame \in Store!Frame
  BY DEF Store!EmptyFrame, Store!Frame
<1>6. <<Store!EmptyFrame>> \in Seq(Store!Frame) /\ Len(<<Store!EmptyFrame>>) = 1
      /\ <<Store!EmptyFrame>> # <<>>
  BY <1>5
<1>7. Store!TypeOK' /\ txn'[s] = <<Store!EmptyFrame>> /\ \A u \in Session \ {s} : txn'[u] = txn[u]
  BY <1>1, <1>6 DEF StoreSound, Store!TypeOK, Store!DoBegin
<1>8. pg'[s] = "InBlock" /\ \A u \in Session \ {s} : pg'[u] = pg[u]
  BY <1>1, <1>3, SMTT(20) DEF AmSound, AmTypes
<1>9. OnlyMoves(s)
  BY <1>2, <1>3, <1>7, <1>8, ZenonT(20) DEF OnlyMoves, OnlyStackOf
<1>10. Frames(s)'
  <2>1. Extra(s)' = 0
    BY <1>3 DEF Extra
  <2> QED
    BY <1>2, <1>4, <1>6, <1>7, <1>8, <2>1, SMTT(30) DEF Frames
<1> QED
  BY <1>1, <1>7, <1>9, <1>10, FramesOneMoves, Zenon

\* A session that is ready and in a block has a frame for each of its levels.
LEMMA ReadyFrames ==
  ASSUME TypeInv, NEW s \in Session, Ready(s), pg[s] \in {"InBlock", "SubAborted"}
  PROVE  /\ Depth(s) \in Nat /\ Extra(s) = 0 /\ Len(txn[s]) = Depth(s) /\ Depth(s) >= 1
         /\ txn[s] \in Seq(Store!Frame) /\ \A i \in 1..Depth(s) : txn[s][i] \in Store!Frame
<1>1. AmSound /\ Depth(s) \in Nat /\ Extra(s) = 0
  BY DepthType DEF Ready, Extra, TypeInv
<1>2. txn[s] \in Seq(Store!Frame)
  BY DEF TypeInv, StoreSound, Store!TypeOK
<1>3. Len(txn[s]) = Depth(s) - Extra(s) /\ DepthOK(s)
  BY DEF TypeInv, StoreSound, Frames, AmSound
<1>4. Len(txn[s]) = Depth(s) /\ Depth(s) >= 1
  BY <1>1, <1>3, SMTT(20) DEF DepthOK
<1> QED
  BY <1>1, <1>2, <1>4

\* SAVEPOINT, RELEASE and ROLLBACK TO move frames as they move overlays.
LEMMA SavepointFrames ==
  ASSUME TypeInv, NEW s \in Session, Ready(s), lane' = lane, UNCHANGED <<copy, cid>>,
         pg'[s] = "InBlock", \A u \in Session \ {s} : pg'[u] = pg[u],
         OnlyStackOf(s), NEW T \in Seq(Store!Frame), txn' = [txn EXCEPT ![s] = T],
         Len(T) = Depth(s)', Len(T) # 0, UNCHANGED <<committed, used, origin>>
  PROVE  StoreSound' /\ OnlyMoves(s)
<1>1. Store!TypeOK' /\ txn'[s] = T /\ \A u \in Session \ {s} : txn'[u] = txn[u]
  BY ZenonT(30) DEF TypeInv, StoreSound, Store!TypeOK
<1>2. OnlyMoves(s)
  BY <1>1, Zenon DEF OnlyMoves, OnlyStackOf
<1>3. Extra(s)' = 0 /\ T # <<>>
  BY DEF Extra, Ready
<1>4. Depth(s)' \in Nat
  OBVIOUS
<1>5. Frames(s)'
  BY <1>1, <1>3, <1>4 DEF Frames
<1> QED
  BY <1>1, <1>2, <1>5, FramesOneMoves, SMTT(20) DEF TypeInv

\* SAVEPOINT
LEMMA DefineSavepointFrames ==
  ASSUME TypeInv, DepthLaws, NEW s \in Session, DefineSavepoint(s), Store!DoSavepoint(s)
  PROVE  StoreSound' /\ OnlyMoves(s)
<1> DEFINE T == Append(txn[s], txn[s][Len(txn[s])])
<1>1. Ready(s) /\ pg[s] = "InBlock" /\ UNCHANGED <<pg, lane, copy, cid>>
  BY DEF DefineSavepoint, amVars
<1>2. OnlyStackOf(s) /\ Depth(s)' = Depth(s) + 1
  BY DefineSavepointSound DEF TypeInv
<1>3. /\ Depth(s) \in Nat /\ Len(txn[s]) = Depth(s) /\ Depth(s) >= 1
      /\ txn[s] \in Seq(Store!Frame) /\ txn[s][Len(txn[s])] \in Store!Frame
  BY <1>1, ReadyFrames
<1>4. T \in Seq(Store!Frame) /\ Len(T) = Depth(s) + 1
  BY <1>3
<1>5. txn' = [txn EXCEPT ![s] = T] /\ UNCHANGED <<committed, used, origin>>
  BY DEF Store!DoSavepoint
<1> HIDE DEF T
<1>6. Len(T) = Depth(s)' /\ Len(T) # 0
  BY <1>2, <1>3, <1>4
<1> QED
  BY <1>1, <1>2, <1>4, <1>5, <1>6, SavepointFrames, Zenon

\* RELEASE
LEMMA ReleaseFrames ==
  ASSUME TypeInv, DepthLaws, NEW s \in Session, NEW n, ReleaseSavepoint(s, n), Store!DoRelease(s, n)
  PROVE  StoreSound' /\ OnlyMoves(s)
<1> DEFINE T == [i \in 1..(n - 1) |-> IF i = n - 1 THEN txn[s][Len(txn[s])] ELSE txn[s][i]]
<1>1. Ready(s) /\ pg[s] = "InBlock" /\ UNCHANGED <<pg, lane, copy, cid>> /\ n \in 2..Depth(s)
  BY DEF ReleaseSavepoint
<1>2. OnlyStackOf(s) /\ Depth(s)' = n - 1
  BY ReleaseSavepointSound DEF TypeInv
<1>3. /\ Depth(s) \in Nat /\ Len(txn[s]) = Depth(s) /\ Depth(s) >= 1
      /\ \A i \in 1..Depth(s) : txn[s][i] \in Store!Frame
  BY <1>1, ReadyFrames
<1>4. n - 1 \in Nat /\ n - 1 # 0 /\ \A i \in 1..(n - 1) : i \in 1..Depth(s)
  BY <1>1, <1>3
<1>5. \A i \in 1..(n - 1) : T[i] \in Store!Frame
  BY <1>3, <1>4
<1>6. T \in Seq(Store!Frame) /\ Len(T) = n - 1
  BY <1>4, <1>5, FunctionSeq
<1>7. txn' = [txn EXCEPT ![s] = T] /\ UNCHANGED <<committed, used, origin>>
  BY DEF Store!DoRelease
<1> HIDE DEF T
<1> QED
  BY <1>1, <1>2, <1>4, <1>6, <1>7, SavepointFrames, ZenonT(30)

\* ROLLBACK TO
LEMMA RollbackToFrames ==
  ASSUME TypeInv, DepthLaws, NEW s \in Session, NEW n \in 2..MaxDepth, RollbackToSavepoint(s, n),
         Store!DoRollbackTo(s, n)
  PROVE  StoreSound' /\ OnlyMoves(s)
<1> DEFINE T == [i \in 1..n |-> IF i = n THEN txn[s][n - 1] ELSE txn[s][i]]
<1>1. /\ Ready(s) /\ pg[s] \in {"InBlock", "SubAborted"} /\ pg' = [pg EXCEPT ![s] = "InBlock"]
      /\ UNCHANGED <<lane, copy, cid>>
      /\ n \in 2..Depth(s) \/ n \in 2..(Depth(s) + 1)
  BY DEF RollbackToSavepoint
<1>2. OnlyStackOf(s) /\ Depth(s)' = n
  BY RollbackToSavepointSound DEF TypeInv
<1>3. /\ Depth(s) \in Nat /\ Len(txn[s]) = Depth(s) /\ Depth(s) >= 1
      /\ \A i \in 1..Depth(s) : txn[s][i] \in Store!Frame
  BY <1>1, ReadyFrames, ZenonT(30)
<1>4. /\ n \in Nat /\ n # 0 /\ n - 1 \in 1..Depth(s)
      /\ \A i \in 1..n : i # n => i \in 1..Depth(s)
  BY <1>1, <1>3, TableAmAssumption, SMTT(20)
<1>5. \A i \in 1..n : T[i] \in Store!Frame
  BY <1>3, <1>4
<1>6. T \in Seq(Store!Frame) /\ Len(T) = n
  BY <1>4, <1>5, FunctionSeq
<1>7. txn' = [txn EXCEPT ![s] = T] /\ UNCHANGED <<committed, used, origin>>
  BY DEF Store!DoRollbackTo
<1>8. pg'[s] = "InBlock" /\ \A u \in Session \ {s} : pg'[u] = pg[u]
  BY <1>1, SMTT(20) DEF TypeInv, AmSound, AmTypes
<1> HIDE DEF T
<1> QED
  BY <1>1, <1>2, <1>4, <1>6, <1>7, <1>8, SavepointFrames, ZenonT(30)

\* COMMIT, ROLLBACK and the end of a session drop the frames.
LEMMA EndBlockFrames ==
  ASSUME TypeInv, DepthLaws, NEW s \in Session, Commit(s) \/ Rollback(s) \/ Disconnect(s)
  PROVE  StoreSound' /\ OnlyMoves(s)
<1>1. CommitBlock(s) \/ RollbackBlock(s) \/ EndSession(s)
  BY DEF Commit, Rollback, Disconnect
<1>2. /\ lane' = lane /\ lane = NoSession /\ ReleaseAll(s) /\ pg' = [pg EXCEPT ![s] = "Idle"]
      /\ copy' = [copy EXCEPT ![s] = "none"] \/ copy' = copy
  BY <1>1 DEF CommitBlock, RollbackBlock, EndSession, Ready
<1>3. OnlyStackOf(s)
  BY <1>1, EndBlockSound, SMTT(20) DEF TypeInv
<1>4. Store!TypeOK' /\ txn'[s] = <<>> /\ \A u \in Session \ {s} : txn'[u] = txn[u]
  BY EndFrames, Zenon DEF Commit, Rollback, Disconnect
<1>5. /\ \A u \in Session \ {s} : pg'[u] = pg[u] /\ copy'[u] = copy[u] /\ cid'[u] = cid[u]
      /\ pg'[s] = "Idle"
  BY <1>2 DEF TypeInv, AmSound, AmTypes, ReleaseAll
<1>6. OnlyMoves(s)
  BY <1>2, <1>3, <1>4, <1>5, ZenonT(20) DEF OnlyMoves, OnlyStackOf
<1>7. Frames(s)'
  BY <1>4, <1>5, SMTT(30) DEF Frames
<1> QED
  BY <1>4, <1>6, <1>7, FramesOneMoves, Zenon DEF TypeInv

\* A COPY adds an overlay and no frame.
LEMMA CopyFrames ==
  ASSUME TypeInv, DepthLaws, NEW s \in Session, Copy(s)
  PROVE  StoreSound' /\ OnlyMoves(s)
<1>1. AmSound /\ IdleInv /\ StoreSound /\ UNCHANGED storeVars
      /\ (BeginCopy(s) \/ CopyFail(s) \/ CloseCopy(s) \/ EndCopy(s))
  BY DEF TypeInv, Copy
<1>2. UNCHANGED <<pg, lane>> /\ (cid' = cid \/ cid' = [cid EXCEPT ![s] = @ + 1])
      /\ \E c \in CopyStep : copy' = [copy EXCEPT ![s] = c]
  BY <1>1, Zenon DEF BeginCopy, CopyFail, CloseCopy, EndCopy, CopyStep
<1>3. \A u \in Session \ {s} : copy'[u] = copy[u] /\ cid'[u] = cid[u]
  BY <1>1, <1>2 DEF AmSound, AmTypes
<1>4. OnlyStackOf(s)
  BY <1>1, BeginCopySound, CopyFailSound, CloseCopySound, EndCopySound
<1>5. Store!TypeOK' /\ txn' = txn
  BY <1>1, Zenon DEF storeVars, StoreSound, Store!TypeOK, Store!Frame
<1>6. OnlyMoves(s)
  BY <1>2, <1>3, <1>4, <1>5 DEF OnlyMoves, OnlyStackOf
<1>7. Frames(s)
  BY <1>1 DEF StoreSound
<1>8. Depth(s) \in Nat /\ DepthOK(s) /\ copy[s] \in CopyStep
  BY <1>1, DepthType DEF AmSound, AmTypes
<1>9. Frames(s)'
  <2>1. CASE BeginCopy(s)
    <3>1. Depth(s)' = (IF Depth(s) = 0 THEN 2 ELSE Depth(s) + 1) /\ copy[s] = "none"
          /\ pg[s] \in {"Idle", "InBlock"} /\ copy'[s] = "data"
      BY <1>1, <2>1, BeginCopySound, ZenonT(30) DEF BeginCopy, Ready, CanRun, AmSound, AmTypes
    <3>2. Extra(s) = 0 /\ Extra(s)' = 1
      BY <3>1, SMTT(20) DEF Extra
    <3>3. pg[s] = "InBlock" => Depth(s) - Extra(s) = Depth(s)' - Extra(s)'
      BY <1>8, <3>1, <3>2, SMTT(30) DEF DepthOK
    <3> QED
      BY <1>2, <1>5, <1>7, <3>1, <3>3, ZenonT(20) DEF Frames
  <2>2. CASE CopyFail(s)
    <3>1. Depth(s)' = Depth(s) /\ copy[s] = "data" /\ copy'[s] = "failed"
      BY <1>1, <2>2, CopyFailSound, ZenonT(30) DEF CopyFail, AmSound, AmTypes
    <3>2. Extra(s)' = Extra(s)
      BY <3>1 DEF Extra
    <3> QED
      BY <1>2, <1>5, <1>7, <3>1, <3>2, ZenonT(20) DEF Frames
  <2>3. CASE CloseCopy(s)
    <3>1. /\ Depth(s)' = (IF Depth(s) > 1 THEN Depth(s) - 1 ELSE Depth(s))
          /\ copy[s] \in {"done", "failed"} /\ copy'[s] = (IF copy[s] = "done" THEN "commit" ELSE "abort")
      BY <1>1, <2>3, CloseCopySound, ZenonT(30) DEF CloseCopy, AmSound, AmTypes
    <3>2. Extra(s)' = 0 /\ Extra(s) = 1
      BY <3>1, Zenon DEF Extra
    <3>3. pg[s] \in {"InBlock", "SubAborted"} => Depth(s) - Extra(s) = Depth(s)' - Extra(s)'
      BY <1>8, <3>1, <3>2, SMTT(20) DEF DepthOK
    <3> QED
      BY <1>2, <1>5, <1>7, <3>1, <3>3, Zenon DEF Frames
  <2>4. CASE EndCopy(s)
    <3>1. /\ pg[s] # "Idle" => Depth(s)' = Depth(s)
          /\ copy[s] \in {"commit", "abort"} /\ copy'[s] = "none"
      BY <1>1, <2>4, EndCopySound, Zenon DEF EndCopy, AmSound, AmTypes
    <3>2. Extra(s)' = Extra(s)
      BY <3>1, Zenon DEF Extra
    <3> QED
      BY <1>2, <1>5, <1>7, <3>1, <3>2, ZenonT(20) DEF Frames
  <2> QED
    BY <1>1, <2>1, <2>2, <2>3, <2>4, SMTT(20)
<1> QED
  BY <1>1, <1>5, <1>6, <1>9, FramesOneMoves

-----------------------------------------------------------------------------
(* The type invariant *)

\* A step of the whole system is a step of one session, which keeps the frames.
LEMMA StepFrames ==
  ASSUME TypeInv, DepthLaws, Next
  PROVE  StoreSound' /\ \E s \in Session : OnlyMoves(s)
<1>1. PICK s \in Session :
         \/ Begin(s) \/ Insert(s) \/ Delete(s) \/ Update(s) \/ Truncate(s)
         \/ Finish(s) \/ Fail(s) \/ SavepointStmt(s) \/ Commit(s) \/ Rollback(s)
         \/ Copy(s) \/ Disconnect(s)
  BY Zenon DEF Next
<1>2. CASE Begin(s) \/ Insert(s) \/ Truncate(s)
  BY <1>2, BeginFrames, InsertFrames, TruncateFrames
<1>3. CASE Delete(s) \/ Update(s)
  BY <1>3, DeleteFrames, UpdateFrames
<1>4. CASE Finish(s) \/ Fail(s)
  BY <1>4, FinishFrames, FailFrames
<1>5. CASE SavepointStmt(s)
  BY <1>5, DefineSavepointFrames, ReleaseFrames, RollbackToFrames DEF SavepointStmt
<1>6. CASE Commit(s) \/ Rollback(s) \/ Copy(s) \/ Disconnect(s)
  BY <1>6, EndBlockFrames, CopyFrames
<1> QED
  BY <1>1, <1>2, <1>3, <1>4, <1>5, <1>6, Zenon

\* The type invariant holds initially,
LEMMA InitTypeInv ==
  ASSUME Init, IdleInv, WellFormed(EmptyRelation)
  PROVE  TypeInv
<1>1. TableAmInit /\ Store!Init
  BY DEF Init
<1>2. AmSound /\ IdleInv
  BY <1>1, InitAmSound
<1>3. Store!TypeOK
  BY <1>1 DEF Store!Init, Store!TypeOK
<1>4. \A s \in Session : txn[s] = <<>> /\ pg[s] = "Idle"
  BY <1>1, SMTT(20) DEF Store!Init, TableAmInit
<1>5. \A s \in Session : Frames(s)
  BY <1>4 DEF Frames
<1> QED
  BY <1>2, <1>3, <1>5 DEF TypeInv, StoreSound

\* and every step preserves it.
LEMMA NextTypeInv ==
  ASSUME TypeInv, DepthLaws, [Next]_allVars, IdleInv'
  PROVE  TypeInv'
<1>1. [TableAmNext]_<<storageVars, amVars>>
  BY NextIsTableAmNext
<1>2. AmSound' /\ IdleInv'
  BY <1>1, NextAmSound DEF TypeInv
<1>3. CASE Next
  BY <1>2, <1>3, StepFrames DEF TypeInv
<1>4. CASE UNCHANGED allVars
  <2>1. StoreSound'
    BY <1>4, Zenon DEF TypeInv, StoreSound, allVars, storeVars, storageVars, amVars, Store!TypeOK,
                Store!Frame, Frames, Depth, Extra
  <2> QED
    BY <1>2, <2>1, SMTT(20) DEF TypeInv
<1> QED
  BY <1>3, <1>4

=============================================================================
