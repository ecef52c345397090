-------------------------- MODULE WireSession_proofs --------------------------
(***************************************************************************)
(* Proofs about WireSession, for messages of any length and any number of  *)
(* savepoints.                                                             *)
(***************************************************************************)
EXTENDS WireSession, TLAPS

-----------------------------------------------------------------------------
(* The backend between two messages and during a COPY *)

\* The state of PostgreSQL's block in itself.
BlockOK(b) ==
  /\ b \in [block : {"Idle", "InBlock", "Aborted", "SubAborted"}, savepoints : Nat, overlays : Nat]
  /\ b.block \in {"Idle", "Aborted"} => b.savepoints = 0
  /\ b.block = "SubAborted" => b.savepoints > 0

\* A block with as many overlays as it calls for, outside a COPY ...
InStep(b) ==
  /\ BlockOK(b)
  /\ b.block = "Idle" => b.overlays = 0
  /\ b.block \in {"InBlock", "Aborted"} => b.overlays = 1 + b.savepoints
  /\ b.block = "SubAborted" => b.overlays = b.savepoints

\* ... and in one, which only a block that has not failed begins.
InCopy(b) ==
  /\ BlockOK(b) /\ b.block \in {"Idle", "InBlock"}
  /\ b.overlays = 2 + b.savepoints

Rec(k, n, o) == [block |-> k, savepoints |-> n, overlays |-> o]

\* A backend is its three fields.
LEMMA Fields == ASSUME NEW b, BlockOK(b)
                PROVE  /\ b = Rec(b.block, b.savepoints, b.overlays)
                       /\ b.savepoints \in Nat /\ b.overlays \in Nat
BY DEF BlockOK, Rec

\* subxact_commit and subxact_abort, field by field.
LEMMA PopRec == ASSUME NEW k, NEW n \in Nat, NEW o \in Nat
                PROVE  /\ o > 1 => Pop(Rec(k, n, o)) = Rec(k, n, o - 1)
                       /\ o <= 1 => Pop(Rec(k, n, o)) = Rec(k, n, o)
BY DEF Pop, Rec

\* xact_abort_if_implicit, field by field.
LEMMA AbortRec == ASSUME NEW k, NEW n \in Nat, NEW o \in Nat
                  PROVE  /\ k # "Idle" => AbortIfImplicit(Rec(k, n, o)) = Rec(k, n, o)
                         /\ k = "Idle" => AbortIfImplicit(Rec(k, n, o)) = Rec(k, n, 0)
BY DEF AbortIfImplicit, Rec

\* xact_commit_if_implicit, field by field.
LEMMA CommitRec == ASSUME NEW k, NEW n \in Nat, NEW o \in Nat, NEW empty \in BOOLEAN
                   PROVE  /\ k # "Idle" \/ o = 0 => CommitIfImplicit(Rec(k, n, o), empty) = Rec(k, n, o)
                          /\ k = "Idle" /\ o # 0 => CommitIfImplicit(Rec(k, n, o), empty) =
                                                    Rec(k, n, IF empty THEN o - 1 ELSE 0)
BY DEF CommitIfImplicit, Rec

\* Both do nothing in a block.
LEMMA ImplicitInBlock == ASSUME NEW k, NEW n, NEW o, NEW empty, k # "Idle"
                         PROVE  /\ AbortIfImplicit(Rec(k, n, o)) = Rec(k, n, o)
                                /\ CommitIfImplicit(Rec(k, n, o), empty) = Rec(k, n, o)
<1>1. Rec(k, n, o).block # "Idle"
  BY DEF Rec
<1> QED
  BY <1>1 DEF AbortIfImplicit, CommitIfImplicit

\* A failed statement, field by field.
LEMMA FailRec ==
  ASSUME NEW k, NEW n \in Nat, NEW o \in Nat
  PROVE  /\ k = "Idle" => FailStatement(Rec(k, n, o)) = Rec(k, n, 0)
         /\ k = "InBlock" /\ n = 0 => FailStatement(Rec(k, n, o)) = Rec("Aborted", n, o)
         /\ k = "InBlock" /\ n > 0 /\ o > 1 => FailStatement(Rec(k, n, o)) = Rec("SubAborted", n, o - 1)
         /\ k \in {"Aborted", "SubAborted"} => FailStatement(Rec(k, n, o)) = Rec(k, n, o)
<1>1. CASE k = "Idle"
  BY <1>1, AbortRec DEF FailStatement, Rec
<1>2. CASE k = "InBlock" /\ n = 0
  BY <1>2 DEF FailStatement, Rec
<1>3. CASE k = "InBlock" /\ n > 0 /\ o > 1
  <2>1. FailStatement(Rec(k, n, o)) = [Pop(Rec(k, n, o)) EXCEPT !.block = "SubAborted"]
    BY <1>3 DEF FailStatement, Rec
  <2>2. Pop(Rec(k, n, o)) = Rec(k, n, o - 1)
    BY <1>3, PopRec
  <2>3. [Rec(k, n, o - 1) EXCEPT !.block = "SubAborted"] = Rec("SubAborted", n, o - 1)
    BY DEF Rec
  <2> QED
    BY <1>3, <2>1, <2>2, <2>3
<1>4. CASE k \in {"Aborted", "SubAborted"}
  BY <1>4 DEF FailStatement, Rec
<1> QED
  BY <1>1, <1>2, <1>3, <1>4

\* A statement that is carried out (execute_transaction_stmt, begin_copy), field
\* by field.
LEMMA CarriedRec ==
  ASSUME NEW k, NEW n \in Nat, NEW o \in Nat
  PROVE  /\ k = "Idle" => Carried("begin", Rec(k, n, o)) = Rec("InBlock", n, 1)
         /\ k # "Idle" => Carried("begin", Rec(k, n, o)) = Rec(k, n, o)
         /\ Carried("ok", Rec(k, n, o)) = Rec(k, n, o)
         /\ Carried("commit", Rec(k, n, o)) = Rec("Idle", 0, 0)
         /\ Carried("rollback", Rec(k, n, o)) = Rec("Idle", 0, 0)
         /\ Carried("savepoint", Rec(k, n, o)) = Rec(k, n + 1, o + 1)
         /\ o > 1 => Carried("release", Rec(k, n, o)) = Rec(k, n - 1, o - 1)
         /\ k = "SubAborted" => Carried("rollback to", Rec(k, n, o)) = Rec("InBlock", n, o + 1)
         /\ k = "InBlock" => Carried("rollback to", Rec(k, n, o)) = Rec("InBlock", n, o)
<1>1. /\ k = "Idle" => Carried("begin", Rec(k, n, o)) = Rec("InBlock", n, 1)
      /\ k # "Idle" => Carried("begin", Rec(k, n, o)) = Rec(k, n, o)
  BY Zenon DEF Carried, Rec
<1>2. Carried("ok", Rec(k, n, o)) = Rec(k, n, o)
  BY DEF Carried
<1>3. Carried("commit", Rec(k, n, o)) = Rec("Idle", 0, 0)
  BY Zenon DEF Carried, Rec
<1>4. Carried("rollback", Rec(k, n, o)) = Rec("Idle", 0, 0)
  BY Zenon DEF Carried, Rec
<1>5. Carried("savepoint", Rec(k, n, o)) = Rec(k, n + 1, o + 1)
  BY Zenon DEF Carried, Rec
<1>6. ASSUME o > 1 PROVE Carried("release", Rec(k, n, o)) = Rec(k, n - 1, o - 1)
  <2>1. Carried("release", Rec(k, n, o)) = [Pop(Rec(k, n, o)) EXCEPT !.savepoints = @ - 1]
    BY DEF Carried
  <2>2. Pop(Rec(k, n, o)) = Rec(k, n, o - 1)
    BY <1>6, PopRec
  <2>3. [Rec(k, n, o - 1) EXCEPT !.savepoints = @ - 1] = Rec(k, n - 1, o - 1)
    BY DEF Rec
  <2> QED
    BY <2>1, <2>2, <2>3
<1>7. /\ k = "SubAborted" => Carried("rollback to", Rec(k, n, o)) = Rec("InBlock", n, o + 1)
      /\ k = "InBlock" => Carried("rollback to", Rec(k, n, o)) = Rec("InBlock", n, o)
  BY Zenon DEF Carried, Rec
<1> QED
  BY <1>1, <1>2, <1>3, <1>4, <1>5, <1>6, <1>7, Zenon

\* The overlay of a COPY, field by field.
LEMMA CopyRec == ASSUME NEW k, NEW n \in Nat, NEW o \in Nat
                 PROVE  Carried("copy", Rec(k, n, o)) = Rec(k, n, IF o = 0 THEN 2 ELSE o + 1)
BY DEF Carried, BeginCopy, Rec

\* The invariants of a backend, field by field.
InStepFields(k, n, o) ==
  /\ k \in {"Idle", "InBlock", "Aborted", "SubAborted"} /\ n \in Nat /\ o \in Nat
  /\ k \in {"Idle", "Aborted"} => n = 0
  /\ k = "SubAborted" => n > 0 /\ o = n
  /\ k = "Idle" => o = 0
  /\ k \in {"InBlock", "Aborted"} => o = 1 + n
InCopyFields(k, n, o) ==
  /\ k \in {"Idle", "InBlock"} /\ n \in Nat /\ o \in Nat
  /\ k = "Idle" => n = 0
  /\ o = 2 + n

\* A backend outside a COPY has such fields, ...
LEMMA InStepRec == ASSUME NEW b, InStep(b) PROVE \E k, n, o : b = Rec(k, n, o) /\ InStepFields(k, n, o)
<1>1. b = Rec(b.block, b.savepoints, b.overlays)
  BY Fields DEF InStep
<1>2. InStepFields(b.block, b.savepoints, b.overlays)
  BY DEF InStep, BlockOK, InStepFields
<1> QED
  BY <1>1, <1>2

\* ... and such fields make one.
LEMMA RecInStep == ASSUME NEW k, NEW n, NEW o, InStepFields(k, n, o) PROVE InStep(Rec(k, n, o))
BY DEF InStep, BlockOK, InStepFields, Rec

\* The same during a COPY: one way ...
LEMMA InCopyRec == ASSUME NEW b, InCopy(b) PROVE \E k, n, o : b = Rec(k, n, o) /\ InCopyFields(k, n, o)
<1>1. b = Rec(b.block, b.savepoints, b.overlays)
  BY Fields DEF InCopy
<1>2. InCopyFields(b.block, b.savepoints, b.overlays)
  BY DEF InCopy, BlockOK, InCopyFields
<1> QED
  BY <1>1, <1>2

\* ... and the other.
LEMMA RecInCopy == ASSUME NEW k, NEW n, NEW o, InCopyFields(k, n, o) PROVE InCopy(Rec(k, n, o))
BY DEF InCopy, BlockOK, InCopyFields, Rec

\* A statement other than COPY that is carried out takes and leaves overlays the
\* way PostgreSQL nests its transactions.
LEMMA CarriedInStep ==
  ASSUME NEW b, InStep(b), NEW stmt \in Statement \ {"copy"}, Succeeds(stmt, b)
  PROVE  InStep(Carried(stmt, b))
<1>0. PICK k, n, o : b = Rec(k, n, o) /\ InStepFields(k, n, o)
  BY InStepRec
<1> n \in Nat /\ o \in Nat
  BY <1>0 DEF InStepFields
<1>1. CASE stmt = "begin" /\ k = "Idle"
  <2>1. Carried(stmt, b) = Rec("InBlock", n, 1)
    BY <1>0, <1>1, CarriedRec, ZenonT(30)
  <2>2. InStepFields("InBlock", n, 1)
    BY <1>0, <1>1 DEF InStepFields
  <2> QED
    BY <2>1, <2>2, RecInStep
<1>2. CASE stmt = "ok" \/ (stmt = "begin" /\ k # "Idle")
  <2>1. b.block = k
    BY <1>0 DEF Rec
  <2>2. Carried(stmt, b) = b
    BY <1>2, <2>1, Zenon DEF Carried
  <2> QED
    BY <2>2
<1>3. CASE stmt \in {"commit", "rollback"}
  <2>1. Carried(stmt, b) = Rec("Idle", 0, 0)
    BY <1>0, <1>3, Zenon DEF Carried, Rec
  <2>2. InStepFields("Idle", 0, 0)
    BY <1>0, <1>3 DEF InStepFields
  <2> QED
    BY <2>1, <2>2, RecInStep
<1>4. CASE stmt = "savepoint"
  <2>1. k = "InBlock"
    BY <1>0, <1>4 DEF Succeeds, Rec
  <2>2. Carried(stmt, b) = Rec(k, n + 1, o + 1)
    BY <1>0, <1>4, CarriedRec, Zenon
  <2>3. InStepFields(k, n + 1, o + 1)
    BY <1>0, <1>4, <2>1 DEF InStepFields
  <2> QED
    BY <2>2, <2>3, RecInStep
<1>5. CASE stmt = "release"
  <2>1. k = "InBlock" /\ n > 0
    BY <1>0, <1>5 DEF Succeeds, Rec
  <2>2. o > 1
    BY <1>0, <2>1 DEF InStepFields
  <2>3. Carried(stmt, b) = Rec(k, n - 1, o - 1)
    BY <1>0, <1>5, <2>2, CarriedRec, Zenon
  <2>4. InStepFields(k, n - 1, o - 1)
    BY <1>0, <1>5, <2>1, <2>2 DEF InStepFields
  <2> QED
    BY <2>3, <2>4, RecInStep
<1>6. CASE stmt = "rollback to" /\ k = "SubAborted"
  <2>1. Carried("rollback to", Rec(k, n, o)) = Rec("InBlock", n, o + 1)
    BY <1>6, Zenon DEF Carried, Rec
  <2>2. o = n
    BY <1>0, <1>6, Zenon DEF InStepFields
  <2>3. InStepFields("InBlock", n, o + 1)
    BY <2>2 DEF InStepFields
  <2> QED
    BY <1>0, <1>6, <2>1, <2>3, RecInStep, Zenon
<1>7. CASE stmt = "rollback to" /\ k = "InBlock"
  BY <1>0, <1>7, CarriedRec, Zenon
<1>8. stmt = "rollback to" => k \in {"InBlock", "SubAborted"}
  BY <1>0, Zenon DEF Succeeds, Rec
<1>9. stmt # "err"
  BY Zenon DEF Succeeds
<1> QED
  BY <1>1, <1>2, <1>3, <1>4, <1>5, <1>6, <1>7, <1>8, <1>9, Zenon DEF Statement

\* So does one that fails: only a savepoint's overlay goes.
LEMMA FailInStep == ASSUME NEW b, InStep(b) PROVE InStep(FailStatement(b))
<1>0. PICK k, n, o : b = Rec(k, n, o) /\ InStepFields(k, n, o)
  BY InStepRec
<1> n \in Nat /\ o \in Nat
  BY <1>0 DEF InStepFields
<1>1. CASE k = "Idle"
  <2>1. FailStatement(b) = Rec(k, n, 0)
    BY <1>0, <1>1, FailRec
  <2>2. InStepFields(k, n, 0)
    BY <1>0, <1>1 DEF InStepFields
  <2> QED
    BY <2>1, <2>2, RecInStep
<1>2. CASE k = "InBlock" /\ n = 0
  <2>1. FailStatement(b) = Rec("Aborted", n, o)
    BY <1>0, <1>2, FailRec
  <2>2. InStepFields("Aborted", n, o)
    BY <1>0, <1>2 DEF InStepFields
  <2> QED
    BY <2>1, <2>2, RecInStep
<1>3. CASE k = "InBlock" /\ n > 0
  <2>1. o > 1
    BY <1>0, <1>3 DEF InStepFields
  <2>2. FailStatement(b) = Rec("SubAborted", n, o - 1)
    BY <1>0, <1>3, <2>1, FailRec, Zenon
  <2>3. InStepFields("SubAborted", n, o - 1)
    BY <1>0, <1>3, <2>1 DEF InStepFields
  <2> QED
    BY <2>2, <2>3, RecInStep
<1>4. CASE k \in {"Aborted", "SubAborted"}
  BY <1>0, <1>4, FailRec, Zenon
<1> QED
  BY <1>0, <1>1, <1>2, <1>3, <1>4 DEF InStepFields

\* begin_copy adds an overlay, and one below it where there is none.
LEMMA BeginInCopy == ASSUME NEW b, InStep(b), Succeeds("copy", b) PROVE InCopy(Carried("copy", b))
<1>0. PICK k, n, o : b = Rec(k, n, o) /\ InStepFields(k, n, o)
  BY InStepRec
<1>1. k \in {"Idle", "InBlock"}
  BY <1>0 DEF Succeeds, Rec
<1>2. n \in Nat /\ o \in Nat
  BY <1>0 DEF InStepFields
<1>3. Carried("copy", b) = Rec(k, n, IF o = 0 THEN 2 ELSE o + 1)
  BY <1>0, <1>2, CopyRec
<1>4. InCopyFields(k, n, IF o = 0 THEN 2 ELSE o + 1)
  BY <1>0, <1>1 DEF InStepFields, InCopyFields
<1> QED
  BY <1>3, <1>4, RecInCopy

\* abort_copy takes away what begin_copy added, in a block and outside.
LEMMA AbortCopyInStep == ASSUME NEW b, InCopy(b) PROVE InStep(AbortActiveCopy(b))
<1>0. PICK k, n, o : b = Rec(k, n, o) /\ InCopyFields(k, n, o)
  BY InCopyRec
<1>1. n \in Nat /\ o \in Nat /\ o > 1 /\ o - 1 \in Nat
  BY <1>0 DEF InCopyFields
<1>2. Pop(b) = Rec(k, n, o - 1)
  BY <1>0, <1>1, PopRec
<1>3. CASE k = "Idle"
  <2>1. AbortActiveCopy(b) = Rec(k, n, 0)
    <3>1. AbortIfImplicit(Rec(k, n, o - 1)) = Rec(k, n, 0)
      BY <1>1, <1>3, AbortRec
    <3> QED
      BY <1>2, <3>1 DEF AbortActiveCopy
  <2>2. InStepFields(k, n, 0)
    BY <1>0, <1>3 DEF InCopyFields, InStepFields
  <2> QED
    BY <2>1, <2>2, RecInStep
<1>4. CASE k # "Idle"
  <2>1. AbortActiveCopy(b) = Rec(k, n, o - 1)
    <3>1. AbortIfImplicit(Rec(k, n, o - 1)) = Rec(k, n, o - 1)
      BY <1>4, ImplicitInBlock
    <3> QED
      BY <1>2, <3>1 DEF AbortActiveCopy
  <2>2. InStepFields(k, n, o - 1)
    BY <1>0, <1>4 DEF InCopyFields, InStepFields
  <2> QED
    BY <2>1, <2>2, RecInStep
<1> QED
  BY <1>3, <1>4

\* When the command that inserts the rows has failed, its abort has taken the
\* overlay of the COPY for that of the savepoint, and abort_copy the other one.
LEMMA FailedCopyInStep == ASSUME NEW b, InCopy(b) PROVE InStep(AbortActiveCopy(FailStatement(b)))
<1>0. PICK k, n, o : b = Rec(k, n, o) /\ InCopyFields(k, n, o)
  BY InCopyRec
<1>1. n \in Nat /\ o \in Nat /\ o > 1 /\ o - 1 \in Nat
  BY <1>0 DEF InCopyFields
<1>2. CASE k = "Idle"
  <2>1. FailStatement(b) = Rec(k, n, 0)
    BY <1>0, <1>1, <1>2, FailRec
  <2>2. Pop(Rec(k, n, 0)) = Rec(k, n, 0)
    BY <1>1, PopRec
  <2>3. AbortIfImplicit(Rec(k, n, 0)) = Rec(k, n, 0)
    BY <1>1, <1>2, AbortRec
  <2>4. InStepFields(k, n, 0)
    BY <1>0, <1>2 DEF InCopyFields, InStepFields
  <2> QED
    BY <2>1, <2>2, <2>3, <2>4, RecInStep DEF AbortActiveCopy
<1>3. CASE k = "InBlock" /\ n = 0
  <2>1. FailStatement(b) = Rec("Aborted", n, o)
    BY <1>0, <1>1, <1>3, FailRec
  <2>2. Pop(Rec("Aborted", n, o)) = Rec("Aborted", n, o - 1)
    BY <1>1, PopRec
  <2>3. AbortIfImplicit(Rec("Aborted", n, o - 1)) = Rec("Aborted", n, o - 1)
    BY <1>1, AbortRec, Zenon
  <2>4. InStepFields("Aborted", n, o - 1)
    BY <1>0, <1>3 DEF InCopyFields, InStepFields
  <2> QED
    BY <2>1, <2>2, <2>3, <2>4, RecInStep DEF AbortActiveCopy
<1>4. CASE k = "InBlock" /\ n > 0
  <2> DEFINE m == o - 1
  <2>1. m \in Nat /\ m > 1 /\ m - 1 \in Nat
    BY <1>0, <1>4 DEF InCopyFields
  <2>2. FailStatement(b) = Rec("SubAborted", n, m)
    BY <1>0, <1>1, <1>4, FailRec, Zenon
  <2>3. InStepFields("SubAborted", n, m - 1)
    BY <1>0, <1>4 DEF InCopyFields, InStepFields
  <2> HIDE DEF m
  <2>4. Pop(Rec("SubAborted", n, m)) = Rec("SubAborted", n, m - 1)
    BY <1>1, <2>1, PopRec
  <2>5. AbortIfImplicit(Rec("SubAborted", n, m - 1)) = Rec("SubAborted", n, m - 1)
    BY <1>1, <2>1, AbortRec
  <2> QED
    BY <2>2, <2>3, <2>4, <2>5, RecInStep DEF AbortActiveCopy
<1> QED
  BY <1>0, <1>2, <1>3, <1>4 DEF InCopyFields

\* finish_copy does the same, whether the COPY wrote rows or not.
LEMMA FinishCopyInStep ==
  ASSUME NEW b, InCopy(b), NEW no_rows \in BOOLEAN
  PROVE  InStep(CommitIfImplicit(Pop(CommitIfImplicit(b, no_rows)), TRUE))
<1>0. PICK k, n, o : b = Rec(k, n, o) /\ InCopyFields(k, n, o)
  BY InCopyRec
<1>1. n \in Nat /\ o \in Nat /\ o > 1 /\ o - 1 \in Nat
  BY <1>0 DEF InCopyFields
<1>2. CASE k = "Idle"
  <2>1. n = 0 /\ o = 2
    BY <1>0, <1>2 DEF InCopyFields
  <2>2. CommitIfImplicit(b, no_rows) \in {Rec(k, 0, 0), Rec(k, 0, 1)}
    <3>1. b = Rec(k, 0, 2)
      BY <1>0, <2>1
    <3>2. CommitIfImplicit(Rec(k, 0, 2), TRUE) = Rec(k, 0, 1)
      BY <1>2 DEF CommitIfImplicit, Rec
    <3>3. CommitIfImplicit(Rec(k, 0, 2), FALSE) = Rec(k, 0, 0)
      BY <1>2 DEF CommitIfImplicit, Rec
    <3> QED
      BY <3>1, <3>2, <3>3, Zenon
  <2>3. Pop(Rec(k, 0, 0)) = Rec(k, 0, 0) /\ Pop(Rec(k, 0, 1)) = Rec(k, 0, 1)
    BY PopRec
  <2>4. CommitIfImplicit(Rec(k, 0, 0), TRUE) = Rec(k, 0, 0)
    BY CommitRec, Zenon
  <2>5. CommitIfImplicit(Rec(k, 0, 1), TRUE) = Rec(k, 0, 0)
    BY <1>2 DEF CommitIfImplicit, Rec
  <2>6. InStepFields(k, 0, 0)
    BY <1>2 DEF InStepFields
  <2>7. CommitIfImplicit(Pop(CommitIfImplicit(b, no_rows)), TRUE) = Rec(k, 0, 0)
    <3>1. CASE CommitIfImplicit(b, no_rows) = Rec(k, 0, 0)
      BY <2>3, <2>4, <3>1, Zenon
    <3>2. CASE CommitIfImplicit(b, no_rows) = Rec(k, 0, 1)
      BY <2>3, <2>5, <3>2, Zenon
    <3> QED
      BY <2>2, <3>1, <3>2, Zenon
  <2> QED
    BY <2>6, <2>7, RecInStep, Zenon
<1>3. CASE k # "Idle"
  <2>1. CommitIfImplicit(b, no_rows) = b
    BY <1>0, <1>3, ImplicitInBlock
  <2>2. Pop(b) = Rec(k, n, o - 1)
    BY <1>0, <1>1, PopRec
  <2>3. CommitIfImplicit(Rec(k, n, o - 1), TRUE) = Rec(k, n, o - 1)
    BY <1>3, ImplicitInBlock, Zenon
  <2>4. InStepFields(k, n, o - 1)
    BY <1>0, <1>3 DEF InCopyFields, InStepFields
  <2>5. CommitIfImplicit(Pop(CommitIfImplicit(b, no_rows)), TRUE) = Rec(k, n, o - 1)
    BY <2>1, <2>2, <2>3, Zenon
  <2> QED
    BY <2>4, <2>5, RecInStep, Zenon
<1> QED
  BY <1>2, <1>3, Zenon

-----------------------------------------------------------------------------
(* The connection *)

\* The COPY of the session and the state of the connection agree, the backend is
\* in step with them, and an extended COPY has no simple Query behind it: its
\* end, well or not, leaves the ReadyForQuery to Sync.
WireInv ==
  /\ conn \in {"ReadyForQuery", "Query", "CopyIn", "CopyDone", "AwaitingSync"}
  /\ extended \in BOOLEAN /\ owed \in BOOLEAN /\ copying \in BOOLEAN
  /\ todo \in Seq(Statement) /\ pending \in Seq(Statement)
  /\ CopyOnlyInCopyIn
  /\ copying => InCopy(backend)
  /\ ~copying => InStep(backend)
  /\ QueryAnswered
  /\ extended /\ conn \in {"CopyIn", "CopyDone"} => ~owed

\* No statements at all.
LEMMA EmptyBatch == <<>> \in Seq(Statement)
OBVIOUS

\* A new connection has no COPY, no block and no Query.
LEMMA InitWireInv == Init => WireInv
<1> SUFFICES ASSUME Init PROVE WireInv
  OBVIOUS
<1>1. backend = Rec("Idle", 0, 0) /\ InStepFields("Idle", 0, 0)
  BY DEF Init, Rec, InStepFields
<1>2. InStep(backend)
  BY <1>1, RecInStep
<1> QED
  BY <1>2, EmptyBatch, Zenon DEF Init, WireInv, CopyOnlyInCopyIn, QueryAnswered

\* A statement of a Query or of pending_simple, carried out, failed or a COPY.
LEMMA RunStatementWireInv == WireInv /\ RunStatement => WireInv'
<1> SUFFICES ASSUME WireInv, RunStatement PROVE WireInv'
  OBVIOUS
<1> DEFINE stmt == Head(todo)
<1> USE DEF WireInv, CopyOnlyInCopyIn, QueryAnswered
<1>0. conn \in {"Query", "CopyDone"} /\ todo # <<>>
  BY DEF RunStatement
<1>1. /\ ~copying /\ InStep(backend)
      /\ stmt \in Statement /\ Tail(todo) \in Seq(Statement)
  BY <1>0
<1>2. UNCHANGED owed
  BY DEF RunStatement
<1>3. todo' \in Seq(Statement) /\ pending' \in Seq(Statement)
  BY <1>1 DEF RunStatement
<1>4. CASE Succeeds(stmt, backend) /\ stmt = "copy"
  <2>1. /\ backend' = Carried("copy", backend) /\ copying' = TRUE
        /\ conn' = "CopyIn" /\ extended' = FALSE
    BY <1>4, Zenon DEF RunStatement
  <2>2. InCopy(Carried("copy", backend))
    BY <1>1, <1>4, BeginInCopy
  <2> QED
    BY <1>2, <1>3, <2>1, <2>2, Zenon
<1>5. CASE ~(Succeeds(stmt, backend) /\ stmt = "copy")
  <2>1. /\ backend' = IF Succeeds(stmt, backend) THEN Carried(stmt, backend)
                      ELSE FailStatement(backend)
        /\ copying' = FALSE /\ conn' = conn /\ extended' = extended
    BY <1>5 DEF RunStatement
  <2>2. ASSUME Succeeds(stmt, backend) PROVE InStep(Carried(stmt, backend))
    BY <1>1, <1>5, <2>2, CarriedInStep
  <2>3. InStep(FailStatement(backend))
    BY <1>1, FailInStep
  <2>4. InStep(backend')
    BY <2>1, <2>2, <2>3
  <2> QED
    BY <1>0, <1>2, <1>3, <2>1, <2>4, Zenon
<1> QED
  BY <1>4, <1>5

\* The end of a COPY: CopyFail, refused data, a failing command, CopyDone.
LEMMA EndCopyWireInv == WireInv /\ EndCopy => WireInv'
<1> SUFFICES ASSUME WireInv, EndCopy PROVE WireInv'
  OBVIOUS
<1> USE DEF WireInv, CopyOnlyInCopyIn, QueryAnswered
<1>0. conn = "CopyIn"
  BY Zenon DEF EndCopy, OnCopyFail, OnCopyDoneError, OnCopyDone
<1>1. copying /\ InCopy(backend)
  BY <1>0
<1>2. ASSUME HandleError(extended), copying' = FALSE, UNCHANGED pending, InStep(backend')
      PROVE  WireInv'
  <2>1. todo' \in Seq(Statement) /\ pending' \in Seq(Statement)
    BY <1>2, EmptyBatch DEF HandleError
  <2>2. CASE extended
    BY <1>0, <1>2, <2>1, <2>2, Zenon DEF HandleError
  <2>3. CASE ~extended
    BY <1>0, <1>2, <2>1, <2>3, Zenon DEF HandleError, ReadyForQuery
  <2> QED
    BY <2>2, <2>3
<1>3. CASE OnCopyFail
  <2>1. InStep(backend')
    BY <1>1, <1>3, AbortCopyInStep DEF OnCopyFail
  <2> QED
    BY <1>2, <1>3, <2>1, Zenon DEF OnCopyFail
<1>4. ASSUME NEW in_backend \in BOOLEAN, OnCopyDoneError(in_backend) PROVE WireInv'
  <2>1. InStep(backend')
    <3>1. InStep(AbortActiveCopy(backend)) /\ InStep(AbortActiveCopy(FailStatement(backend)))
      BY <1>1, AbortCopyInStep, FailedCopyInStep
    <3>2. backend' = AbortActiveCopy(IF in_backend THEN FailStatement(backend) ELSE backend)
      BY <1>4 DEF OnCopyDoneError
    <3>3. CASE in_backend
      BY <3>1, <3>2, <3>3
    <3>4. CASE ~in_backend
      BY <3>1, <3>2, <3>4
    <3> QED
      BY <3>3, <3>4
  <2> QED
    BY <1>2, <1>4, <2>1, Zenon DEF OnCopyDoneError
<1>5. ASSUME NEW no_rows \in BOOLEAN, OnCopyDone(no_rows) PROVE WireInv'
  <2>1. InStep(backend')
    BY <1>1, <1>5, FinishCopyInStep, Zenon DEF OnCopyDone
  <2> QED
    BY <1>0, <1>5, <2>1, EmptyBatch, Zenon DEF OnCopyDone
<1> QED
  BY <1>3, <1>4, <1>5 DEF EndCopy

\* A statement of the extended protocol.
LEMMA ExecuteWireInv == ASSUME NEW stmt \in Statement PROVE WireInv /\ Execute(stmt) => WireInv'
<1> SUFFICES ASSUME WireInv, Execute(stmt) PROVE WireInv'
  OBVIOUS
<1> USE DEF WireInv, CopyOnlyInCopyIn, QueryAnswered
<1>1. conn = "ReadyForQuery" /\ ~copying /\ InStep(backend) /\ ~owed
  BY DEF Execute
<1>2. UNCHANGED <<owed, todo, pending>>
  BY DEF Execute
<1>3. CASE Succeeds(stmt, backend) /\ stmt = "copy"
  <2>1. backend' = Carried("copy", backend) /\ copying' = TRUE /\ conn' = "CopyIn" /\ extended' = TRUE
    BY <1>3, Zenon DEF Execute
  <2>2. InCopy(Carried("copy", backend))
    BY <1>1, <1>3, BeginInCopy
  <2> QED
    BY <1>1, <1>2, <2>1, <2>2
<1>4. CASE ~(Succeeds(stmt, backend) /\ stmt = "copy")
  <2>1. /\ backend' = IF Succeeds(stmt, backend) THEN Carried(stmt, backend)
                      ELSE FailStatement(backend)
        /\ copying' = FALSE /\ conn' \in {"ReadyForQuery", "AwaitingSync"} /\ extended' = FALSE
    BY <1>1, <1>4 DEF Execute
  <2>2. ASSUME Succeeds(stmt, backend) PROVE InStep(Carried(stmt, backend))
    BY <1>1, <1>4, <2>2, CarriedInStep
  <2>3. InStep(FailStatement(backend))
    BY <1>1, FailInStep
  <2>4. InStep(backend')
    BY <2>1, <2>2, <2>3
  <2> QED
    BY <1>1, <1>2, <2>1, <2>4, Zenon
<1> QED
  BY <1>3, <1>4

\* Every message and every statement keeps the invariant.
LEMMA NextWireInv == WireInv /\ [Next]_vars => WireInv'
<1> SUFFICES ASSUME WireInv, [Next]_vars PROVE WireInv'
  OBVIOUS
<1> USE DEF WireInv, CopyOnlyInCopyIn, QueryAnswered
<1>1. ASSUME NEW batch \in Batch, Query(batch) PROVE WireInv'
  <2>1. batch \in Seq(Statement)
    BY WireAssumption DEF Batch
  <2> QED
    BY <1>1, <2>1 DEF Query
<1>2. CASE EndQuery
  BY <1>2, Zenon DEF EndQuery, ReadyForQuery
<1>3. CASE EndCopyDone
  BY <1>3, Zenon DEF EndCopyDone, ReadyForQuery
<1>4. CASE Sync
  BY <1>4, Zenon DEF Sync, ReadyForQuery
<1>5. CASE UNCHANGED vars
  BY <1>5 DEF vars, wireVars
<1> QED
  BY <1>1, <1>2, <1>3, <1>4, <1>5, RunStatementWireInv, EndCopyWireInv, ExecuteWireInv DEF Next

\* abort_active_copy and finish_active_copy never meet a session without a COPY,
\* and no message other than the COPY's own meets a session with one.
THEOREM CopyStateSound == Spec => []CopyOnlyInCopyIn
<1>1. WireInv => CopyOnlyInCopyIn
  BY DEF WireInv
<1> QED
  BY <1>1, InitWireInv, NextWireInv, PTL DEF Spec

\* However deep the savepoints and however a COPY ends, the overlays of the
\* storage engine follow PostgreSQL's nesting level.
THEOREM OverlaysFollowBlock == Spec => []OverlaysMatchBlock
<1>1. WireInv => OverlaysMatchBlock
  <2> SUFFICES ASSUME WireInv PROVE OverlaysMatchBlock
    OBVIOUS
  <2>1. CASE copying
    BY <2>1 DEF WireInv, InCopy, BlockOK, OverlaysMatchBlock
  <2>2. CASE ~copying
    BY <2>2 DEF WireInv, InStep, BlockOK, OverlaysMatchBlock
  <2> QED
    BY <2>1, <2>2
<1> QED
  BY <1>1, InitWireInv, NextWireInv, PTL DEF Spec

\* No simple Query is forgotten: process_unix_error waits for a Sync only after
\* an extended COPY, and that has no Query behind it.
THEOREM NoQueryForgotten == Spec => []QueryAnswered
<1>1. WireInv => QueryAnswered
  BY DEF WireInv
<1> QED
  BY <1>1, InitWireInv, NextWireInv, PTL DEF Spec
=============================================================================
