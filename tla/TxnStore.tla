------------------------------- MODULE TxnStore -------------------------------
(***************************************************************************)
(* What one table of the server promises its client sessions, with pages,  *)
(* tuple identifiers, redirects and locks left out: a set of committed row *)
(* versions and, for every session, the row versions its transaction has   *)
(* created and removed.  Storage2 and TableAm are the code; this module is *)
(* the contract they are compared with (spec/028, spec/034).               *)
(*                                                                         *)
(* A transaction is a sequence of frames, one for the block and one for    *)
(* each savepoint.  A frame holds everything the transaction has done up   *)
(* to and including that frame, so ROLLBACK TO just drops the last frame.  *)
(*                                                                         *)
(* Every action is a guard and an effect.  The effect is an operator of    *)
(* its own so that TableAmTxn can drive this state with the effects alone  *)
(* and leave the guards to be checked.                                     *)
(***************************************************************************)
EXTENDS Naturals, Sequences

CONSTANTS Session,      \* the client sessions
          Row           \* the row versions that can ever be written

VARIABLES committed,    \* row versions every new transaction sees
          txn,          \* txn[s]: the frames of session s, <<>> when it has none
          used,         \* row versions written so far (none is written twice)
          origin        \* origin[r]: the inserted version r descends from by updates

vars == <<committed, txn, used, origin>>

Frame == [ins : SUBSET Row, del : SUBSET Row]

EmptyFrame == [ins |-> {}, del |-> {}]

Open(s) == txn[s] # <<>>

Depth(s) == Len(txn[s])

\* What session s sees when its transaction is cut back to its first k frames.
ViewAt(s, k) == IF k = 0 THEN committed
                ELSE (committed \cup txn[s][k].ins) \ txn[s][k].del

View(s) == ViewAt(s, Depth(s))

\* The uncommitted work of session s.
Inserted(s) == IF Open(s) THEN txn[s][Depth(s)].ins ELSE {}
Removed(s) == IF Open(s) THEN txn[s][Depth(s)].del ELSE {}

TypeOK == /\ committed \in SUBSET Row
          /\ txn \in [Session -> Seq(Frame)]
          /\ used \in SUBSET Row
          /\ origin \in [Row -> Row]

Init == /\ committed = {}
        /\ txn = [s \in Session |-> <<>>]
        /\ used = {}
        /\ origin = [r \in Row |-> r]

-----------------------------------------------------------------------------
(* Effects *)

\* The transaction of s with the rows I added to and D removed in its last
\* frame; a statement outside a block opens a transaction of one frame.
Write(s, I, D) ==
  IF Open(s)
  THEN [txn EXCEPT ![s][Depth(s)] = [ins |-> @.ins \cup I, del |-> @.del \cup D]]
  ELSE [txn EXCEPT ![s] = << [ins |-> I, del |-> D] >>]

DoBegin(s) == /\ txn' = [txn EXCEPT ![s] = <<EmptyFrame>>]
              /\ UNCHANGED <<committed, used, origin>>

DoInsert(s, n) == /\ txn' = Write(s, {n}, {})
                  /\ used' = used \cup {n}
                  /\ UNCHANGED <<committed, origin>>

DoDelete(s, r) == /\ txn' = Write(s, {}, {r})
                  /\ UNCHANGED <<committed, used, origin>>

DoUpdate(s, r, n) == /\ txn' = Write(s, {n}, {r})
                     /\ used' = used \cup {n}
                     /\ origin' = [origin EXCEPT ![n] = origin[r]]
                     /\ UNCHANGED committed

DoClear(s) == /\ txn' = Write(s, {}, View(s))
              /\ UNCHANGED <<committed, used, origin>>

DoSavepoint(s) == /\ txn' = [txn EXCEPT ![s] = Append(@, @[Len(@)])]
                  /\ UNCHANGED <<committed, used, origin>>

\* RELEASE: the frames n and above are folded into the frame below them.
DoRelease(s, n) ==
  /\ txn' = [txn EXCEPT ![s] = [i \in 1..(n - 1) |-> IF i = n - 1 THEN @[Len(@)] ELSE @[i]]]
  /\ UNCHANGED <<committed, used, origin>>

\* An error in a savepoint takes its frame away ...
DoDropFrame(s) == /\ txn' = [txn EXCEPT ![s] = [i \in 1..(Len(@) - 1) |-> @[i]]]
                  /\ UNCHANGED <<committed, used, origin>>

\* ... and ROLLBACK TO starts frame n again from the frame below it.
DoRollbackTo(s, n) ==
  /\ txn' = [txn EXCEPT ![s] = [i \in 1..n |-> IF i = n THEN @[n - 1] ELSE @[i]]]
  /\ UNCHANGED <<committed, used, origin>>

DoCommit(s) == /\ committed' = View(s)
               /\ txn' = [txn EXCEPT ![s] = <<>>]
               /\ UNCHANGED <<used, origin>>

DoAbort(s) == /\ txn' = [txn EXCEPT ![s] = <<>>]
              /\ UNCHANGED <<committed, used, origin>>

-----------------------------------------------------------------------------
(* Actions *)

\* No other session has an uncommitted removal of r.
Unclaimed(s, r) == \A t \in Session \ {s} : r \notin Removed(t)

Begin(s) == ~Open(s) /\ DoBegin(s)

Insert(s, n) == n \notin used /\ DoInsert(s, n)

Delete(s, r) == r \in View(s) /\ Unclaimed(s, r) /\ DoDelete(s, r)

Update(s, r, n) == /\ r \in View(s) /\ Unclaimed(s, r) /\ n \notin used
                   /\ DoUpdate(s, r, n)

\* TRUNCATE waits for every other writer of the table.
Clear(s) == /\ \A t \in Session \ {s} : Inserted(t) = {} /\ Removed(t) = {}
            /\ DoClear(s)

Savepoint(s) == Open(s) /\ DoSavepoint(s)

Release(s, n) == n \in 2..Depth(s) /\ DoRelease(s, n)

DropFrame(s) == Depth(s) > 1 /\ DoDropFrame(s)

RollbackTo(s, n) == n \in 2..(Depth(s) + 1) /\ DoRollbackTo(s, n)

Commit(s) == Open(s) /\ DoCommit(s)

Abort(s) == Open(s) /\ DoAbort(s)

Next == \E s \in Session :
          \/ Begin(s)
          \/ \E n \in Row : Insert(s, n)
          \/ \E r \in Row : Delete(s, r)
          \/ \E r, n \in Row : Update(s, r, n)
          \/ Clear(s)
          \/ Savepoint(s)
          \/ DropFrame(s)
          \/ \E n \in 2..(Depth(s) + 1) : Release(s, n) \/ RollbackTo(s, n)
          \/ Commit(s)
          \/ Abort(s)

Spec == Init /\ [][Next]_vars

-----------------------------------------------------------------------------
(* Properties *)

\* Isolation (spec/034, "other sessions' uncommitted writes are invisible"):
\* nothing a session has written and not committed is in another session's
\* view, at any savepoint depth of either.
NoDirtyRead ==
  \A s, t \in Session : s # t =>
    \A i \in 1..Depth(s), j \in 0..Depth(t) : txn[s][i].ins \cap ViewAt(t, j) = {}

\* An UPDATE replaces a row, it never multiplies it (spec/028, "updates shadow
\* older row versions"): no view, committed or at any savepoint depth, holds
\* two versions that descend from the same inserted row.
OneVersionPerRow ==
  \A s \in Session : \A k \in 0..Depth(s) : \A a, b \in ViewAt(s, k) :
    origin[a] = origin[b] => a = b

\* What is gone stays gone (spec/028, "deleted rows are hidden"): a row version
\* that was written, is not committed and is in no open transaction - deleted,
\* superseded or rolled back - never becomes committed, whatever any session
\* still rolls back or commits.
Gone(r) == /\ r \in used \ committed
           /\ \A s \in Session : \A i \in 1..Depth(s) : r \notin txn[s][i].ins

NoResurrection == [][\A r \in Row : Gone(r) => Gone(r)']_vars
=============================================================================
