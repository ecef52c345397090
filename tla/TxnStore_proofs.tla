---------------------------- MODULE TxnStore_proofs ----------------------------
(***************************************************************************)
(* What the contract of TxnStore guarantees, for any sets of sessions and  *)
(* row versions and any nesting of savepoints.  The invariant talks about  *)
(* the frames of a session as a set: every action either drops, copies or  *)
(* adds a frame.                                                           *)
(***************************************************************************)
EXTENDS TxnStore, TLAPS, SequenceTheorems

Frames(s) == {txn[s][i] : i \in 1..Len(txn[s])}

\* The frames and the committed rows name written rows only, and a row descends
\* from a written row.
Written == /\ committed \subseteq used
           /\ \A s \in Session : \A f \in Frames(s) : f.ins \subseteq used
           /\ \A r \in used : origin[r] \in used
           /\ \A r \in Row \ used : origin[r] = r

\* What a session inserts is its own.
Private == /\ \A s \in Session : \A f \in Frames(s) : f.ins \cap committed = {}
           /\ \A s, t \in Session : s # t =>
                \A f \in Frames(s), g \in Frames(t) : f.ins \cap g.ins = {}

\* Versions of one row: one is committed at most, one is left in a frame at
\* most, a frame with a version of a committed row has removed the committed
\* one, and two sessions never have versions of the same row.
Single ==
  /\ \A a, b \in committed : origin[a] = origin[b] => a = b
  /\ \A s \in Session : \A f \in Frames(s) : \A a, b \in f.ins \ f.del :
       origin[a] = origin[b] => a = b
  /\ \A s \in Session : \A f \in Frames(s) : \A a \in f.ins, c \in committed :
       origin[a] = origin[c] => c \in f.del
  /\ \A s, t \in Session : s # t =>
       \A f \in Frames(s), g \in Frames(t) : \A a \in f.ins, b \in g.ins : origin[a] # origin[b]

\* A later frame has removed everything that an earlier one has.
Nested == \A s \in Session : \A i, j \in 1..Len(txn[s]) :
            i <= j => txn[s][i].del \subseteq txn[s][j].del

IInv == TypeOK /\ Written /\ Private /\ Single /\ Nested

\* Gone, in terms of the frames; and the step that keeps what is gone so.
Vanished(r) == /\ r \in used \ committed
               /\ \A s \in Session : \A f \in Frames(s) : r \notin f.ins

StaysVanished == \A r \in Row : Vanished(r) => Vanished(r)'

-----------------------------------------------------------------------------
(* Frames *)

\* Frames are frames, and the last one is among them.
LEMMA FramesType ==
  ASSUME TypeOK, NEW s \in Session
  PROVE  /\ Frames(s) \subseteq Frame
         /\ Len(txn[s]) \in Nat
         /\ \A i \in 1..Len(txn[s]) : txn[s][i] \in Frame
         /\ Open(s) => Len(txn[s]) \in 1..Len(txn[s]) /\ txn[s][Len(txn[s])] \in Frames(s)
<1>1. txn[s] \in Seq(Frame)
  BY DEF TypeOK
<1>2. /\ Len(txn[s]) \in Nat
      /\ \A i \in 1..Len(txn[s]) : txn[s][i] \in Frame
  BY <1>1
<1>3. txn[s] # <<>> => Len(txn[s]) \in Nat \ {0}
  BY <1>1, EmptySeq
<1> QED
  BY <1>2, <1>3 DEF Frames, Open

\* A function on an initial segment of the naturals is a sequence.
LEMMA FunctionIsSeq ==
  ASSUME NEW S, NEW n \in Nat, NEW f \in [1..n -> S]
  PROVE  f \in Seq(S) /\ Len(f) = n
<1>1. f \in Seq(S)
  BY SeqDef
<1>2. DOMAIN f = 1..Len(f) /\ Len(f) \in Nat
  BY <1>1
<1>3. DOMAIN f = 1..n
  OBVIOUS
<1> QED
  BY <1>1, <1>2, <1>3

\* Dropping or copying frames of s keeps the invariant: only the nesting has to
\* be shown.
LEMMA FramesFromOld ==
  ASSUME IInv, TypeOK', Nested', UNCHANGED <<committed, used, origin>>,
         \A t \in Session : Frames(t)' \subseteq Frames(t) \cup {EmptyFrame}
  PROVE  IInv' /\ StaysVanished
<1> USE DEF IInv
<1>1. Written'
  BY DEF Written, EmptyFrame
<1>2. Private'
  BY DEF Private, EmptyFrame
<1>3. Single'
  BY DEF Single, EmptyFrame
<1>4. StaysVanished
  BY DEF StaysVanished, Vanished, EmptyFrame
<1> QED
  BY <1>1, <1>2, <1>3, <1>4

\* What replacing the frames of one session does.
LEMMA OneTxnChanges ==
  ASSUME TypeOK, Nested, NEW s \in Session, NEW q \in Seq(Frame),
         txn' = [txn EXCEPT ![s] = q],
         \A i, j \in 1..Len(q) : i <= j => q[i].del \subseteq q[j].del
  PROVE  /\ txn' \in [Session -> Seq(Frame)]
         /\ Nested'
         /\ \A t \in Session \ {s} : Frames(t)' = Frames(t)
         /\ Frames(s)' = {q[i] : i \in 1..Len(q)}
<1>1. txn' \in [Session -> Seq(Frame)] /\ txn'[s] = q /\ \A t \in Session \ {s} : txn'[t] = txn[t]
  BY DEF TypeOK
<1>2. Nested'
  BY <1>1 DEF Nested
<1> QED
  BY <1>1, <1>2 DEF Frames

\* A write adds one frame at most: the last one with the new rows.
LEMMA WriteFrames ==
  ASSUME TypeOK, Nested, NEW s \in Session, NEW I \in SUBSET Row, NEW D \in SUBSET Row,
         txn' = Write(s, I, D)
  PROVE  /\ txn' \in [Session -> Seq(Frame)]
         /\ Nested'
         /\ \A t \in Session \ {s} : Frames(t)' = Frames(t)
         /\ Frames(s)' \subseteq Frames(s)
                \cup {[ins |-> Inserted(s) \cup I, del |-> Removed(s) \cup D]}
<1> DEFINE w == [ins |-> Inserted(s) \cup I, del |-> Removed(s) \cup D]
<1>1. txn[s] \in Seq(Frame)
  BY DEF TypeOK
<1>2. CASE Open(s)
  <2> DEFINE n == Len(txn[s])
             q == [txn[s] EXCEPT ![n] = w]
  <2>1. n \in 1..n /\ n \in Nat /\ \A i \in 1..n : txn[s][i] \in Frame
    BY <1>2, FramesType
  <2>2. w = [ins |-> txn[s][n].ins \cup I, del |-> txn[s][n].del \cup D] /\ w \in Frame
    BY <1>2, <2>1 DEF Inserted, Removed, Depth, Frame
  <2>3. txn' = [txn EXCEPT ![s] = q]
    BY <1>2, <2>2, Zenon DEF Write, Depth
  <2> HIDE DEF w
  <2>4. q \in Seq(Frame) /\ Len(q) = n /\ \A j \in 1..n : q[j] = IF j = n THEN w ELSE txn[s][j]
    BY <1>1, <2>1, <2>2, ExceptSeq
  <2> HIDE DEF q
  <2>5. \A i, j \in 1..n : i <= j => q[i].del \subseteq q[j].del
    BY <2>1, <2>2, <2>4 DEF Nested
  <2>6. {q[i] : i \in 1..n} \subseteq Frames(s) \cup {w}
    BY <2>4 DEF Frames
  <2>7. /\ txn' \in [Session -> Seq(Frame)]
        /\ Nested'
        /\ \A t \in Session \ {s} : Frames(t)' = Frames(t)
        /\ Frames(s)' = {q[i] : i \in 1..Len(q)}
    <3>1. q \in Seq(Frame) /\ \A i, j \in 1..Len(q) : i <= j => q[i].del \subseteq q[j].del
      BY <2>4, <2>5
    <3> HIDE DEF n
    <3> QED
      BY <2>3, <3>1, OneTxnChanges, Zenon
  <2> QED
    BY <2>4, <2>6, <2>7 DEF w
<1>3. CASE ~Open(s)
  <2> DEFINE q == <<w>>
  <2>1. w = [ins |-> I, del |-> D] /\ w \in Frame
    BY <1>3 DEF Inserted, Removed, Frame
  <2>2. txn' = [txn EXCEPT ![s] = q]
    BY <1>3, <2>1, Zenon DEF Write
  <2> HIDE DEF w
  <2>3. q \in Seq(Frame) /\ Len(q) = 1 /\ q[1] = w
    BY <2>1
  <2> HIDE DEF q
  <2>4. {q[i] : i \in 1..Len(q)} = {w}
    BY <2>3
  <2>5. \A i, j \in 1..Len(q) : i <= j => q[i].del \subseteq q[j].del
    BY <2>3
  <2> QED
    BY <2>2, <2>3, <2>4, <2>5, OneTxnChanges, ZenonT(30) DEF w
<1> QED
  BY <1>2, <1>3

\* The work of s so far is in its last frame.
LEMMA LastFrame ==
  ASSUME TypeOK, NEW s \in Session
  PROVE  \E f \in Frames(s) \cup {EmptyFrame} : f.ins = Inserted(s) /\ f.del = Removed(s)
<1>1. CASE Open(s)
  BY <1>1, FramesType DEF Inserted, Removed, Depth
<1>2. CASE ~Open(s)
  <2>1. EmptyFrame.ins = Inserted(s) /\ EmptyFrame.del = Removed(s)
    BY <1>2 DEF Inserted, Removed, EmptyFrame
  <2> QED
    BY <2>1
<1> QED
  BY <1>1, <1>2

-----------------------------------------------------------------------------
(* Actions *)

\* DELETE and TRUNCATE only add to what a session has removed.
LEMMA RemoveInv ==
  ASSUME IInv, NEW s \in Session, NEW D \in SUBSET Row, txn' = Write(s, {}, D),
         UNCHANGED <<committed, used, origin>>
  PROVE  IInv' /\ StaysVanished
<1> USE DEF IInv
<1> PICK l \in Frames(s) \cup {EmptyFrame} : l.ins = Inserted(s) /\ l.del = Removed(s)
  BY LastFrame
<1> DEFINE w == [ins |-> Inserted(s) \cup {}, del |-> Removed(s) \cup D]
<1>1. /\ TypeOK' /\ Nested'
      /\ \A t \in Session \ {s} : Frames(t)' = Frames(t)
      /\ Frames(s)' \subseteq Frames(s) \cup {w}
  BY WriteFrames, Zenon DEF TypeOK
<1>2. w.ins = l.ins /\ l.del \subseteq w.del
  OBVIOUS
<1> HIDE DEF w
<1>3. Written'
  BY <1>1, <1>2 DEF Written, EmptyFrame
<1>4. Private'
  BY <1>1, <1>2 DEF Private, EmptyFrame
<1>5. Single'
  BY <1>1, <1>2 DEF Single, EmptyFrame
<1>6. StaysVanished
  BY <1>1, <1>2 DEF StaysVanished, Vanished, EmptyFrame
<1> QED
  BY <1>1, <1>3, <1>4, <1>5, <1>6

\* INSERT writes a row version that has never been written.
LEMMA InsertInv ==
  ASSUME IInv, NEW s \in Session, NEW n \in Row, Insert(s, n)
  PROVE  IInv' /\ StaysVanished
<1> USE DEF IInv
<1> PICK l \in Frames(s) \cup {EmptyFrame} : l.ins = Inserted(s) /\ l.del = Removed(s)
  BY LastFrame
<1> DEFINE w == [ins |-> Inserted(s) \cup {n}, del |-> Removed(s) \cup {}]
<1>1. /\ n \notin used /\ used' = used \cup {n}
      /\ committed' = committed /\ origin' = origin
      /\ txn' = Write(s, {n}, {})
  BY DEF Insert, DoInsert
<1>2. /\ TypeOK' /\ Nested'
      /\ \A t \in Session \ {s} : Frames(t)' = Frames(t)
      /\ Frames(s)' \subseteq Frames(s) \cup {w}
  <2>1. {n} \in SUBSET Row /\ {} \in SUBSET Row /\ TypeOK /\ Nested
    OBVIOUS
  <2>2. /\ txn' \in [Session -> Seq(Frame)]
        /\ Nested'
        /\ \A t \in Session \ {s} : Frames(t)' = Frames(t)
        /\ Frames(s)' \subseteq Frames(s) \cup {w}
    BY <1>1, <2>1, WriteFrames, Zenon
  <2>3. TypeOK'
    BY <1>1, <2>2, Zenon DEF TypeOK
  <2> QED
    BY <2>2, <2>3
<1>3. w.ins = l.ins \cup {n} /\ l.del = w.del
  OBVIOUS
<1> HIDE DEF w
<1>4. /\ origin[n] = n
      /\ n \notin committed /\ \A c \in committed : origin[c] # n
      /\ \A t \in Session : \A f \in Frames(t) : n \notin f.ins /\ \A a \in f.ins : origin[a] # n
  BY <1>1 DEF Written
<1>5. Written'
  BY <1>1, <1>2, <1>3, <1>4 DEF Written, EmptyFrame
<1>6. Private'
  BY <1>1, <1>2, <1>3, <1>4 DEF Private, EmptyFrame
<1>7. Single'
  BY <1>1, <1>2, <1>3, <1>4 DEF Single, EmptyFrame
<1>8. StaysVanished
  BY <1>1, <1>2, <1>3 DEF StaysVanished, Vanished, EmptyFrame
<1> QED
  BY <1>2, <1>5, <1>6, <1>7, <1>8

\* UPDATE removes a version that the session sees and nobody else has removed,
\* and writes its successor.
LEMMA UpdateInv ==
  ASSUME IInv, NEW s \in Session, NEW r \in Row, NEW n \in Row, Update(s, r, n)
  PROVE  IInv' /\ StaysVanished
<1> USE DEF IInv
<1> PICK l \in Frames(s) \cup {EmptyFrame} : l.ins = Inserted(s) /\ l.del = Removed(s)
  BY LastFrame
<1> DEFINE w == [ins |-> Inserted(s) \cup {n}, del |-> Removed(s) \cup {r}]
<1>1. /\ n \notin used /\ used' = used \cup {n}
      /\ committed' = committed /\ origin' = [origin EXCEPT ![n] = origin[r]]
      /\ txn' = Write(s, {n}, {r})
      /\ r \in View(s) /\ Unclaimed(s, r)
  BY DEF Update, DoUpdate
<1>2. /\ TypeOK' /\ Nested'
      /\ \A t \in Session \ {s} : Frames(t)' = Frames(t)
      /\ Frames(s)' \subseteq Frames(s) \cup {w}
  <2>1. {n} \in SUBSET Row /\ {r} \in SUBSET Row /\ TypeOK /\ Nested
    OBVIOUS
  <2>2. /\ txn' \in [Session -> Seq(Frame)]
        /\ Nested'
        /\ \A t \in Session \ {s} : Frames(t)' = Frames(t)
        /\ Frames(s)' \subseteq Frames(s) \cup {w}
    BY <1>1, <2>1, WriteFrames, Zenon
  <2>3. TypeOK'
    BY <1>1, <2>2, Zenon DEF TypeOK
  <2> QED
    BY <2>2, <2>3
<1>3. w.ins = l.ins \cup {n} /\ w.del = l.del \cup {r}
  OBVIOUS
<1> HIDE DEF w
<1>4. r \in (committed \cup l.ins) \ l.del
  <2>1. CASE Open(s)
    BY <1>1, <2>1, FramesType DEF View, ViewAt, Depth, Inserted, Removed
  <2>2. CASE ~Open(s)
    <3>1. Depth(s) = 0
      BY <2>2 DEF Open, Depth
    <3> QED
      BY <1>1, <2>2, <3>1 DEF View, ViewAt, Inserted, Removed
  <2> QED
    BY <2>1, <2>2
<1>5. \A t \in Session \ {s} : \A g \in Frames(t) : r \notin g.del
  <2> SUFFICES ASSUME NEW t \in Session \ {s}, NEW i \in 1..Len(txn[t])
               PROVE  r \notin txn[t][i].del
    BY DEF Frames
  <2>1. Len(txn[t]) \in Nat /\ Open(t)
    BY FramesType DEF Open
  <2>2. Len(txn[t]) \in 1..Len(txn[t]) /\ i <= Len(txn[t])
    BY <2>1
  <2>3. txn[t][i].del \subseteq txn[t][Len(txn[t])].del
    BY <2>2 DEF Nested
  <2> QED
    BY <1>1, <2>1, <2>3 DEF Unclaimed, Removed, Depth
<1>6. /\ r \in used /\ n # r
      /\ \A a \in used : origin'[a] = origin[a]
      /\ origin'[n] = origin[r] /\ origin[r] \in used
      /\ \A a \in Row \ used : a # n => origin'[a] = a
  BY <1>1, <1>4 DEF Written, TypeOK, EmptyFrame
<1>7. \A t \in Session \ {s} : \A g \in Frames(t) : \A b \in g.ins : origin[b] # origin[r]
  BY <1>4, <1>5 DEF Single, EmptyFrame
<1>8. \A c \in committed : origin[c] = origin[r] => c \in w.del
  BY <1>3, <1>4 DEF Single, EmptyFrame
<1>9. \A a \in l.ins \ w.del : origin[a] # origin[r]
  BY <1>3, <1>4 DEF Single, EmptyFrame
<1>10. /\ committed \subseteq used /\ l.ins \subseteq used
       /\ \A t \in Session : \A f \in Frames(t) : f.ins \subseteq used
  BY DEF Written, EmptyFrame
<1>11. Written'
  <2>1. committed' \subseteq used' /\ \A t \in Session : \A f \in Frames(t)' : f.ins \subseteq used'
    BY <1>1, <1>2, <1>3, <1>10
  <2>2. \A a \in used' : origin'[a] \in used'
    BY <1>1, <1>6 DEF Written
  <2>3. \A a \in Row \ used' : origin'[a] = a
    BY <1>1, <1>6
  <2> QED
    BY <2>1, <2>2, <2>3 DEF Written
<1>12. Private'
  BY <1>1, <1>2, <1>3, <1>10 DEF Private, EmptyFrame
<1>13. Single'
  <2>1. \A a, b \in committed' : origin'[a] = origin'[b] => a = b
    BY <1>1, <1>6, <1>10 DEF Single
  <2>2. \A t \in Session : \A f \in Frames(t)' : \A a, b \in f.ins \ f.del :
          origin'[a] = origin'[b] => a = b
    BY <1>1, <1>2, <1>3, <1>6, <1>9, <1>10 DEF Single, EmptyFrame
  <2>3. \A t \in Session : \A f \in Frames(t)' : \A a \in f.ins, c \in committed' :
          origin'[a] = origin'[c] => c \in f.del
    BY <1>1, <1>2, <1>3, <1>6, <1>8, <1>10 DEF Single, EmptyFrame
  <2>4. \A t, u \in Session : t # u =>
          \A f \in Frames(t)', g \in Frames(u)' : \A a \in f.ins, b \in g.ins :
            origin'[a] # origin'[b]
    BY <1>1, <1>2, <1>3, <1>6, <1>7, <1>10 DEF Single, EmptyFrame
  <2> QED
    BY <2>1, <2>2, <2>3, <2>4 DEF Single
<1>14. StaysVanished
  BY <1>1, <1>2, <1>3, SMTT(20) DEF StaysVanished, Vanished, EmptyFrame
<1> QED
  BY <1>2, <1>11, <1>12, <1>13, <1>14

\* Dropping and copying frames in an order that stays nested.
LEMMA FramesKept ==
  ASSUME IInv, NEW s \in Session, NEW q \in Seq(Frame),
         txn' = [txn EXCEPT ![s] = q], UNCHANGED <<committed, used, origin>>,
         \A i \in 1..Len(q) : q[i] \in Frames(s) \cup {EmptyFrame},
         \A i, j \in 1..Len(q) : i <= j => q[i].del \subseteq q[j].del
  PROVE  IInv' /\ StaysVanished
<1>1. TypeOK /\ Nested
  BY DEF IInv
<1>2. /\ txn' \in [Session -> Seq(Frame)]
      /\ Nested'
      /\ \A t \in Session \ {s} : Frames(t)' = Frames(t)
      /\ Frames(s)' = {q[i] : i \in 1..Len(q)}
  BY <1>1, OneTxnChanges, Zenon
<1>3. TypeOK'
  BY <1>1, <1>2 DEF TypeOK
<1>4. \A t \in Session : Frames(t)' \subseteq Frames(t) \cup {EmptyFrame}
  BY <1>2
<1> QED
  BY <1>2, <1>3, <1>4, FramesFromOld

\* BEGIN opens one empty frame.
LEMMA BeginInv ==
  ASSUME IInv, NEW s \in Session, Begin(s)
  PROVE  IInv' /\ StaysVanished
<1> DEFINE q == <<EmptyFrame>>
<1>1. q \in Seq(Frame) /\ Len(q) = 1 /\ q[1] = EmptyFrame
  BY DEF EmptyFrame, Frame
<1>2. txn' = [txn EXCEPT ![s] = q] /\ UNCHANGED <<committed, used, origin>>
  BY DEF Begin, DoBegin
<1> HIDE DEF q
<1>3. /\ \A i \in 1..Len(q) : q[i] \in Frames(s) \cup {EmptyFrame}
      /\ \A i, j \in 1..Len(q) : i <= j => q[i].del \subseteq q[j].del
  BY <1>1
<1> QED
  BY <1>1, <1>2, <1>3, FramesKept, Zenon

\* ROLLBACK leaves no frame.
LEMMA AbortInv ==
  ASSUME IInv, NEW s \in Session, Abort(s)
  PROVE  IInv' /\ StaysVanished
<1> DEFINE q == <<>>
<1>1. q \in Seq(Frame) /\ Len(q) = 0
  OBVIOUS
<1>2. txn' = [txn EXCEPT ![s] = q] /\ UNCHANGED <<committed, used, origin>>
  BY DEF Abort, DoAbort
<1> HIDE DEF q
<1>3. /\ \A i \in 1..Len(q) : q[i] \in Frames(s) \cup {EmptyFrame}
      /\ \A i, j \in 1..Len(q) : i <= j => q[i].del \subseteq q[j].del
  BY <1>1
<1> QED
  BY <1>1, <1>2, <1>3, FramesKept, Zenon

\* SAVEPOINT copies the last frame.
LEMMA SavepointInv ==
  ASSUME IInv, NEW s \in Session, Savepoint(s)
  PROVE  IInv' /\ StaysVanished
<1> DEFINE m == Len(txn[s])
           q == Append(txn[s], txn[s][m])
<1>1. Open(s) /\ TypeOK /\ txn[s] \in Seq(Frame)
  BY DEF Savepoint, IInv, TypeOK
<1>2. m \in 1..m /\ m \in Nat /\ \A i \in 1..m : txn[s][i] \in Frame /\ txn[s][i] \in Frames(s)
  BY <1>1, FramesType DEF Frames
<1>3. txn' = [txn EXCEPT ![s] = q] /\ UNCHANGED <<committed, used, origin>>
  BY DEF Savepoint, DoSavepoint
<1>4. q \in Seq(Frame) /\ Len(q) = m + 1
      /\ \A i \in 1..(m + 1) : q[i] = IF i = m + 1 THEN txn[s][m] ELSE txn[s][i]
  BY <1>1, <1>2
<1> HIDE DEF q
<1>5. \A i \in 1..Len(q) : q[i] \in Frames(s) \cup {EmptyFrame}
  BY <1>2, <1>4, SMTT(20)
<1>6. \A i, j \in 1..Len(q) : i <= j => q[i].del \subseteq q[j].del
  <2>1. \A i, j \in 1..m : i <= j => txn[s][i].del \subseteq txn[s][j].del
    BY DEF IInv, Nested
  <2> HIDE DEF m
  <2> QED
    BY <1>2, <1>4, <2>1
<1> QED
  BY <1>3, <1>4, <1>5, <1>6, FramesKept, Zenon

\* An error in a savepoint drops the last frame.
LEMMA DropFrameInv ==
  ASSUME IInv, NEW s \in Session, DropFrame(s)
  PROVE  IInv' /\ StaysVanished
<1> DEFINE m == Len(txn[s])
           q == [i \in 1..(m - 1) |-> txn[s][i]]
<1>1. m \in Nat /\ m > 1 /\ \A i \in 1..m : txn[s][i] \in Frame /\ txn[s][i] \in Frames(s)
  BY FramesType DEF DropFrame, Depth, IInv, Frames
<1>2. txn' = [txn EXCEPT ![s] = q] /\ UNCHANGED <<committed, used, origin>>
  BY DEF DropFrame, DoDropFrame
<1>3. q \in [1..(m - 1) -> Frame] /\ m - 1 \in Nat
  BY <1>1
<1>4. \A i \in 1..(m - 1) : q[i] = txn[s][i]
  OBVIOUS
<1> HIDE DEF q
<1>5. q \in Seq(Frame) /\ Len(q) = m - 1
  BY <1>3, FunctionIsSeq
<1>6. \A i \in 1..Len(q) : q[i] \in Frames(s) \cup {EmptyFrame}
  BY <1>1, <1>4, <1>5
<1>7. \A i, j \in 1..Len(q) : i <= j => q[i].del \subseteq q[j].del
  <2>1. \A i, j \in 1..m : i <= j => txn[s][i].del \subseteq txn[s][j].del
    BY DEF IInv, Nested
  <2> HIDE DEF m
  <2> QED
    BY <1>1, <1>4, <1>5, <2>1
<1> QED
  BY <1>2, <1>5, <1>6, <1>7, FramesKept, Zenon

\* RELEASE n keeps the frames below n - 1 and puts the last one after them.
LEMMA ReleaseInv ==
  ASSUME IInv, NEW s \in Session, NEW n \in Nat, Release(s, n)
  PROVE  IInv' /\ StaysVanished
<1> DEFINE m == Len(txn[s])
           q == [i \in 1..(n - 1) |-> IF i = n - 1 THEN txn[s][m] ELSE txn[s][i]]
<1>1. /\ m \in Nat /\ n \in 2..m
      /\ \A i \in 1..m : txn[s][i] \in Frame /\ txn[s][i] \in Frames(s)
  BY FramesType DEF Release, Depth, IInv, Frames
<1>2. txn' = [txn EXCEPT ![s] = q] /\ UNCHANGED <<committed, used, origin>>
  BY DEF Release, DoRelease
<1>3. q \in [1..(n - 1) -> Frame] /\ n - 1 \in Nat
  BY <1>1
<1>4. \A i \in 1..(n - 1) : q[i] = IF i = n - 1 THEN txn[s][m] ELSE txn[s][i]
  OBVIOUS
<1> HIDE DEF q
<1>5. q \in Seq(Frame) /\ Len(q) = n - 1
  BY <1>3, FunctionIsSeq
<1>6. \A i \in 1..Len(q) : q[i] \in Frames(s) \cup {EmptyFrame}
  <2>1. m \in 1..m /\ \A i \in 1..(n - 1) : i # n - 1 => i \in 1..m
    BY <1>1
  <2>2. \A i \in 1..(n - 1) : q[i] \in Frames(s)
    BY <1>1, <1>4, <2>1, Zenon
  <2> QED
    BY <1>5, <2>2, Zenon
<1>7. \A i, j \in 1..Len(q) : i <= j => q[i].del \subseteq q[j].del
  <2>1. \A i, j \in 1..m : i <= j => txn[s][i].del \subseteq txn[s][j].del
    BY DEF IInv, Nested
  <2> HIDE DEF m
  <2> QED
    BY <1>1, <1>4, <1>5, <2>1
<1> QED
  BY <1>2, <1>5, <1>6, <1>7, FramesKept, Zenon

\* ROLLBACK TO n keeps the frames below n and copies the last of them.
LEMMA RollbackToInv ==
  ASSUME IInv, NEW s \in Session, NEW n \in Nat, RollbackTo(s, n)
  PROVE  IInv' /\ StaysVanished
<1> DEFINE m == Len(txn[s])
           q == [i \in 1..n |-> IF i = n THEN txn[s][n - 1] ELSE txn[s][i]]
<1>1. /\ m \in Nat /\ n \in 2..(m + 1)
      /\ \A i \in 1..m : txn[s][i] \in Frame /\ txn[s][i] \in Frames(s)
  BY FramesType DEF RollbackTo, Depth, IInv, Frames
<1>2. txn' = [txn EXCEPT ![s] = q] /\ UNCHANGED <<committed, used, origin>>
  BY DEF RollbackTo, DoRollbackTo
<1>3. q \in [1..n -> Frame]
  BY <1>1
<1>4. \A i \in 1..n : q[i] = IF i = n THEN txn[s][n - 1] ELSE txn[s][i]
  OBVIOUS
<1> HIDE DEF q
<1>5. q \in Seq(Frame) /\ Len(q) = n
  BY <1>3, FunctionIsSeq
<1>6. \A i \in 1..Len(q) : q[i] \in Frames(s) \cup {EmptyFrame}
  <2>1. n - 1 \in 1..m /\ \A i \in 1..n : i # n => i \in 1..m
    BY <1>1
  <2>2. \A i \in 1..n : q[i] \in Frames(s)
    BY <1>1, <1>4, <2>1, Zenon
  <2> QED
    BY <1>5, <2>2, Zenon
<1>7. \A i, j \in 1..Len(q) : i <= j => q[i].del \subseteq q[j].del
  <2>1. \A i, j \in 1..m : i <= j => txn[s][i].del \subseteq txn[s][j].del
    BY DEF IInv, Nested
  <2> HIDE DEF m
  <2> QED
    BY <1>1, <1>4, <1>5, <2>1, SMTT(20)
<1> QED
  BY <1>2, <1>5, <1>6, <1>7, FramesKept, Zenon

\* COMMIT makes the session's view the committed state and leaves no frame.
LEMMA CommitInv ==
  ASSUME IInv, NEW s \in Session, Commit(s)
  PROVE  IInv' /\ StaysVanished
<1> USE DEF IInv
<1> DEFINE l == txn[s][Len(txn[s])]
<1>1. /\ Open(s) /\ committed' = (committed \cup l.ins) \ l.del
      /\ used' = used /\ origin' = origin
      /\ l \in Frames(s) /\ l \in Frame
  <2>1. Open(s) /\ committed' = View(s) /\ used' = used /\ origin' = origin
    BY DEF Commit, DoCommit
  <2>2. Len(txn[s]) \in 1..Len(txn[s]) /\ l \in Frames(s) /\ l \in Frame
    BY <2>1, FramesType
  <2>3. View(s) = (committed \cup l.ins) \ l.del
    BY <2>2 DEF View, ViewAt, Depth
  <2> QED
    BY <2>1, <2>2, <2>3
<1>2. /\ txn' \in [Session -> Seq(Frame)] /\ Nested'
      /\ \A t \in Session \ {s} : Frames(t)' = Frames(t)
      /\ Frames(s)' = {}
  <2> DEFINE q == <<>>
  <2>1. q \in Seq(Frame) /\ Len(q) = 0
    OBVIOUS
  <2>2. txn' = [txn EXCEPT ![s] = q]
    BY DEF Commit, DoCommit
  <2> HIDE DEF q
  <2>3. \A i, j \in 1..Len(q) : i <= j => q[i].del \subseteq q[j].del
    BY <2>1
  <2>4. /\ txn' \in [Session -> Seq(Frame)]
        /\ Nested'
        /\ \A t \in Session \ {s} : Frames(t)' = Frames(t)
        /\ Frames(s)' = {q[i] : i \in 1..Len(q)}
    BY <2>1, <2>2, <2>3, OneTxnChanges, Zenon
  <2> QED
    BY <2>1, <2>4
<1> HIDE DEF l
<1>3. TypeOK'
  BY <1>1, <1>2, Zenon DEF TypeOK, Frame
<1>4. Written'
  BY <1>1, <1>2 DEF Written
<1>5. Private'
  BY <1>1, <1>2, SMTT(20) DEF Private
<1>6. Single'
  <2>1. \A a, b \in committed' : origin'[a] = origin'[b] => a = b
    BY <1>1 DEF Single
  <2>2. \A t \in Session : \A f \in Frames(t)' : \A a, b \in f.ins \ f.del :
          origin'[a] = origin'[b] => a = b
    BY <1>1, <1>2, SMTT(20) DEF Single
  <2>3. \A t \in Session : \A f \in Frames(t)' : \A a \in f.ins, c \in committed' :
          origin'[a] = origin'[c] => c \in f.del
    BY <1>1, <1>2 DEF Single
  <2>4. \A t, u \in Session : t # u =>
          \A f \in Frames(t)', g \in Frames(u)' : \A a \in f.ins, b \in g.ins :
            origin'[a] # origin'[b]
    BY <1>1, <1>2 DEF Single
  <2> QED
    BY <2>1, <2>2, <2>3, <2>4 DEF Single
<1>7. StaysVanished
  BY <1>1, <1>2 DEF StaysVanished, Vanished
<1> QED
  BY <1>2, <1>3, <1>4, <1>5, <1>6, <1>7, SMTT(20)

-----------------------------------------------------------------------------
(* Theorems *)

\* The invariant holds before anything is written.
LEMMA InitInv == Init => IInv
<1> SUFFICES ASSUME Init PROVE IInv
  OBVIOUS
<1>1. TypeOK
  BY DEF Init, TypeOK
<1>2. \A s \in Session : txn[s] = <<>>
  BY Zenon DEF Init
<1>3. \A s \in Session : 1..Len(txn[s]) = {}
  <2>1. Len(<<>>) = 0 /\ 1..0 = {}
    OBVIOUS
  <2> QED
    BY <1>2, <2>1, Zenon
<1>4. (\A s \in Session : Frames(s) = {}) /\ Nested
  BY <1>3 DEF Frames, Nested
<1> QED
  BY <1>1, <1>4 DEF Init, IInv, Written, Private, Single

\* Every step preserves the invariant and keeps what is gone so.
LEMMA NextInv == IInv /\ [Next]_vars => IInv' /\ StaysVanished
<1> SUFFICES ASSUME IInv, [Next]_vars PROVE IInv' /\ StaysVanished
  OBVIOUS
<1>1. CASE UNCHANGED vars
  <2>1. TypeOK' /\ Nested' /\ \A s \in Session : Frames(s)' = Frames(s)
    BY <1>1 DEF vars, IInv, TypeOK, Nested, Frames
  <2> QED
    BY <1>1, <2>1, FramesFromOld DEF vars
<1>2. CASE Next
  <2> PICK s \in Session :
        \/ Begin(s) \/ Clear(s) \/ Savepoint(s) \/ DropFrame(s) \/ Commit(s) \/ Abort(s)
        \/ \E n \in Row : Insert(s, n)
        \/ \E r \in Row : Delete(s, r)
        \/ \E r, n \in Row : Update(s, r, n)
        \/ \E n \in 2..(Depth(s) + 1) : Release(s, n) \/ RollbackTo(s, n)
    BY <1>2 DEF Next
  <2>1. CASE Clear(s)
    <3>1. View(s) \in SUBSET Row
      <4>1. TypeOK
        BY DEF IInv
      <4>2. Len(txn[s]) \in Nat /\ \A i \in 1..Len(txn[s]) : txn[s][i] \in Frame
        BY <4>1, FramesType, SMTT(20)
      <4>3. Len(txn[s]) # 0 => txn[s][Len(txn[s])] \in Frame
        BY <4>2
      <4> QED
        BY <4>1, <4>3 DEF TypeOK, View, ViewAt, Depth, Frame
    <3> QED
      BY <2>1, <3>1, RemoveInv, SMTT(20) DEF Clear, DoClear
  <2>2. ASSUME NEW r \in Row, Delete(s, r) PROVE IInv' /\ StaysVanished
    BY <2>2, RemoveInv DEF Delete, DoDelete
  <2>3. ASSUME NEW n \in 2..(Depth(s) + 1), Release(s, n) \/ RollbackTo(s, n) PROVE IInv' /\ StaysVanished
    <3>1. n \in Nat
      BY FramesType DEF Depth, IInv
    <3> QED
      BY <2>3, <3>1, ReleaseInv, RollbackToInv
  <2> QED
    BY <2>1, <2>2, <2>3, BeginInv, SavepointInv, DropFrameInv, CommitInv, AbortInv,
       InsertInv, UpdateInv, SMTT(20)
<1> QED
  BY <1>1, <1>2

\* The contract keeps the invariant.
LEMMA Invariance == Spec => []IInv
BY InitInv, NextInv, PTL DEF Spec

\* A view at any savepoint depth is the committed state or comes from a frame.
LEMMA ViewFromFrame ==
  ASSUME TypeOK, NEW s \in Session, NEW k \in 0..Depth(s)
  PROVE  \E f \in Frames(s) \cup {EmptyFrame} : ViewAt(s, k) = (committed \cup f.ins) \ f.del
<1>1. CASE k = 0
  <2>1. ViewAt(s, k) = (committed \cup EmptyFrame.ins) \ EmptyFrame.del
    BY <1>1 DEF ViewAt, EmptyFrame
  <2> QED
    BY <2>1
<1>2. CASE k # 0
  <2>1. k \in 1..Len(txn[s])
    BY <1>2, FramesType DEF Depth
  <2> QED
    BY <1>2, <2>1 DEF ViewAt, Frames
<1> QED
  BY <1>1, <1>2

\* The state of the contract has its type: every session holds a sequence of
\* frames, however its savepoints are nested.
THEOREM TypeCorrect == Spec => []TypeOK
BY Invariance, PTL DEF IInv

\* No session sees, at any savepoint depth, a row that another session has
\* inserted or updated and not committed.
THEOREM NeverDirty == Spec => []NoDirtyRead
<1>1. IInv => NoDirtyRead
  <2> SUFFICES ASSUME IInv, NEW s \in Session, NEW t \in Session, s # t,
                      NEW i \in 1..Depth(s), NEW j \in 0..Depth(t)
               PROVE  txn[s][i].ins \cap ViewAt(t, j) = {}
    BY DEF NoDirtyRead
  <2>1. txn[s][i] \in Frames(s)
    BY DEF Frames, Depth
  <2>2. PICK g \in Frames(t) \cup {EmptyFrame} : ViewAt(t, j) = (committed \cup g.ins) \ g.del
    BY ViewFromFrame DEF IInv
  <2> QED
    BY <2>1, <2>2 DEF IInv, Private, EmptyFrame
<1> QED
  BY <1>1, Invariance, PTL

\* No view, of any session at any savepoint depth, holds two versions of one row:
\* an UPDATE replaces a row whatever the other sessions do in between.
THEOREM UpdateReplaces == Spec => []OneVersionPerRow
<1>1. IInv => OneVersionPerRow
  <2> SUFFICES ASSUME IInv, NEW s \in Session, NEW k \in 0..Depth(s),
                      NEW a \in ViewAt(s, k), NEW b \in ViewAt(s, k), origin[a] = origin[b]
               PROVE  a = b
    BY DEF OneVersionPerRow
  <2>1. PICK f \in Frames(s) \cup {EmptyFrame} : ViewAt(s, k) = (committed \cup f.ins) \ f.del
    BY ViewFromFrame DEF IInv
  <2> QED
    BY <2>1 DEF IInv, Single, EmptyFrame
<1> QED
  BY <1>1, Invariance, PTL

\* A row version that was deleted, superseded or rolled back is never seen again:
\* no later COMMIT, ROLLBACK or ROLLBACK TO of any session brings it back.
THEOREM GoneStaysGone == Spec => NoResurrection
<1>1. \A r \in Row : /\ Gone(r) <=> Vanished(r)
                     /\ Gone(r)' <=> Vanished(r)'
  BY DEF Gone, Vanished, Frames, Depth
<1>2. IInv /\ [Next]_vars => [\A r \in Row : Gone(r) => Gone(r)']_vars
  BY <1>1, NextInv DEF StaysVanished
<1> QED
  BY <1>2, Invariance, PTL DEF Spec, NoResurrection
=============================================================================
