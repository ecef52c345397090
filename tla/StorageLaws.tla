----------------------------- MODULE StorageLaws -----------------------------
(***************************************************************************)
(* What each entry point of the storage engine does to the rows and to     *)
(* the levels of the session that calls it, as long as nobody truncates:   *)
(* all that the proofs about what a session reads need to know of it.      *)
(* They are stated as laws; Storage2_proofs shows that they hold.          *)
(***************************************************************************)
EXTENDS StorageInvariants

-----------------------------------------------------------------------------
(* Stacks as long as nobody truncates *)

\* The tuples a level has inserted are pending, and no two levels have inserted
\* the same; those it has invalidated are committed, or inserted by it or by a
\* level below; it redirects only what it has invalidated.
PlainStack(S, r) ==
  \A i \in DOMAIN S :
    /\ ~S[i].cleared
    /\ \A t \in S[i].ins : r.line[t].st = "Pending"
    /\ \A t \in S[i].inv : r.line[t].st \in {"Live", "Dead"} \/ t \in InsTo(S, i)
    /\ \A t \in Tid : S[i].upd[t] # NoTid \/ S[i].hot[t] # NoTid => t \in S[i].inv
    /\ \A j \in DOMAIN S : \A t \in S[i].ins : t \in S[j].ins => i = j

\* The overlay a row operation writes to.
TopOf(S) == IF S = <<>> THEN EmptyOverlay ELSE S[Len(S)]

\* Overlay o is p with the tuples A inserted and D invalidated by command c.
Writes(o, p, A, D, c) ==
  /\ o.ins = p.ins \cup A /\ o.inv = p.inv \cup D /\ o.cleared = p.cleared
  /\ \A t \in Tid : o.ins_cid[t] = IF t \in A THEN c ELSE p.ins_cid[t]
  /\ \A t \in Tid : o.inv_cid[t] = IF t \in D THEN c ELSE p.inv_cid[t]
  /\ \A t \in Tid : o.upd[t] # NoTid \/ o.hot[t] # NoTid
                      => p.upd[t] # NoTid \/ p.hot[t] # NoTid \/ t \in D

\* The levels of s up to k are as they were.
Keeps(s, k) == \A i \in 1..k : stack'[s][i] = stack[s][i]

\* No redirect is added to the committed ones.
NoNewRedirects == \A t \in Tid : /\ rel'.hot[t] # NoTid => rel.hot[t] # NoTid
                                 /\ rel'.upd[t] # NoTid => rel.upd[t] # NoTid

\* A row operation of s: its top level has inserted A, new lines of the pages, and
\* invalidated D.
Effect(s, A, D, c) ==
  /\ \E o \in SoundOverlay : Writes(o, TopOf(stack[s]), A, D, c) /\ stack'[s][Ensured(s)] = o
  /\ To(s, Ensured(s)) /\ Keeps(s, Ensured(s) - 1)
  /\ \A t \in Tid \ A : rel'.line[t] = rel.line[t]
  /\ \A t \in A : ~InUse(rel, t) /\ rel'.line[t].st = "Pending"
  /\ NoNewRedirects /\ row_count' = row_count

\* Some new line holds the row.
NewVersion(s, row, D, c) == \E n \in Tid : Effect(s, {n}, D, c) /\ rel'.line[n].row = row

\* The levels of s are cut back to k and come to d with empty ones.
CutTo(s, k, d) == /\ To(s, d) /\ Keeps(s, k)
                  /\ \A i \in (k + 1)..d : stack'[s][i] = EmptyOverlay

\* The levels from n up are folded into level n - 1.
FoldTo(s, n) ==
  /\ To(s, n - 1) /\ Keeps(s, n - 2)
  /\ LET S == stack[s]
         o == stack'[s][n - 1]
     IN  /\ ~o.cleared
         /\ o.ins = UNION {S[i].ins : i \in (n - 1)..Len(S)}
         /\ o.inv = UNION {S[i].inv : i \in (n - 1)..Len(S)}
         /\ \A t \in Tid : /\ o.hot[t] # NoTid => \E i \in (n - 1)..Len(S) : S[i].hot[t] # NoTid
                           /\ o.upd[t] # NoTid => \E i \in (n - 1)..Len(S) : S[i].upd[t] # NoTid
                           /\ o.ins_cid[t] = 0 \/ \E i \in (n - 1)..Len(S) : o.ins_cid[t] = S[i].ins_cid[t]
                           /\ o.inv_cid[t] = 0 \/ \E i \in (n - 1)..Len(S) : o.inv_cid[t] = S[i].inv_cid[t]

\* The tuples inserted by the levels of s from n up are dead.
Undone(s, n) ==
  /\ rel'.hot = rel.hot /\ rel'.upd = rel.upd
  /\ row_count' \in {row_count, Cardinality(LiveTids(rel'))}
  /\ \A t \in Tid :
       /\ rel'.line[t].row = rel.line[t].row
       /\ rel'.line[t].st = IF InUse(rel, t) /\ \E i \in n..Depth(s) : t \in stack[s][i].ins
                            THEN "Dead" ELSE rel.line[t].st

\* What s has inserted is live, what it has invalidated dead.
Committed(s) ==
  /\ row_count = Cardinality(LiveTids(rel)) => row_count' = Cardinality(LiveTids(rel'))
  /\ \A t \in Tid :
       /\ rel'.line[t].row = rel.line[t].row
       /\ rel'.line[t].st = IF t \in AllInv(stack[s]) THEN "Dead"
                            ELSE IF t \in AllIns(stack[s]) THEN "Live" ELSE rel.line[t].st
       /\ rel'.hot[t] # NoTid => rel.hot[t] # NoTid \/ \E i \in DOMAIN stack[s] : stack[s][i].hot[t] # NoTid
       /\ rel'.upd[t] # NoTid => rel.upd[t] # NoTid \/ \E i \in DOMAIN stack[s] : stack[s][i].upd[t] # NoTid

\* Committed redirects start only at dead lines.
RedirectsDead(r) == \A t \in Tid : r.upd[t] # NoTid \/ r.hot[t] # NoTid => r.line[t].st = "Dead"

\* What a scan returns, told from what the levels have inserted and invalidated.
SeeLaw ==
  \A S \in Seq(Overlay), t \in Tid : \A r, lim : PlainStack(S, r) =>
    (Visible(Deltas(S), r, t, lim) <=> /\ ~InvBefore(S, t, lim)
                                       /\ \/ r.line[t].st = "Live"
                                          \/ InsBefore(S, t, lim))

\* No redirect leads away from a tuple that is there and that the transaction has
\* not invalidated.
TargetLaw ==
  \A s \in Session, t \in Tid :
    RedirectsDead(rel) /\ PlainStack(stack[s], rel) /\ rel.line[t].st # "Dead"
      /\ t \notin AllInv(stack[s]) => Target(s, t) = t

\* Row operations.
RowLaws ==
  \A s \in Session, c \in Cid :
    /\ \A row \in Row : RelationInsert(s, row, c) => NewVersion(s, row, {}, c)
    /\ \A t \in Tid : RelationDelete(s, t, c) => Effect(s, {}, {Target(s, t)}, c)
    /\ \A t \in Tid, row \in Row : \A hot :
         RelationUpdate(s, t, row, hot, c) => NewVersion(s, row, {Target(s, t)}, c)
    /\ \A t \in Tid : RelationMiss(s, t) => rel'.line = rel.line /\ NoNewRedirects

\* Levels that come and go.
LevelLaws ==
  \A s \in Session :
    /\ XactBegin(s) => CutTo(s, Depth(s), Ensured(s))
    /\ SubxactBegin(s) => CutTo(s, Depth(s), Ensured(s) + 1)
    /\ PopTop(s) /\ stack[s] # <<>> => CutTo(s, Depth(s) - 1, Depth(s) - 1)
    /\ \A n \in 2..Depth(s) : SubxactCommit(s, n) /\ Uncleared(stack[s]) => FoldTo(s, n)
    /\ \A n \in 1..(Depth(s) + 1) : /\ SubxactAbort(s, n) => CutTo(s, n - 1, n - 1)
                                    /\ SubxactRestart(s, n) => CutTo(s, n - 1, n)

\* Commit and rollback.
EndLaws ==
  \A s \in Session :
    /\ CommitAll(s) /\ PlainStack(stack[s], rel) => Committed(s)
    /\ \A n \in Nat \ {0} : RollbackRelation(s, n) /\ Uncleared(stack[s]) => Undone(s, n)

=============================================================================
