-------------------------- MODULE TransactionOverlay --------------------------
(***************************************************************************)
(* The private side of a transaction: fastpg-storage2's transaction.rs.    *)
(* A session keeps a stack of overlays, the bottom one for the transaction *)
(* and one above it for each savepoint.  An overlay names the tuples its   *)
(* level inserted and invalidated, the redirects its updates made, what is *)
(* needed to undo them, and the relation a TRUNCATE replaced.              *)
(*                                                                         *)
(* In the default build a relation has no unique index the storage engine  *)
(* knows of, so inserted tuples are pending lines of the shared relation;  *)
(* overlay-private pending pages do not occur and are left out.            *)
(***************************************************************************)
EXTENDS RelationStorage, Sequences

CONSTANT MaxCid           \* bound: command ids 0 .. MaxCid in a transaction

ASSUME MaxCidAssumption == MaxCid \in Nat

Cid == 0..MaxCid

\* A snapshot without a command id sees every command of its own transaction.
AnyCid == MaxCid + 1

\* Entries absent from inserted_cids / invalidated_metadata read as 0
\* (unwrap_or_default).  snapshot is the replaced relation when cleared.
Overlay == [ins : SUBSET Tid, inv : SUBSET Tid,
            ins_cid : [Tid -> Cid], inv_cid : [Tid -> Cid],
            hot : Redirects, upd : Redirects,
            chk : Checkpoints, cleared : BOOLEAN, snapshot : Relation]

NoCids == [t \in Tid |-> 0]

EmptyOverlay == [ins |-> {}, inv |-> {}, ins_cid |-> NoCids, inv_cid |-> NoCids,
                 hot |-> NoRedirects, upd |-> NoRedirects,
                 chk |-> [b \in Block |-> NoCheckpoint],
                 cleared |-> FALSE, snapshot |-> EmptyRelation]

HasVisibilityDeltas(S) == \E i \in DOMAIN S : S[i].ins # {} \/ S[i].inv # {}

\* ensure_transaction
EnsureTransaction(S) == IF S = <<>> THEN <<EmptyOverlay>> ELSE S

Highest(L) == CHOOSE i \in L : \A j \in L : j <= i
Lowest(L) == CHOOSE i \in L : \A j \in L : i <= j

InsLevels(S, t) == {i \in DOMAIN S : t \in S[i].ins}
ClearLevels(S) == {i \in DOMAIN S : S[i].cleared}

\* The levels whose inserts survive a merge: a clear drops those below it.
KeptLevels(S) == {i \in DOMAIN S : \A c \in ClearLevels(S) : i >= c}

-----------------------------------------------------------------------------
(* Writing to the top overlay *)

\* checkpoint_relation and checkpoint_page of the page that is about to grow,
\* insert_tid and set_insert_cid.
RecordInsert(o, rel, cid) ==
  LET t == NextTid(rel) b == t[1]
  IN [o EXCEPT !.ins = @ \cup {t}, !.ins_cid[t] = cid,
               !.chk[b] = IF @ = NoCheckpoint THEN LineCount(rel, b) ELSE @]

\* invalidate and set_invalidate_metadata.
RecordInvalidate(o, t, cid) == [o EXCEPT !.inv = @ \cup {t}, !.inv_cid[t] = cid]

\* Mutants: the redirect is recorded backwards; a heap-only update is not
\* recorded for the indexes.
RedirectBackwards(o, t, n, hot) ==
  [o EXCEPT !.upd[n] = t, !.hot[t] = IF hot THEN n ELSE @]
RedirectWithoutHot(o, t, n, hot) == [o EXCEPT !.upd[t] = n]

\* insert_update_redirect and, for a heap-only update, insert_hot_redirect.
RecordRedirect(o, t, n, hot) ==
  [o EXCEPT !.upd[t] = n, !.hot[t] = IF hot THEN n ELSE @]

\* Mutant: a second clear replaces the saved relation.
RecordClearLatest(o, rel, visible) ==
  [o EXCEPT !.ins = {}, !.ins_cid = NoCids, !.inv = @ \cup visible, !.cleared = TRUE,
            !.snapshot = RestoreToCheckpoints(rel, o.chk)]

\* record_relation_clear, then clear_relation_impl's invalidation of every
\* visible tuple: the overlay forgets the inserts of its level, keeps its
\* redirects and invalidations, and keeps the first relation it replaced with
\* the lines of the level's own pages cut back to the checkpoints.
RecordClear(o, rel, visible) ==
  [o EXCEPT !.ins = {}, !.ins_cid = NoCids, !.inv = @ \cup visible, !.cleared = TRUE,
            !.snapshot = IF o.cleared THEN @ ELSE RestoreToCheckpoints(rel, o.chk)]

-----------------------------------------------------------------------------
(* Merging *)

\* Mutant: the child's checkpoints replace the parent's.
AppendFromLastCheckpoint(p, c) ==
  LET q == IF c.cleared THEN [p EXCEPT !.ins = {}, !.ins_cid = NoCids] ELSE p
  IN [ins |-> q.ins \cup c.ins, inv |-> p.inv \cup c.inv,
      ins_cid |-> [t \in Tid |-> IF t \in c.ins THEN c.ins_cid[t] ELSE q.ins_cid[t]],
      inv_cid |-> [t \in Tid |-> IF c.inv_cid[t] # 0 THEN c.inv_cid[t] ELSE p.inv_cid[t]],
      hot |-> Override(p.hot, c.hot), upd |-> Override(p.upd, c.upd),
      chk |-> [b \in Block |-> IF c.chk[b] # NoCheckpoint THEN c.chk[b] ELSE p.chk[b]],
      cleared |-> p.cleared \/ c.cleared,
      snapshot |-> IF c.cleared /\ ~p.cleared THEN RestoreToCheckpoints(c.snapshot, p.chk)
                   ELSE p.snapshot]

\* append_from: a released savepoint's overlay c is added to its parent p.  If c
\* cleared the relation the parent forgets its own inserts, and keeps c's
\* snapshot, cut back to its own checkpoints, unless it has one already.  For
\* cids and redirects the child wins, for checkpoints the parent.
AppendFrom(p, c) ==
  LET q == IF c.cleared THEN [p EXCEPT !.ins = {}, !.ins_cid = NoCids] ELSE p
  IN [ins |-> q.ins \cup c.ins, inv |-> p.inv \cup c.inv,
      ins_cid |-> [t \in Tid |-> IF t \in c.ins THEN c.ins_cid[t] ELSE q.ins_cid[t]],
      inv_cid |-> [t \in Tid |-> IF c.inv_cid[t] # 0 THEN c.inv_cid[t] ELSE p.inv_cid[t]],
      hot |-> Override(p.hot, c.hot), upd |-> Override(p.upd, c.upd),
      chk |-> [b \in Block |-> IF p.chk[b] # NoCheckpoint THEN p.chk[b] ELSE c.chk[b]],
      cleared |-> p.cleared \/ c.cleared,
      snapshot |-> IF c.cleared /\ ~p.cleared THEN RestoreToCheckpoints(c.snapshot, p.chk)
                   ELSE p.snapshot]

\* The one overlay a whole stack amounts to when its levels are merged from the
\* top down (checked against AppendFrom as MergeIsAppendFrom).
Merge(S) ==
  LET clr == ClearLevels(S)
      keep == KeptLevels(S)
      low == Lowest(clr)
      Top(L, f(_), none) == IF L = {} THEN none ELSE f(Highest(L))
      First(L, f(_), none) == IF L = {} THEN none ELSE f(Lowest(L))
  IN [ins |-> UNION {S[i].ins : i \in keep},
      inv |-> UNION {S[i].inv : i \in DOMAIN S},
      ins_cid |-> [t \in Tid |-> Top({i \in keep : t \in S[i].ins},
                                     LAMBDA i : S[i].ins_cid[t], 0)],
      inv_cid |-> [t \in Tid |-> Top({i \in DOMAIN S : S[i].inv_cid[t] # 0},
                                     LAMBDA i : S[i].inv_cid[t], 0)],
      hot |-> [t \in Tid |-> Top({i \in DOMAIN S : S[i].hot[t] # NoTid},
                                 LAMBDA i : S[i].hot[t], NoTid)],
      upd |-> [t \in Tid |-> Top({i \in DOMAIN S : S[i].upd[t] # NoTid},
                                 LAMBDA i : S[i].upd[t], NoTid)],
      chk |-> [b \in Block |-> First({i \in DOMAIN S : S[i].chk[b] # NoCheckpoint},
                                     LAMBDA i : S[i].chk[b], NoCheckpoint)],
      cleared |-> clr # {},
      snapshot |-> IF clr = {} THEN EmptyRelation
                   ELSE MarkDead(S[low].snapshot,
                                 {t \in Tid : \E i \in DOMAIN S : i < low /\
                                    S[i].chk[t[1]] # NoCheckpoint /\ t[2] > S[i].chk[t[1]]})]

-----------------------------------------------------------------------------
(* Visibility *)

\* insert_shadows_invalidation: a Tid used again after a TRUNCATE is visible
\* when it was inserted by a later command than the one that invalidated it.
Shadows(ins_cid, inv_cid) == ins_cid > inv_cid \/ (ins_cid = 0 /\ inv_cid = 0)

\* Mutant: a command sees what it has inserted itself.
SingleVisibilityLate(o, t, lim) ==
  CASE t \in o.inv /\ o.inv_cid[t] < lim -> "hidden"
    [] ~(t \in o.inv /\ o.inv_cid[t] < lim) /\ t \in o.ins /\ o.ins_cid[t] <= lim -> "own"
    [] OTHER -> "shared"

\* single_overlay_tid_visibility(_before): what a one-level transaction says of
\* t to a snapshot that sees its commands before lim.
SingleVisibility(o, t, lim) ==
  LET own == t \in o.ins /\ o.ins_cid[t] < lim
      gone == /\ t \in o.inv /\ o.inv_cid[t] < lim
              /\ ~(o.cleared /\ own /\ Shadows(o.ins_cid[t], o.inv_cid[t]))
  IN CASE gone \/ (t \in o.ins /\ ~own) \/ (o.cleared /\ ~own) -> "hidden"
       [] ~gone /\ own -> "own"
       [] OTHER -> "shared"

\* overlays_invalidate_tid(_before): the highest level that invalidates t
\* decides; an insert at that level or above may shadow it if that level was
\* cleared.
Invalidated(S, t, lim) ==
  LET L == {i \in DOMAIN S : t \in S[i].inv /\ S[i].inv_cid[t] < lim}
      top == Highest(L)
      later == {i \in InsLevels(S, t) : i >= top /\ S[i].ins_cid[t] < lim}
  IN L # {} /\ ~(/\ S[top].cleared /\ later # {}
                 /\ Shadows(S[Lowest(later)].ins_cid[t], S[top].inv_cid[t]))

\* overlays_clear_tid: some level cleared the relation and neither it nor a
\* level above it has inserted t.
ClearsTid(S, t) == /\ ClearLevels(S) # {}
                   /\ \A i \in InsLevels(S, t) : i < Highest(ClearLevels(S))

\* overlays_own_inserted_tid
OwnsInserted(S, t) == InsLevels(S, t) # {} /\ ~ClearsTid(S, t)

\* The multi-level counterpart of SingleVisibility.
MultiVisibility(S, t, lim) ==
  LET owns == OwnsInserted(S, t)
      own == owns /\ S[Highest(InsLevels(S, t))].ins_cid[t] < lim
  IN CASE Invalidated(S, t, lim) \/ ClearsTid(S, t) \/ (owns /\ ~own) -> "hidden"
       [] ~Invalidated(S, t, lim) /\ own -> "own"
       [] OTHER -> "shared"

Visibility(S, t, lim) == IF Len(S) = 1 THEN SingleVisibility(S[1], t, lim)
                         ELSE MultiVisibility(S, t, lim)

\* physical_visible_tuple_slice (lim = AnyCid) and its _at_cid form.
Visible(S, rel, t, lim) == LET v == Visibility(S, t, lim)
                           IN v # "hidden" /\ HasTuple(rel, t, v = "own")

VisibleTids(S, rel, lim) == {t \in Tid : Visible(S, rel, t, lim)}

-----------------------------------------------------------------------------
(* Redirects *)

\* overlay_tid_redirect / overlay_update_redirect before the relation's own.
HotMap(S, rel) == Override(rel.hot, Merge(S).hot)
UpdMap(S, rel) == Override(rel.upd, Merge(S).upd)

\* The overlays are consulted only when the transaction changed visibility.
Deltas(S) == IF HasVisibilityDeltas(S) THEN S ELSE <<>>

\* resolve_update_redirect..., then resolve_tid_redirect... .
ResolveUpdate(S, rel, t) == Resolve(HotMap(S, rel), Resolve(UpdMap(S, rel), t))

\* The ..._compress forms: committed chains are shortened when no redirect of
\* an overlay was followed.
CompressAlong(base, map, t) ==
  IF \A x \in Path(map, t) : map[x] = base[x] THEN Compress(base, t) ELSE base

CompressUpdate(S, rel, t) ==
  [rel EXCEPT !.upd = CompressAlong(rel.upd, UpdMap(S, rel), t),
              !.hot = CompressAlong(rel.hot, HotMap(S, rel), Resolve(UpdMap(S, rel), t))]
=============================================================================
