-------------------------------- MODULE Scan --------------------------------
(***************************************************************************)
(* Sequential scans (fastpg_mem_scan_begin, _getnextslot and _rescan over  *)
(* fastpg-storage2's scan.rs) while the statement that reads, or another   *)
(* one of its transaction, writes.  A scan fetches batches of BatchRows    *)
(* rows.  Each batch is read either from the committed lines alone or, if  *)
(* the transaction has changed what is visible, through its overlays; a    *)
(* line past the high-water mark of its page was appended after the scan   *)
(* began.  The scan of a statement ends with it, that of a cursor with its *)
(* transaction.                                                            *)
(***************************************************************************)
EXTENDS TableAmTxn

CONSTANT BatchRows        \* FASTPG_MEM_SCAN_BATCH_ROWS

ASSUME ScanAssumption == BatchRows \in Nat \ {0}

VARIABLE scan             \* scan[s]: the scan of s on the table

Seqs == INSTANCE SequencesExt

\* ScanState and the batch of FastPgMemScanDesc.  after is the line the cursor
\* has passed last.  left and wrong only observe: the visible rows still to be
\* returned, and whether another one was returned.
ScanDesc == [open : BOOLEAN, cursor : BOOLEAN, high_water : [Block -> 0..LinesPerPage],
             after : Tid \cup {NoTid}, deltas : BOOLEAN, cid : Cid,
             batch : Seq(Tid), exhausted : BOOLEAN,
             left : SUBSET Row, wrong : BOOLEAN]

NoScan == [open |-> FALSE, cursor |-> FALSE, high_water |-> [b \in Block |-> 0],
           after |-> NoTid, deltas |-> FALSE, cid |-> 0, batch |-> <<>>,
           exhausted |-> FALSE, left |-> {}, wrong |-> FALSE]

ScanInit == Init /\ scan = [s \in Session |-> NoScan]

-----------------------------------------------------------------------------
(* The rows of a batch *)

\* The order of Tids.
Precedes(t, u) == t[1] < u[1] \/ (t[1] = u[1] /\ t[2] < u[2])

\* Mutant: the last line of a page counts as appended later.
BeyondAtMark(sc, t) == t[2] >= sc.high_water[t[1]]

\* tid_beyond_high_water
Beyond(sc, t) == t[2] > sc.high_water[t[1]]

\* next_committed_tuple_slice: the live lines up to the first one that is beyond
\* the high-water mark.
CommittedLines(sc) ==
  LET live == {t \in LiveTids(rel) : Precedes(sc.after, t)}
  IN {t \in live : \A u \in live : ~Precedes(t, u) => ~Beyond(sc, u)}

\* hot_redirect_targets: the relation's, and those of the overlays S.
HotTargets(S) ==
  {rel.hot[t] : t \in Tid} \cup UNION {{S[i].hot[t] : t \in Tid} : i \in DOMAIN S}

\* hot_redirect_roots
HotRoots == {t \in Tid : rel.hot[t] # NoTid /\ t \notin {rel.hot[u] : u \in Tid}}

\* next_forward_candidate_tid_in_overlays, repeated.
Candidates(S, sc) ==
  {t \in LiveTids(rel) \cup HotRoots \cup UNION {S[i].ins : i \in DOMAIN S} :
     Precedes(sc.after, t) /\ ~Beyond(sc, t)}

\* What the candidate t stands for in next_visible_tuple_slice_in_overlays: its
\* own tuple, its heap-only successor, a successor appended since the scan began
\* (visible_update_redirect_tid_beyond_high_water), or nothing.
Output(S, sc, t) ==
  LET seen(u) == Visible(S, rel, u, sc.cid)
      hot == Resolve(HotMap(S, rel), t)
      next == UpdMap(S, rel)[t]
      last == Resolve(UpdMap(S, rel), t)
  IN CASE t \in HotTargets(S) -> NoTid
       [] t \notin HotTargets(S) /\ seen(t) -> t
       [] t \notin HotTargets(S) /\ ~seen(t) /\ hot # t /\ seen(hot) -> hot
       [] OTHER -> IF next # NoTid /\ Beyond(sc, next) /\ Beyond(sc, last) /\ seen(last)
                   THEN last ELSE NoTid

\* scan_next_batch: the lines it returns a row for, in order.
Lines(S, sc) ==
  LET found == IF sc.deltas THEN {t \in Candidates(S, sc) : Output(S, sc, t) # NoTid}
               ELSE CommittedLines(sc)
      all == Seqs!SetToSortSeq(found, Precedes)
  IN SubSeq(all, 1, IF Len(all) < BatchRows THEN Len(all) ELSE BatchRows)

-----------------------------------------------------------------------------
(* Operations on a scan *)

\* The statement of s reads: nothing of the table changes.
Reads(s) == /\ CanRun(s) /\ copy[s] = "none" /\ InQuery(s)
            /\ UNCHANGED <<storageVars, row_lock, lock_root, table_lock, storeVars>>

\* fastpg_mem_scan_begin and scan_begin_impl, of a statement or of a cursor.
OpenScan(s, cursor) ==
  /\ Reads(s) /\ CanLockTable(s, FALSE)
  /\ ~scan[s].open
  /\ cursor => "cursor" \in Ops /\ pg[s] = "InBlock"
  /\ scan' = [scan EXCEPT ![s] =
       [NoScan EXCEPT !.open = TRUE, !.cursor = cursor, !.cid = cid[s],
                      !.high_water = [b \in Block |-> LineCount(rel, b)],
                      !.deltas = HasVisibilityDeltas(stack[s]),
                      !.left = SeenRows(s, cid[s])]]

\* fastpg_mem_scan_getnextslot when its batch is used up.  A short batch is the
\* last one.
FetchBatch(s) ==
  LET sc == scan[s] lines == Lines(stack[s], sc)
  IN /\ Reads(s)
     /\ sc.open /\ sc.batch = <<>> /\ ~sc.exhausted
     /\ scan' = [scan EXCEPT
          ![s].batch = [i \in DOMAIN lines |->
             IF sc.deltas THEN Output(stack[s], sc, lines[i]) ELSE lines[i]],
          ![s].after = IF lines = <<>> THEN @ ELSE lines[Len(lines)],
          ![s].exhausted = Len(lines) < BatchRows]

\* ... and when it is not.
ReturnRow(s) ==
  LET sc == scan[s] row == RowAt(Head(sc.batch))
  IN /\ Reads(s)
     /\ sc.batch # <<>>
     /\ scan' = [scan EXCEPT ![s].batch = Tail(@), ![s].left = @ \ {row},
                             ![s].wrong = @ \/ row \notin sc.left]

\* fastpg_mem_scan_rescan and scan_reset: the scan of a statement starts over,
\* with its high-water marks.
Rescan(s) ==
  /\ Reads(s)
  /\ scan[s].open /\ ~scan[s].cursor /\ scan[s].after # NoTid
  /\ scan' = [scan EXCEPT ![s].after = NoTid, ![s].batch = <<>>, ![s].exhausted = FALSE,
                          ![s].deltas = HasVisibilityDeltas(stack[s]),
                          ![s].left = SeenRows(s, scan[s].cid)]

\* mark_scans_visibility_delta, of a delete or update that changes the overlays.
MarkScans(s) == scan' = [scan EXCEPT ![s].deltas = @ \/ (scan[s].open /\ stack' # stack)]

\* fastpg_mem_scan_end, at the end of the statement ...
EndStatementScan(s) == scan' = [scan EXCEPT ![s] = IF @.cursor THEN @ ELSE NoScan]

\* ... or of the transaction.
EndScan(s) == scan' = [scan EXCEPT ![s] = NoScan]

-----------------------------------------------------------------------------
\* One transaction at a time may scan here; savepoints and ends of sessions are
\* left to TableAmTxn.  TRUNCATE is refused while a cursor reads the table
\* (CheckTableNotInUse).
ScanNext ==
  \E s \in Session :
    \/ \E cursor \in BOOLEAN : OpenScan(s, cursor)
    \/ FetchBatch(s) \/ ReturnRow(s) \/ Rescan(s)
    \/ (Delete(s) \/ Update(s)) /\ MarkScans(s)
    \/ (Begin(s) \/ Insert(s)) /\ UNCHANGED scan
    \/ ~scan[s].open /\ Truncate(s) /\ UNCHANGED scan
    \/ Finish(s) /\ EndStatementScan(s)
    \/ (Fail(s) \/ Commit(s) \/ Rollback(s)) /\ EndScan(s)

ScanSpec == ScanInit /\ [][ScanNext]_<<allVars, scan>>

-----------------------------------------------------------------------------
(* Properties *)

\* The state of the scans has its type.
ScanTypeOK == TypeOK /\ scan \in [Session -> ScanDesc]

\* A scan returns the rows that were visible to its command when it began, each
\* of them once, and no other, although its transaction inserts, deletes and
\* updates between two batches and the scan changes over from the committed lines
\* to the overlays when it does (doc/src/sgml/mvcc.sgml: a query "sees a snapshot
\* of the database as of the instant the query begins to run").
ScanExact == \A s \in Session : scan[s].open =>
  /\ ~scan[s].wrong
  /\ scan[s].exhausted /\ scan[s].batch = <<>> => scan[s].left = {}
=============================================================================
