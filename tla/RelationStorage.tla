--------------------------- MODULE RelationStorage ---------------------------
(***************************************************************************)
(* The shared, in-memory heap of one relation: fastpg-storage2's page.rs   *)
(* and relation.rs.  A relation is an array of pages, a page is an array   *)
(* of line pointers that only grows, and a tuple identifier (Tid) is a     *)
(* block and a one-based line offset.  Tuple bytes are abstracted to a row *)
(* version; every page holds LinesPerPage of them (the code's byte budget  *)
(* for tuples of one size).                                                *)
(***************************************************************************)
EXTENDS Integers, FiniteSets

CONSTANTS Row,            \* row versions
          NoRow,          \* the contents of an unused line
          MaxBlock,       \* bound: blocks 0 .. MaxBlock - 1
          LinesPerPage    \* lines that fit on one page

ASSUME RelationStorageAssumption == /\ MaxBlock \in Nat \ {0}
                                    /\ LinesPerPage \in Nat \ {0}
                                    /\ NoRow \notin Row

Block == 0..(MaxBlock - 1)
Tid == Block \X (1..LinesPerPage)
NoTid == <<0, 0>>

\* LinePointerState, with "Free" for an offset past the page's last line.
\* root is the Tid under which the indexes of the relation know the row: its
\* own, or for a heap-only version the one of the version it was updated from.
LinePointer == [st : {"Free", "Pending", "Live", "Dead"},
                row : Row \cup {NoRow}, root : Tid \cup {NoTid}]

FreeLine == [st |-> "Free", row |-> NoRow, root |-> NoTid]

\* hot_redirects and update_redirects: old Tid to new Tid, NoTid when absent.
Redirects == [Tid -> Tid \cup {NoTid}]
NoRedirects == [t \in Tid |-> NoTid]

Relation == [line : [Tid -> LinePointer], next_block : 0..MaxBlock,
             hot : Redirects, upd : Redirects]

EmptyRelation == [line |-> [t \in Tid |-> FreeLine], next_block |-> 0,
                  hot |-> NoRedirects, upd |-> NoRedirects]

-----------------------------------------------------------------------------
(* Pages *)

InUse(rel, t) == rel.line[t].st # "Free"

\* line_pointers.len() of a page; 0 for a block that has no page.
LineCount(rel, b) == Cardinality({t \in Tid : t[1] = b /\ InUse(rel, t)})

\* Page::tuple_slice: dead lines have no tuple, pending ones only on request.
HasTuple(rel, t, include_pending) ==
  \/ rel.line[t].st = "Live"
  \/ rel.line[t].st = "Pending" /\ include_pending

LiveTids(rel) == {t \in Tid : rel.line[t].st = "Live"}

-----------------------------------------------------------------------------
(* Appending *)

Appendable(rel) == {b \in Block : b < rel.next_block /\ LineCount(rel, b) < LinesPerPage}

HasRoom(rel) == Appendable(rel) # {} \/ rel.next_block < MaxBlock

\* append_target_block: append_hint is the highest block with room for a tuple;
\* without one a block is reserved and gets an empty page.
AppendTargetBlock(rel) ==
  IF Appendable(rel) # {}
  THEN CHOOSE b \in Appendable(rel) : \A c \in Appendable(rel) : c <= b
  ELSE rel.next_block

\* Mutant: the line offset is taken after the push and counted up once more.
NextTidSkipsLine(rel) == LET b == AppendTargetBlock(rel) IN <<b, LineCount(rel, b) + 2>>

\* The Tid the next appended tuple gets.
NextTid(rel) == LET b == AppendTargetBlock(rel) IN <<b, LineCount(rel, b) + 1>>

\* append_pending_tuple: the tuple goes in as a pending line.
AppendPending(rel, row, root) ==
  [rel EXCEPT !.line[NextTid(rel)] = [st |-> "Pending", row |-> row, root |-> root],
              !.next_block = IF AppendTargetBlock(rel) = @ THEN @ + 1 ELSE @]

-----------------------------------------------------------------------------
(* Line states *)

\* mark_live makes only pending lines live.
MarkLive(rel, S) ==
  [rel EXCEPT !.line = [t \in Tid |->
     IF t \in S /\ @[t].st = "Pending" THEN [@[t] EXCEPT !.st = "Live"] ELSE @[t]]]

MarkDead(rel, S) ==
  [rel EXCEPT !.line = [t \in Tid |->
     IF t \in S /\ @[t].st # "Free" THEN [@[t] EXCEPT !.st = "Dead"] ELSE @[t]]]

\* Page checkpoints: the line count of a page when a transaction first
\* appended to it, NoCheckpoint for a page it did not touch.
NoCheckpoint == -1
Checkpoints == [Block -> (0..LinesPerPage) \cup {NoCheckpoint}]

\* restore_to_preserving_tid_space on every checkpointed page: all lines past
\* the checkpoint become dead, whoever appended them.
RestoreToCheckpoints(rel, chk) ==
  MarkDead(rel, {t \in Tid : chk[t[1]] # NoCheckpoint /\ t[2] > chk[t[1]]})

-----------------------------------------------------------------------------
(* Redirects *)

\* The redirects of R laid over those of base.
Override(base, R) == [t \in Tid |-> IF R[t] # NoTid THEN R[t] ELSE base[t]]

\* One hop, and 2 and 4 of them.  A redirect leads to a Tid appended later, so a
\* chain in a relation of at most eight lines has fewer than the eight hops that
\* Resolve follows; the code gives up after 1,000,000.
Hop1(f) == [t \in Tid |-> IF f[t] = NoTid THEN t ELSE f[t]]
Twice(g) == [t \in Tid |-> g[g[t]]]
Hop2(f) == Twice(Hop1(f))
Hop4(f) == Twice(Hop2(f))

\* Follow redirects to the end.
Resolve(f, t) == Twice(Hop4(f))[t]

\* The Tids a resolution of t passes through.
Path(f, t) == LET g1 == Hop1(f) g2 == Hop2(f) a == {t, Hop4(f)[t]}
                  b == a \cup {g2[x] : x \in a}
              IN  b \cup {g1[x] : x \in b}

\* Path compression: every redirect on the way from t points at the end.
Compress(f, t) ==
  [x \in Tid |-> IF x \in Path(f, t) /\ f[x] # NoTid THEN Resolve(f, t) ELSE f[x]]
=============================================================================
