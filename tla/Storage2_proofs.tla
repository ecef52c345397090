---------------------------- MODULE Storage2_proofs ----------------------------
(***************************************************************************)
(* The storage engine, for any number of sessions and pages.  First what   *)
(* its data structures are made of: pages, overlays, merged overlays,      *)
(* redirects and visibility.  Then what each of its entry points does to   *)
(* the shared relation and to the stack of overlays of the session that    *)
(* calls it: the laws of StorageInvariants.                                *)
(***************************************************************************)
EXTENDS StorageLaws, FiniteSetTheorems, TLAPS

-----------------------------------------------------------------------------
(* Highest and lowest levels *)

\* A set of naturals that is not empty has a least member.
LEMMA LowestIn ==
  ASSUME NEW L \in SUBSET Nat, L # {}
  PROVE  Lowest(L) \in L /\ \A j \in L : Lowest(L) <= j
<1> DEFINE R == {p \in Nat \X Nat : p[1] < p[2]}
<1>1. IsWellFoundedOn(R, Nat)
  BY NatLessThanWellFounded DEF OpToRel
<1>2. \E x \in L : \A y \in L : ~(<<y, x>> \in R)
  <2> HIDE DEF R
  <2> QED
    BY <1>1, WFMin, Zenon
<1>3. \E x \in L : \A y \in L : x <= y
  <2>1. PICK x \in L : \A y \in L : ~(<<y, x>> \in R)
    BY <1>2
  <2>2. ASSUME NEW y \in L PROVE x <= y
    <3>1. x \in Nat /\ y \in Nat
      OBVIOUS
    <3>2. ~(<<y, x>> \in R)
      BY <2>1
    <3>3. y < x => <<y, x>> \in R
      BY <3>1
    <3> HIDE DEF R
    <3> QED
      BY <3>1, <3>2, <3>3
  <2> QED
    BY <2>2
<1> QED
  BY <1>3, Zenon DEF Lowest

\* A bounded one has a greatest.
LEMMA HighestIn ==
  ASSUME NEW n \in Nat, NEW L \in SUBSET (0..n), L # {}
  PROVE  Highest(L) \in L /\ \A j \in L : j <= Highest(L)
<1> DEFINE M == {n - i : i \in L}
<1>1. M \in SUBSET Nat /\ M # {}
  <2>1. \A i \in L : n - i \in Nat
    OBVIOUS
  <2>2. PICK i \in L : TRUE
    BY Zenon
  <2>3. n - i \in M
    OBVIOUS
  <2>4. M \subseteq Nat
    BY <2>1
  <2> HIDE DEF M
  <2> QED
    BY <2>3, <2>4
<1>2. Lowest(M) \in M /\ \A j \in M : Lowest(M) <= j
  <2> HIDE DEF M
  <2> QED
    BY <1>1, LowestIn
<1>3. PICK x \in L : Lowest(M) = n - x
  BY <1>2, Zenon
<1>4. \A y \in L : y <= x
  <2> SUFFICES ASSUME NEW y \in L PROVE y <= x
    OBVIOUS
  <2>1. n - y \in M
    OBVIOUS
  <2>2. n - x <= n - y
    BY <1>2, <1>3, <2>1, Zenon
  <2> QED
    BY <2>2
<1> QED
  BY <1>4, Zenon DEF Highest

-----------------------------------------------------------------------------
(* Pages *)

\* Tids are pairs, and NoTid is none of them.
LEMMA TidFacts ==
  /\ \A t \in Tid : t[1] \in Block /\ t[2] \in 1..LinesPerPage /\ t = <<t[1], t[2]>>
  /\ \A b \in Block, k \in 1..LinesPerPage : <<b, k>> \in Tid
  /\ NoTid \notin Tid
BY RelationStorageAssumption DEF Tid, Block, NoTid

\* There are finitely many of them.
LEMMA TidFinite == IsFiniteSet(Tid)
<1>1. MaxBlock - 1 \in Int /\ LinesPerPage \in Int
  BY RelationStorageAssumption
<1>2. IsFiniteSet(Block) /\ IsFiniteSet(1..LinesPerPage)
  BY <1>1, FS_Interval DEF Block
<1> QED
  BY <1>2, FS_Product, Zenon DEF Tid

\* line_pointers.len() is the offset of the last line.
LEMMA LineCountIsLast ==
  ASSUME NEW r, NEW b \in Block, NEW n \in 0..LinesPerPage, Filled(r, b, n)
  PROVE  LineCount(r, b) = n
<1> DEFINE T == {t \in Tid : t[1] = b /\ InUse(r, t)}
           f == [k \in 1..n |-> <<b, k>>]
<1>1. n \in Nat /\ LinesPerPage \in Nat
  BY RelationStorageAssumption
<1>2. \A k \in 1..n : <<b, k>> \in T
  BY <1>1, TidFacts DEF Filled
<1>3. \A t \in T : t[2] \in 1..n /\ t = <<b, t[2]>>
  BY <1>1, TidFacts DEF Filled
<1>4. f \in Bijection(1..n, T)
  <2> HIDE DEF T
  <2>1. f \in Injection(1..n, T)
    BY <1>2 DEF Injection, IsInjective
  <2>2. f \in Surjection(1..n, T)
    BY <1>2, <1>3, Zenon DEF Surjection
  <2> QED
    BY <2>1, <2>2 DEF Bijection
<1>5. Cardinality(T) = n
  <2> HIDE DEF T, f
  <2> QED
    BY <1>1, <1>4, FS_CountingElements DEF ExistsBijection
<1> QED
  BY <1>5 DEF LineCount

\* The block an append goes to has room.
LEMMA AppendTarget ==
  ASSUME NEW r \in Relation, Dense(r), HasRoom(r)
  PROVE  LET b == AppendTargetBlock(r)
         IN  /\ b \in Block
             /\ \E n \in 0..(LinesPerPage - 1) : Filled(r, b, n) /\ LineCount(r, b) = n
             /\ b < r.next_block \/ (b = r.next_block /\ b < MaxBlock)
<1>1. r.next_block \in 0..MaxBlock /\ MaxBlock \in Nat \ {0} /\ LinesPerPage \in Nat \ {0}
  BY RelationStorageAssumption DEF Relation
<1>2. CASE Appendable(r) # {}
  <2>1. Appendable(r) \in SUBSET (0..MaxBlock)
    BY <1>1 DEF Appendable, Block
  <2>2. \E b \in Appendable(r) : \A c \in Appendable(r) : c <= b
    BY <1>1, <1>2, <2>1, HighestIn, Zenon
  <2>3. AppendTargetBlock(r) \in Appendable(r)
    BY <1>2, <2>2 DEF AppendTargetBlock
  <2>4. PICK b \in Block : b = AppendTargetBlock(r) /\ b < r.next_block /\ LineCount(r, b) < LinesPerPage
    BY <2>3 DEF Appendable
  <2>5. PICK n \in 0..LinesPerPage : Filled(r, b, n)
    BY DEF Dense
  <2>6. LineCount(r, b) = n
    BY <2>5, LineCountIsLast
  <2> QED
    BY <1>1, <2>4, <2>5, <2>6
<1>3. CASE Appendable(r) = {}
  <2>1. AppendTargetBlock(r) = r.next_block /\ r.next_block < MaxBlock
    BY <1>3 DEF AppendTargetBlock, HasRoom
  <2>2. r.next_block \in Block
    BY <1>1, <2>1 DEF Block
  <2>3. Filled(r, r.next_block, 0)
    BY <1>1, <2>2 DEF Dense, Filled
  <2>4. LineCount(r, r.next_block) = 0
    BY <1>1, <2>2, <2>3, LineCountIsLast
  <2> QED
    BY <1>1, <2>1, <2>2, <2>3, <2>4
<1> QED
  BY <1>2, <1>3

\* The next Tid is the one after the last line in use of its page.
LEMMA NextTidIsFree ==
  ASSUME NEW r \in Relation, Dense(r), HasRoom(r)
  PROVE  /\ NextTid(r) \in Tid /\ ~InUse(r, NextTid(r))
         /\ NextTid(r)[1] = AppendTargetBlock(r)
         /\ LineCount(r, NextTid(r)[1]) \in 0..LinesPerPage
<1> DEFINE b == AppendTargetBlock(r)
<1>1. b \in Block
  BY AppendTarget
<1>2. PICK n \in 0..(LinesPerPage - 1) : Filled(r, b, n) /\ LineCount(r, b) = n
  BY AppendTarget
<1>3. NextTid(r) = <<b, n + 1>>
  BY <1>2 DEF NextTid
<1> HIDE DEF b
<1>4. n + 1 \in 1..LinesPerPage /\ n \in 0..LinesPerPage /\ ~(n + 1 <= n)
  BY RelationStorageAssumption
<1>5. NextTid(r) \in Tid /\ ~InUse(r, NextTid(r)) /\ NextTid(r)[1] = b
  BY <1>1, <1>2, <1>3, <1>4, TidFacts DEF Filled
<1> QED
  BY <1>2, <1>4, <1>5 DEF b

\* append_pending_tuple changes one line and keeps the pages dense.
LEMMA AppendPendingFacts ==
  ASSUME NEW r \in Relation, Dense(r), HasRoom(r), NEW row \in Row, NEW root \in Tid \cup {NoTid}
  PROVE  LET q == AppendPending(r, row, root)
             n == NextTid(r)
         IN  /\ q \in Relation /\ Dense(q) /\ q.hot = r.hot /\ q.upd = r.upd
             /\ q.line[n] = [st |-> "Pending", row |-> row, root |-> root]
             /\ \A t \in Tid \ {n} : q.line[t] = r.line[t]
<1> DEFINE q == AppendPending(r, row, root)
           n == NextTid(r)
           b == AppendTargetBlock(r)
           l == [st |-> "Pending", row |-> row, root |-> root]
<1>1. n \in Tid /\ b \in Block /\ (b < r.next_block \/ (b = r.next_block /\ b < MaxBlock))
  BY AppendTarget, NextTidIsFree
<1>2. PICK k \in 0..(LinesPerPage - 1) : Filled(r, b, k) /\ n = <<b, k + 1>>
  BY AppendTarget DEF NextTid
<1>3. /\ q.line = [r.line EXCEPT ![n] = l] /\ q.hot = r.hot /\ q.upd = r.upd
      /\ q.next_block = (IF b = r.next_block THEN r.next_block + 1 ELSE r.next_block)
  BY DEF AppendPending, Relation
<1>4. l \in LinePointer /\ l.st = "Pending"
  BY DEF LinePointer
<1>5. /\ r.line \in [Tid -> LinePointer] /\ r.next_block \in 0..MaxBlock
      /\ r.hot \in Redirects /\ r.upd \in Redirects
      /\ MaxBlock \in Nat \ {0} /\ LinesPerPage \in Nat \ {0}
  BY RelationStorageAssumption DEF Relation
<1> HIDE DEF q, n, b, l
<1>6. q.line \in [Tid -> LinePointer] /\ q.line[n] = l /\ \A t \in Tid \ {n} : q.line[t] = r.line[t]
  BY <1>1, <1>3, <1>4, <1>5
<1>7. q.next_block \in 0..MaxBlock /\ q.next_block >= r.next_block
      /\ b < q.next_block
  BY <1>1, <1>3, <1>5 DEF Block
<1>8. q \in Relation
  <2>1. q = [r EXCEPT !.line = q.line, !.next_block = q.next_block]
    BY <1>3 DEF AppendPending, Relation, q, n, b, l
  <2> QED
    BY <1>5, <1>6, <1>7, <2>1, Zenon DEF Relation
<1>9. Dense(q)
  <2>1. ASSUME NEW c \in Block, c # b PROVE \E m \in 0..LinesPerPage : Filled(q, c, m)
    <3>1. PICK m \in 0..LinesPerPage : Filled(r, c, m)
      BY DEF Dense
    <3>2. \A j \in 1..LinesPerPage : <<c, j>> \in Tid \ {n}
      BY <1>2, <2>1, TidFacts
    <3>3. \A j \in 1..LinesPerPage : InUse(q, <<c, j>>) <=> InUse(r, <<c, j>>)
      BY <1>6, <3>2 DEF InUse
    <3>4. c >= q.next_block => c >= r.next_block
      BY <1>5, <1>7 DEF Block
    <3> QED
      BY <3>1, <3>3, <3>4 DEF Filled
  <2>2. Filled(q, b, k + 1)
    <3>1. ASSUME NEW j \in 1..LinesPerPage PROVE InUse(q, <<b, j>>) <=> j <= k + 1
      <4>1. <<b, j>> \in Tid
        BY <1>1, TidFacts
      <4>2. CASE j = k + 1
        BY <1>2, <1>4, <1>6, <4>2 DEF InUse
      <4>3. CASE j # k + 1
        <5>1. <<b, j>> # n
          BY <1>2, <4>3
        <5>2. InUse(q, <<b, j>>) <=> InUse(r, <<b, j>>)
          BY <1>6, <4>1, <5>1 DEF InUse
        <5>3. InUse(r, <<b, j>>) <=> j <= k
          BY <1>2 DEF Filled
        <5> QED
          BY <1>5, <4>3, <5>2, <5>3
      <4> QED
        BY <4>2, <4>3
    <3>2. ~(b >= q.next_block)
      BY <1>1, <1>5, <1>7 DEF Block
    <3> QED
      BY <3>1, <3>2 DEF Filled
  <2>3. k + 1 \in 0..LinesPerPage
    BY <1>5
  <2> QED
    BY <2>1, <2>2, <2>3 DEF Dense
<1> QED
  BY <1>3, <1>6, <1>8, <1>9 DEF q, n, l

\* The pages of a relation without tuples.
LEMMA EmptyRelationFacts == WellFormed(EmptyRelation)
<1>1. EmptyRelation \in Relation
  BY RelationStorageAssumption
     DEF EmptyRelation, Relation, LinePointer, FreeLine, NoRedirects, Redirects
<1>2. \A t \in Tid : ~InUse(EmptyRelation, t)
  BY DEF InUse, EmptyRelation, FreeLine
<1>3. ASSUME NEW b \in Block PROVE Filled(EmptyRelation, b, 0)
  BY <1>2, TidFacts DEF Filled
<1>4. 0 \in 0..LinesPerPage
  BY RelationStorageAssumption
<1> QED
  BY <1>1, <1>2, <1>3, <1>4 DEF WellFormed, Dense, RowsOnLines

\* Such pages are as good as before.
LEMMA SameLinesWellFormed ==
  ASSUME NEW r, NEW q, WellFormed(r), SameLines(r, q)
  PROVE  WellFormed(q)
<1>1. ASSUME NEW b \in Block, NEW n, Filled(r, b, n) PROVE Filled(q, b, n)
  BY <1>1, TidFacts DEF Filled, SameLines
<1> QED
  BY <1>1 DEF WellFormed, Dense, RowsOnLines, SameLines

\* mark_live
LEMMA MarkLiveFacts ==
  ASSUME NEW r \in Relation, NEW S
  PROVE  LET q == MarkLive(r, S)
         IN  /\ SameLines(r, q) /\ q.hot = r.hot /\ q.upd = r.upd
             /\ \A t \in Tid : q.line[t].st = IF t \in S /\ r.line[t].st = "Pending" THEN "Live"
                                              ELSE r.line[t].st
<1> DEFINE q == MarkLive(r, S)
           New(t) == IF t \in S /\ r.line[t].st = "Pending"
                     THEN [r.line[t] EXCEPT !.st = "Live"] ELSE r.line[t]
<1>1. q = [r EXCEPT !.line = [t \in Tid |-> New(t)]]
  BY DEF MarkLive
<1>2. ASSUME NEW t \in Tid
      PROVE  /\ New(t) \in LinePointer
             /\ New(t).row = r.line[t].row /\ New(t).root = r.line[t].root
             /\ New(t).st = IF t \in S /\ r.line[t].st = "Pending" THEN "Live" ELSE r.line[t].st
  <2>1. r.line[t] \in LinePointer
    BY DEF Relation
  <2> QED
    BY <2>1 DEF LinePointer
<1> HIDE DEF q, New
<1>3. /\ q.line = [t \in Tid |-> New(t)] /\ q.hot = r.hot /\ q.upd = r.upd
      /\ q.next_block = r.next_block /\ q \in Relation
  BY <1>1, <1>2 DEF Relation
<1>4. \A t \in Tid : q.line[t] = New(t)
  BY <1>3
<1> QED
  BY <1>2, <1>3, <1>4 DEF SameLines, InUse, q

\* mark_dead
LEMMA MarkDeadFacts ==
  ASSUME NEW r \in Relation, NEW S
  PROVE  LET q == MarkDead(r, S)
         IN  /\ SameLines(r, q) /\ q.hot = r.hot /\ q.upd = r.upd
             /\ \A t \in Tid : q.line[t].st = IF t \in S /\ r.line[t].st # "Free" THEN "Dead"
                                              ELSE r.line[t].st
<1> DEFINE q == MarkDead(r, S)
           New(t) == IF t \in S /\ r.line[t].st # "Free"
                     THEN [r.line[t] EXCEPT !.st = "Dead"] ELSE r.line[t]
<1>1. q = [r EXCEPT !.line = [t \in Tid |-> New(t)]]
  BY DEF MarkDead
<1>2. ASSUME NEW t \in Tid
      PROVE  /\ New(t) \in LinePointer
             /\ New(t).row = r.line[t].row /\ New(t).root = r.line[t].root
             /\ New(t).st = IF t \in S /\ r.line[t].st # "Free" THEN "Dead" ELSE r.line[t].st
  <2>1. r.line[t] \in LinePointer
    BY DEF Relation
  <2> QED
    BY <2>1 DEF LinePointer
<1> HIDE DEF q, New
<1>3. /\ q.line = [t \in Tid |-> New(t)] /\ q.hot = r.hot /\ q.upd = r.upd
      /\ q.next_block = r.next_block /\ q \in Relation
  BY <1>1, <1>2 DEF Relation
<1>4. \A t \in Tid : q.line[t] = New(t)
  BY <1>3
<1> QED
  BY <1>2, <1>3, <1>4 DEF SameLines, InUse, q

-----------------------------------------------------------------------------
(* Redirects *)

\* Redirects laid over others.
LEMMA OverrideFacts ==
  ASSUME NEW f \in Redirects, NEW g \in Redirects
  PROVE  /\ Override(f, g) \in Redirects
         /\ \A t \in Tid : Override(f, g)[t] # NoTid => f[t] # NoTid \/ g[t] # NoTid
BY DEF Override, Redirects

\* Following redirects from a Tid ends at a Tid, and stays where there is none.
LEMMA ResolveFacts ==
  ASSUME NEW f \in Redirects, NEW t \in Tid
  PROVE  /\ Resolve(f, t) \in Tid
         /\ f[t] = NoTid => Resolve(f, t) = t
<1>1. Hop1(f) \in [Tid -> Tid] /\ (f[t] = NoTid => Hop1(f)[t] = t)
  BY DEF Hop1, Redirects
<1>2. ASSUME NEW g \in [Tid -> Tid]
      PROVE  Twice(g) \in [Tid -> Tid] /\ (g[t] = t => Twice(g)[t] = t)
  BY DEF Twice
<1>3. Hop2(f) \in [Tid -> Tid] /\ (f[t] = NoTid => Hop2(f)[t] = t)
  BY <1>1, <1>2 DEF Hop2
<1>4. Hop4(f) \in [Tid -> Tid] /\ (f[t] = NoTid => Hop4(f)[t] = t)
  BY <1>2, <1>3 DEF Hop4
<1> QED
  BY <1>2, <1>4 DEF Resolve

\* Path compression adds no redirect.
LEMMA CompressFacts ==
  ASSUME NEW f \in Redirects, NEW t \in Tid
  PROVE  /\ Compress(f, t) \in Redirects
         /\ \A x \in Tid : Compress(f, t)[x] # NoTid => f[x] # NoTid
BY ResolveFacts, SMTT(20) DEF Compress, Redirects

-----------------------------------------------------------------------------
(* Merging *)

\* The levels of S that invalidate t with a command id, redirect t, or have a
\* checkpoint of block b.
InvCidLevels(S, t) == {i \in DOMAIN S : S[i].inv_cid[t] # 0}
HotLevels(S, t) == {i \in DOMAIN S : S[i].hot[t] # NoTid}
UpdLevels(S, t) == {i \in DOMAIN S : S[i].upd[t] # NoTid}
ChkLevels(S, b) == {i \in DOMAIN S : S[i].chk[b] # NoCheckpoint}
KeptInsLevels(S, t) == {i \in KeptLevels(S) : t \in S[i].ins}

\* The lines that the levels below the lowest clear appended.
BelowClear(S) == {t \in Tid : \E i \in DOMAIN S : i < Lowest(ClearLevels(S)) /\
                     S[i].chk[t[1]] # NoCheckpoint /\ t[2] > S[i].chk[t[1]]}

\* A merged stack, field by field.
LEMMA MergeSets ==
  ASSUME NEW S
  PROVE  /\ Merge(S).ins = UNION {S[i].ins : i \in KeptLevels(S)}
         /\ Merge(S).inv = UNION {S[i].inv : i \in DOMAIN S}
         /\ Merge(S).cleared = (ClearLevels(S) # {})
         /\ Merge(S).snapshot = IF ClearLevels(S) = {} THEN EmptyRelation
                                ELSE MarkDead(S[Lowest(ClearLevels(S))].snapshot, BelowClear(S))
         /\ DOMAIN Merge(S) = {"ins", "inv", "ins_cid", "inv_cid", "hot", "upd", "chk",
                               "cleared", "snapshot"}
BY ZenonT(30) DEF Merge, BelowClear

\* The maps of a merged overlay.
LEMMA MergeMaps ==
  ASSUME NEW S
  PROVE  /\ Merge(S).ins_cid = [t \in Tid |-> IF KeptInsLevels(S, t) = {} THEN 0
                                              ELSE S[Highest(KeptInsLevels(S, t))].ins_cid[t]]
         /\ Merge(S).inv_cid = [t \in Tid |-> IF InvCidLevels(S, t) = {} THEN 0
                                              ELSE S[Highest(InvCidLevels(S, t))].inv_cid[t]]
         /\ Merge(S).hot = [t \in Tid |-> IF HotLevels(S, t) = {} THEN NoTid
                                          ELSE S[Highest(HotLevels(S, t))].hot[t]]
         /\ Merge(S).upd = [t \in Tid |-> IF UpdLevels(S, t) = {} THEN NoTid
                                          ELSE S[Highest(UpdLevels(S, t))].upd[t]]
         /\ Merge(S).chk = [b \in Block |-> IF ChkLevels(S, b) = {} THEN NoCheckpoint
                                            ELSE S[Lowest(ChkLevels(S, b))].chk[b]]
BY Zenon DEF Merge, KeptInsLevels, InvCidLevels, HotLevels, UpdLevels, ChkLevels

\* The fields of an overlay.
LEMMA OverlayFields ==
  ASSUME NEW o \in Overlay
  PROVE  /\ o.ins \in SUBSET Tid /\ o.inv \in SUBSET Tid /\ o.cleared \in BOOLEAN
         /\ o.ins_cid \in [Tid -> Cid] /\ o.inv_cid \in [Tid -> Cid]
         /\ o.hot \in Redirects /\ o.upd \in Redirects /\ o.chk \in Checkpoints
         /\ o.snapshot \in Relation
BY DEF Overlay

\* A set of levels of S has a highest and a lowest one.
LEMMA LevelIn ==
  ASSUME NEW S \in Seq(Overlay), NEW L \in SUBSET DOMAIN S, L # {}
  PROVE  /\ Highest(L) \in L /\ \A j \in L : j <= Highest(L)
         /\ Lowest(L) \in L /\ \A j \in L : Lowest(L) <= j
         /\ S[Highest(L)] \in Overlay /\ S[Lowest(L)] \in Overlay
<1>1. DOMAIN S = 1..Len(S) /\ Len(S) \in Nat /\ \A i \in DOMAIN S : S[i] \in Overlay
  OBVIOUS
<1>2. L \in SUBSET (0..Len(S)) /\ L \in SUBSET Nat
  BY <1>1
<1> QED
  BY <1>1, <1>2, HighestIn, LowestIn, Zenon

\* A merged stack of overlays is an overlay.
LEMMA MergeType ==
  ASSUME NEW S \in Seq(Overlay)
  PROVE  Merge(S) \in Overlay
<1> DEFINE m == Merge(S)
<1>1. /\ DOMAIN S = 1..Len(S) /\ \A i \in DOMAIN S : S[i] \in Overlay
      /\ KeptLevels(S) \subseteq DOMAIN S /\ ClearLevels(S) \subseteq DOMAIN S
  BY DEF KeptLevels, ClearLevels
<1>2. m.ins \in SUBSET Tid /\ m.inv \in SUBSET Tid /\ m.cleared \in BOOLEAN
  <2>1. /\ m.ins = UNION {S[i].ins : i \in KeptLevels(S)}
        /\ m.inv = UNION {S[i].inv : i \in DOMAIN S}
        /\ m.cleared = (ClearLevels(S) # {})
    BY MergeSets, Zenon
  <2>2. \A i \in DOMAIN S : S[i].ins \in SUBSET Tid /\ S[i].inv \in SUBSET Tid
    BY <1>1, OverlayFields
  <2> HIDE DEF m
  <2> QED
    BY <1>1, <2>1, <2>2
<1>3. m.ins_cid \in [Tid -> Cid]
  <2>1. ASSUME NEW t \in Tid, KeptInsLevels(S, t) # {}
        PROVE  S[Highest(KeptInsLevels(S, t))].ins_cid[t] \in Cid
    <3>1. KeptInsLevels(S, t) \in SUBSET DOMAIN S
      BY <1>1 DEF KeptInsLevels
    <3> QED
      BY <2>1, <3>1, LevelIn, OverlayFields
  <2>2. m.ins_cid = [t \in Tid |-> IF KeptInsLevels(S, t) = {} THEN 0
                               ELSE S[Highest(KeptInsLevels(S, t))].ins_cid[t]]
    BY MergeMaps, Zenon
  <2> HIDE DEF m
  <2> QED
    BY <2>1, <2>2, MaxCidAssumption DEF Cid
<1>4. m.inv_cid \in [Tid -> Cid]
  <2>1. ASSUME NEW t \in Tid, InvCidLevels(S, t) # {}
        PROVE  S[Highest(InvCidLevels(S, t))].inv_cid[t] \in Cid
    <3>1. InvCidLevels(S, t) \in SUBSET DOMAIN S
      BY <1>1 DEF InvCidLevels
    <3> QED
      BY <2>1, <3>1, LevelIn, OverlayFields
  <2>2. m.inv_cid = [t \in Tid |-> IF InvCidLevels(S, t) = {} THEN 0
                               ELSE S[Highest(InvCidLevels(S, t))].inv_cid[t]]
    BY MergeMaps, Zenon
  <2> HIDE DEF m
  <2> QED
    BY <2>1, <2>2, MaxCidAssumption DEF Cid
<1>5. m.hot \in Redirects
  <2>1. ASSUME NEW t \in Tid, HotLevels(S, t) # {}
        PROVE  S[Highest(HotLevels(S, t))].hot[t] \in Tid \cup {NoTid}
    <3>1. HotLevels(S, t) \in SUBSET DOMAIN S
      BY <1>1 DEF HotLevels
    <3> QED
      BY <2>1, <3>1, LevelIn, OverlayFields DEF Redirects
  <2>2. m.hot = [t \in Tid |-> IF HotLevels(S, t) = {} THEN NoTid
                           ELSE S[Highest(HotLevels(S, t))].hot[t]]
    BY MergeMaps, Zenon
  <2> HIDE DEF m
  <2> QED
    BY <2>1, <2>2 DEF Redirects
<1>6. m.upd \in Redirects
  <2>1. ASSUME NEW t \in Tid, UpdLevels(S, t) # {}
        PROVE  S[Highest(UpdLevels(S, t))].upd[t] \in Tid \cup {NoTid}
    <3>1. UpdLevels(S, t) \in SUBSET DOMAIN S
      BY <1>1 DEF UpdLevels
    <3> QED
      BY <2>1, <3>1, LevelIn, OverlayFields DEF Redirects
  <2>2. m.upd = [t \in Tid |-> IF UpdLevels(S, t) = {} THEN NoTid
                           ELSE S[Highest(UpdLevels(S, t))].upd[t]]
    BY MergeMaps, Zenon
  <2> HIDE DEF m
  <2> QED
    BY <2>1, <2>2 DEF Redirects
<1>7. m.chk \in Checkpoints
  <2>1. ASSUME NEW b \in Block, ChkLevels(S, b) # {}
        PROVE  S[Lowest(ChkLevels(S, b))].chk[b] \in (0..LinesPerPage) \cup {NoCheckpoint}
    <3>1. ChkLevels(S, b) \in SUBSET DOMAIN S
      BY <1>1 DEF ChkLevels
    <3> QED
      BY <2>1, <3>1, LevelIn, OverlayFields DEF Checkpoints
  <2>2. m.chk = [b \in Block |-> IF ChkLevels(S, b) = {} THEN NoCheckpoint
                             ELSE S[Lowest(ChkLevels(S, b))].chk[b]]
    BY MergeMaps, Zenon
  <2> HIDE DEF m
  <2> QED
    BY <2>1, <2>2 DEF Checkpoints
<1>8. m.snapshot \in Relation
  <2>1. CASE ClearLevels(S) = {}
    BY <2>1, MergeSets, EmptyRelationFacts DEF WellFormed
  <2>2. CASE ClearLevels(S) # {}
    <3>1. S[Lowest(ClearLevels(S))].snapshot \in Relation
      BY <1>1, <2>2, LevelIn, Zenon DEF Overlay
    <3> QED
      BY <2>2, <3>1, MergeSets, MarkDeadFacts DEF SameLines
  <2> QED
    BY <2>1, <2>2
<1>9. m = [ins |-> m.ins, inv |-> m.inv, ins_cid |-> m.ins_cid, inv_cid |-> m.inv_cid,
           hot |-> m.hot, upd |-> m.upd, chk |-> m.chk, cleared |-> m.cleared,
           snapshot |-> m.snapshot]
  BY Zenon DEF Merge
<1> HIDE DEF m
<1>10. m \in Overlay
  BY <1>2, <1>3, <1>4, <1>5, <1>6, <1>7, <1>8, <1>9 DEF Overlay
<1> QED
  BY <1>10 DEF m

\* Stacks of them are stacks of overlays.
LEMMA SoundStack ==
  ASSUME NEW S \in Seq(SoundOverlay)
  PROVE  /\ S \in Seq(Overlay) /\ DOMAIN S = 1..Len(S) /\ Len(S) \in Nat
         /\ \A i \in 1..Len(S) : S[i] \in Overlay /\ WellFormed(S[i].snapshot)
<1>1. SoundOverlay \subseteq Overlay
  BY DEF SoundOverlay
<1>2. S \in Seq(Overlay)
  BY <1>1
<1> QED
  BY <1>2 DEF SoundOverlay

\* Merging sound overlays gives a sound one.
LEMMA MergeSound ==
  ASSUME NEW S \in Seq(SoundOverlay)
  PROVE  Merge(S) \in SoundOverlay
<1>1. S \in Seq(Overlay) /\ DOMAIN S = 1..Len(S) /\ \A i \in 1..Len(S) : WellFormed(S[i].snapshot)
  BY SoundStack
<1>2. WellFormed(Merge(S).snapshot)
  <2>1. CASE ClearLevels(S) = {}
    BY <2>1, MergeSets, EmptyRelationFacts
  <2>2. CASE ClearLevels(S) # {}
    <3> DEFINE r == S[Lowest(ClearLevels(S))].snapshot
    <3>1. ClearLevels(S) \in SUBSET DOMAIN S
      BY DEF ClearLevels
    <3>2. Lowest(ClearLevels(S)) \in DOMAIN S
      BY <1>1, <2>2, <3>1, LevelIn
    <3>3. WellFormed(r)
      BY <1>1, <3>2
    <3>4. Merge(S).snapshot = MarkDead(r, BelowClear(S))
      BY <2>2, MergeSets
    <3> HIDE DEF r
    <3>5. SameLines(r, MarkDead(r, BelowClear(S)))
      BY <3>3, MarkDeadFacts DEF WellFormed
    <3> QED
      BY <3>3, <3>4, <3>5, SameLinesWellFormed
  <2> QED
    BY <2>1, <2>2
<1> QED
  BY <1>1, <1>2, MergeType DEF SoundOverlay

-----------------------------------------------------------------------------
(* Writing to an overlay *)

\* The overlay of a level that has done nothing is sound.
LEMMA EmptyOverlayFacts == EmptyOverlay \in SoundOverlay
<1>1. NoCids \in [Tid -> Cid] /\ NoRedirects \in Redirects
      /\ [b \in Block |-> NoCheckpoint] \in Checkpoints /\ EmptyRelation \in Relation
  BY MaxCidAssumption, EmptyRelationFacts
     DEF NoCids, Cid, NoRedirects, Redirects, Checkpoints, WellFormed
<1>2. EmptyOverlay \in Overlay
  BY <1>1 DEF EmptyOverlay, Overlay
<1>3. EmptyOverlay.snapshot = EmptyRelation
  BY DEF EmptyOverlay
<1> QED
  BY <1>2, <1>3, EmptyRelationFacts DEF SoundOverlay

\* An insert is recorded.
LEMMA RecordInsertFacts ==
  ASSUME NEW o \in SoundOverlay, NEW r, WellFormed(r), HasRoom(r), NEW c \in Cid
  PROVE  LET p == RecordInsert(o, r, c)
             n == NextTid(r)
         IN  /\ p \in SoundOverlay
             /\ p.ins = o.ins \cup {n} /\ p.inv = o.inv
             /\ p.ins_cid = [o.ins_cid EXCEPT ![n] = c] /\ p.inv_cid = o.inv_cid
             /\ p.hot = o.hot /\ p.upd = o.upd /\ p.cleared = o.cleared
<1> DEFINE p == RecordInsert(o, r, c)
           n == NextTid(r)
           k == LineCount(r, n[1])
<1>1. n \in Tid /\ n[1] \in Block /\ k \in 0..LinesPerPage
  BY NextTidIsFree, TidFacts DEF WellFormed
<1>2. o \in Overlay /\ WellFormed(o.snapshot)
  BY DEF SoundOverlay
<1>3. /\ p.ins = o.ins \cup {n} /\ p.inv = o.inv
      /\ p.ins_cid = [o.ins_cid EXCEPT ![n] = c] /\ p.inv_cid = o.inv_cid
      /\ p.hot = o.hot /\ p.upd = o.upd /\ p.cleared = o.cleared /\ p.snapshot = o.snapshot
      /\ p.chk = [o.chk EXCEPT ![n[1]] = IF o.chk[n[1]] = NoCheckpoint THEN k ELSE o.chk[n[1]]]
      /\ p = [o EXCEPT !.ins = p.ins, !.ins_cid = p.ins_cid, !.chk = p.chk]
  BY <1>2 DEF RecordInsert, Overlay
<1> HIDE DEF p, n, k
<1>4. p.ins \in SUBSET Tid /\ p.ins_cid \in [Tid -> Cid] /\ p.chk \in Checkpoints
  BY <1>1, <1>2, <1>3, OverlayFields DEF Checkpoints
<1>5. p \in Overlay
  BY <1>2, <1>3, <1>4 DEF Overlay
<1> QED
  BY <1>2, <1>3, <1>5 DEF SoundOverlay, p, n

\* An invalidation is recorded.
LEMMA RecordInvalidateFacts ==
  ASSUME NEW o \in SoundOverlay, NEW t \in Tid, NEW c \in Cid
  PROVE  LET p == RecordInvalidate(o, t, c)
         IN  /\ p \in SoundOverlay
             /\ p.ins = o.ins /\ p.inv = o.inv \cup {t}
             /\ p.ins_cid = o.ins_cid /\ p.inv_cid = [o.inv_cid EXCEPT ![t] = c]
             /\ p.hot = o.hot /\ p.upd = o.upd /\ p.cleared = o.cleared
<1> DEFINE p == RecordInvalidate(o, t, c)
<1>2. o \in Overlay /\ WellFormed(o.snapshot)
  BY DEF SoundOverlay
<1>3. /\ p.ins = o.ins /\ p.inv = o.inv \cup {t}
      /\ p.ins_cid = o.ins_cid /\ p.inv_cid = [o.inv_cid EXCEPT ![t] = c]
      /\ p.hot = o.hot /\ p.upd = o.upd /\ p.cleared = o.cleared /\ p.snapshot = o.snapshot
      /\ p = [o EXCEPT !.inv = p.inv, !.inv_cid = p.inv_cid]
  BY <1>2 DEF RecordInvalidate, Overlay
<1> HIDE DEF p
<1>4. p.inv \in SUBSET Tid /\ p.inv_cid \in [Tid -> Cid]
  BY <1>2, <1>3, OverlayFields
<1>5. p \in Overlay
  BY <1>2, <1>3, <1>4, Zenon DEF Overlay
<1> QED
  BY <1>2, <1>3, <1>5 DEF SoundOverlay, p

\* A redirect is recorded.
LEMMA RecordRedirectFacts ==
  ASSUME NEW o \in SoundOverlay, NEW t \in Tid, NEW n \in Tid, NEW hot
  PROVE  LET p == RecordRedirect(o, t, n, hot)
         IN  /\ p \in SoundOverlay
             /\ p.ins = o.ins /\ p.inv = o.inv /\ p.cleared = o.cleared
             /\ p.ins_cid = o.ins_cid /\ p.inv_cid = o.inv_cid
             /\ \A x \in Tid \ {t} : p.hot[x] = o.hot[x] /\ p.upd[x] = o.upd[x]
<1> DEFINE p == RecordRedirect(o, t, n, hot)
<1>2. o \in Overlay /\ WellFormed(o.snapshot)
  BY DEF SoundOverlay
<1>3. /\ p.ins = o.ins /\ p.inv = o.inv
      /\ p.ins_cid = o.ins_cid /\ p.inv_cid = o.inv_cid
      /\ p.hot = [o.hot EXCEPT ![t] = IF hot THEN n ELSE o.hot[t]]
      /\ p.upd = [o.upd EXCEPT ![t] = n]
      /\ p.cleared = o.cleared /\ p.snapshot = o.snapshot
      /\ p = [o EXCEPT !.hot = p.hot, !.upd = p.upd]
  BY <1>2, Zenon DEF RecordRedirect, Overlay
<1> HIDE DEF p
<1>4. p.hot \in Redirects /\ p.upd \in Redirects
  BY <1>2, <1>3, OverlayFields DEF Redirects
<1>5. \A x \in Tid \ {t} : p.hot[x] = o.hot[x] /\ p.upd[x] = o.upd[x]
  BY <1>2, <1>3, OverlayFields DEF Redirects
<1>6. p \in Overlay
  BY <1>2, <1>3, <1>4, Zenon DEF Overlay
<1> QED
  BY <1>2, <1>3, <1>5, <1>6 DEF SoundOverlay, p

\* A clear is recorded.
LEMMA RecordClearFacts ==
  ASSUME NEW o \in SoundOverlay, NEW r, WellFormed(r), NEW V \in SUBSET Tid
  PROVE  RecordClear(o, r, V) \in SoundOverlay
<1> DEFINE p == RecordClear(o, r, V)
           q == RestoreToCheckpoints(r, o.chk)
<1>1. o \in Overlay /\ WellFormed(o.snapshot)
  BY DEF SoundOverlay
<1>2. WellFormed(q)
  BY MarkDeadFacts, SameLinesWellFormed DEF RestoreToCheckpoints, WellFormed
<1> HIDE DEF q
<1>3. /\ p.ins = {} /\ p.inv = o.inv \cup V /\ p.ins_cid = NoCids /\ p.cleared = TRUE
      /\ p.snapshot = (IF o.cleared THEN o.snapshot ELSE q)
      /\ p = [o EXCEPT !.ins = p.ins, !.ins_cid = p.ins_cid, !.inv = p.inv, !.cleared = p.cleared,
                       !.snapshot = p.snapshot]
  BY <1>1 DEF RecordClear, Overlay, q
<1> HIDE DEF p
<1>4. /\ p.ins \in SUBSET Tid /\ p.inv \in SUBSET Tid /\ p.ins_cid \in [Tid -> Cid]
      /\ p.cleared \in BOOLEAN /\ WellFormed(p.snapshot)
  <2>1. NoCids \in [Tid -> Cid]
    BY MaxCidAssumption DEF NoCids, Cid
  <2>2. o.inv \in SUBSET Tid
    BY <1>1, OverlayFields
  <2>3. WellFormed(p.snapshot)
    BY <1>1, <1>2, <1>3
  <2> QED
    BY <1>3, <2>1, <2>2, <2>3, Zenon
<1>5. p \in Overlay
  BY <1>1, <1>3, <1>4, Zenon DEF Overlay, WellFormed
<1> QED
  BY <1>4, <1>5 DEF SoundOverlay, p

\* A tuple is appended to a well-formed relation.
LEMMA AppendWellFormed ==
  ASSUME NEW r, WellFormed(r), HasRoom(r), NEW row \in Row, NEW root \in Tid \cup {NoTid}
  PROVE  LET q == AppendPending(r, row, root)
             n == NextTid(r)
         IN  /\ WellFormed(q) /\ n \in Tid /\ ~InUse(r, n) /\ q.hot = r.hot /\ q.upd = r.upd
             /\ q.line[n] = [st |-> "Pending", row |-> row, root |-> root]
             /\ \A t \in Tid \ {n} : q.line[t] = r.line[t]
<1> DEFINE q == AppendPending(r, row, root)
           n == NextTid(r)
<1>1. r \in Relation /\ Dense(r) /\ RowsOnLines(r)
  BY DEF WellFormed
<1>2. /\ q \in Relation /\ Dense(q) /\ q.hot = r.hot /\ q.upd = r.upd
      /\ q.line[n] = [st |-> "Pending", row |-> row, root |-> root]
      /\ \A t \in Tid \ {n} : q.line[t] = r.line[t]
  BY <1>1, AppendPendingFacts
<1>3. n \in Tid /\ ~InUse(r, n)
  BY <1>1, NextTidIsFree
<1> HIDE DEF q, n
<1>4. RowsOnLines(q)
  BY <1>1, <1>2 DEF RowsOnLines, InUse
<1> QED
  BY <1>2, <1>3, <1>4 DEF WellFormed, q, n

\* Whether there is room, and where, depends on the lines alone.
LEMMA RoomOnLines ==
  ASSUME NEW r, NEW q, q.line = r.line, q.next_block = r.next_block
  PROVE  (HasRoom(q) <=> HasRoom(r)) /\ NextTid(q) = NextTid(r)
<1>1. \A b : LineCount(q, b) = LineCount(r, b)
  BY DEF LineCount, InUse
<1>2. Appendable(q) = Appendable(r)
  BY <1>1 DEF Appendable
<1>3. AppendTargetBlock(q) = AppendTargetBlock(r)
  BY <1>2 DEF AppendTargetBlock
<1> QED
  BY <1>1, <1>2, <1>3 DEF HasRoom, NextTid

\* Following the redirects of a transaction, committed chains are shortened; the
\* lines stay as they are and no redirect is added.
LEMMA CompressUpdateFacts ==
  ASSUME NEW r, WellFormed(r), NEW S \in Seq(Overlay), NEW t \in Tid
  PROVE  LET q == CompressUpdate(S, r, t)
         IN  /\ WellFormed(q) /\ q.line = r.line /\ q.next_block = r.next_block
             /\ \A x \in Tid : /\ q.hot[x] # NoTid => r.hot[x] # NoTid
                               /\ q.upd[x] # NoTid => r.upd[x] # NoTid
<1> DEFINE q == CompressUpdate(S, r, t)
           U == UpdMap(S, r)
           H == HotMap(S, r)
           u == CompressAlong(r.upd, U, t)
           h == CompressAlong(r.hot, H, Resolve(U, t))
<1>1. r \in Relation /\ r.hot \in Redirects /\ r.upd \in Redirects /\ Merge(S) \in Overlay
  BY MergeType DEF WellFormed, Relation
<1>2. U \in Redirects /\ H \in Redirects
  BY <1>1, OverrideFacts, OverlayFields DEF UpdMap, HotMap
<1>3. Resolve(U, t) \in Tid
  BY <1>2, ResolveFacts
<1>4. /\ u \in Redirects /\ h \in Redirects
      /\ \A x \in Tid : (u[x] # NoTid => r.upd[x] # NoTid) /\ (h[x] # NoTid => r.hot[x] # NoTid)
  BY <1>1, <1>3, CompressFacts, Zenon DEF CompressAlong
<1>5. q = [r EXCEPT !.upd = u, !.hot = h]
  BY DEF CompressUpdate
<1> HIDE DEF q, U, H, u, h
<1>6. q.line = r.line /\ q.next_block = r.next_block /\ q.hot = h /\ q.upd = u /\ q \in Relation
  BY <1>1, <1>4, <1>5, Zenon DEF Relation
<1>7. SameLines(r, q)
  BY <1>6 DEF SameLines, InUse
<1> QED
  BY <1>4, <1>6, <1>7, SameLinesWellFormed DEF q

-----------------------------------------------------------------------------
(* Stacks without a TRUNCATE *)

\* Visibility with one overlay that has not cleared the table,
LEMMA SingleUncleared ==
  ASSUME NEW o, ~o.cleared, NEW t, NEW lim
  PROVE  LET own == t \in o.ins /\ o.ins_cid[t] < lim
             gone == t \in o.inv /\ o.inv_cid[t] < lim
         IN  SingleVisibility(o, t, lim) = IF gone \/ (t \in o.ins /\ ~own) THEN "hidden"
                                           ELSE IF own THEN "own" ELSE "shared"
BY DEF SingleVisibility

\* with several of them,
LEMMA MultiUncleared ==
  ASSUME NEW S \in Seq(Overlay), Uncleared(S), NEW t, NEW lim, OneInserter(S, t)
  PROVE  LET own == InsBefore(S, t, lim)
             gone == InvBefore(S, t, lim)
             ins == \E i \in DOMAIN S : t \in S[i].ins
         IN  MultiVisibility(S, t, lim) = IF gone \/ (ins /\ ~own) THEN "hidden"
                                          ELSE IF own THEN "own" ELSE "shared"
<1> DEFINE L == {i \in DOMAIN S : t \in S[i].inv /\ S[i].inv_cid[t] < lim}
           I == InsLevels(S, t)
<1>1. ClearLevels(S) = {} /\ ~ClearsTid(S, t)
  BY DEF ClearLevels, ClearsTid, Uncleared
<1>2. Invalidated(S, t, lim) <=> InvBefore(S, t, lim)
  <2>1. CASE L = {}
    BY <2>1, ZenonT(20) DEF Invalidated, InvBefore
  <2>2. CASE L # {}
    <3>1. Highest(L) \in DOMAIN S
      BY <2>2, LevelIn
    <3>2. ~S[Highest(L)].cleared
      BY <3>1 DEF Uncleared
    <3>3. Invalidated(S, t, lim)
      BY <2>2, <3>2, ZenonT(20) DEF Invalidated
    <3>4. InvBefore(S, t, lim)
      BY <2>2 DEF InvBefore
    <3> QED
      BY <3>3, <3>4
  <2> QED
    BY <2>1, <2>2
<1>3. OwnsInserted(S, t) <=> \E i \in DOMAIN S : t \in S[i].ins
  BY <1>1 DEF OwnsInserted, InsLevels
<1>4. (OwnsInserted(S, t) /\ S[Highest(I)].ins_cid[t] < lim) <=> InsBefore(S, t, lim)
  <2>1. CASE I = {}
    BY <2>1 DEF InsBefore, InsLevels, OwnsInserted
  <2>2. CASE I # {}
    <3>1. Highest(I) \in I
      BY <2>2, LevelIn DEF InsLevels
    <3> QED
      BY <1>1, <2>2, <3>1 DEF InsBefore, InsLevels, OwnsInserted, OneInserter
  <2> QED
    BY <2>1, <2>2
<1> HIDE DEF L
<1> QED
  BY <1>1, <1>2, <1>3, <1>4 DEF MultiVisibility

\* and with any number.
LEMMA VisibleUncleared ==
  ASSUME NEW S \in Seq(Overlay), Uncleared(S), NEW r, NEW t \in Tid, NEW lim, OneInserter(S, t),
         \A i \in DOMAIN S : t \in S[i].ins => r.line[t].st = "Pending"
  PROVE  Visible(Deltas(S), r, t, lim)
           <=> /\ ~InvBefore(S, t, lim)
               /\ r.line[t].st = "Live" \/ InsBefore(S, t, lim)
<1> DEFINE own == InsBefore(S, t, lim)
           gone == InvBefore(S, t, lim)
           ins == \E i \in DOMAIN S : t \in S[i].ins
           v == IF gone \/ (ins /\ ~own) THEN "hidden" ELSE IF own THEN "own" ELSE "shared"
<1>1. Visibility(Deltas(S), t, lim) = v
  <2>1. CASE HasVisibilityDeltas(S) /\ Len(S) = 1
    <3>1. DOMAIN S = {1} /\ Deltas(S) = S /\ ~S[1].cleared
      BY <2>1 DEF Deltas, Uncleared
    <3>2. /\ own <=> t \in S[1].ins /\ S[1].ins_cid[t] < lim
          /\ gone <=> t \in S[1].inv /\ S[1].inv_cid[t] < lim
          /\ ins <=> t \in S[1].ins
      BY <3>1 DEF InsBefore, InvBefore
    <3>3. Visibility(S, t, lim) = SingleVisibility(S[1], t, lim)
      BY <2>1 DEF Visibility
    <3> QED
      BY <3>1, <3>2, <3>3, SingleUncleared
  <2>2. CASE HasVisibilityDeltas(S) /\ Len(S) # 1
    <3>1. Deltas(S) = S /\ Visibility(S, t, lim) = MultiVisibility(S, t, lim)
      BY <2>2 DEF Deltas, Visibility
    <3> QED
      BY <3>1, MultiUncleared
  <2>3. CASE ~HasVisibilityDeltas(S)
    <3>1. Deltas(S) = <<>> /\ ~own /\ ~gone /\ ~ins
      BY <2>3 DEF Deltas, InsBefore, InvBefore, HasVisibilityDeltas
    <3>2. Visibility(<<>>, t, lim) = MultiVisibility(<<>>, t, lim)
      BY DEF Visibility
    <3>3. DOMAIN <<>> = {} /\ <<>> \in Seq(Overlay)
      OBVIOUS
    <3>4. /\ Uncleared(<<>>) /\ OneInserter(<<>>, t) /\ ~InsBefore(<<>>, t, lim)
          /\ ~InvBefore(<<>>, t, lim) /\ ~\E i \in DOMAIN <<>> : t \in <<>>[i].ins
      BY <3>3 DEF Uncleared, OneInserter, InsBefore, InvBefore
    <3>5. MultiVisibility(<<>>, t, lim) = "shared"
      BY <3>3, <3>4, MultiUncleared, Zenon
    <3> QED
      BY <3>1, <3>2, <3>5
  <2> QED
    BY <2>1, <2>2, <2>3
<1>2. own => ins /\ r.line[t].st = "Pending"
  BY DEF InsBefore
<1>3. ins => r.line[t].st = "Pending"
  OBVIOUS
<1>4. Visible(Deltas(S), r, t, lim) <=> v # "hidden" /\ HasTuple(r, t, v = "own")
  BY <1>1 DEF Visible
<1> HIDE DEF own, gone, ins
<1> QED
  BY <1>2, <1>3, <1>4 DEF HasTuple, own, gone

\* The merged maps at one Tid.
LEMMA MergeAt ==
  ASSUME NEW S, NEW t \in Tid
  PROVE  /\ Merge(S).ins_cid[t] = IF KeptInsLevels(S, t) = {} THEN 0
                                  ELSE S[Highest(KeptInsLevels(S, t))].ins_cid[t]
         /\ Merge(S).inv_cid[t] = IF InvCidLevels(S, t) = {} THEN 0
                                  ELSE S[Highest(InvCidLevels(S, t))].inv_cid[t]
         /\ Merge(S).hot[t] = IF HotLevels(S, t) = {} THEN NoTid
                              ELSE S[Highest(HotLevels(S, t))].hot[t]
         /\ Merge(S).upd[t] = IF UpdLevels(S, t) = {} THEN NoTid
                              ELSE S[Highest(UpdLevels(S, t))].upd[t]
<1>1. Merge(S).ins_cid = [x \in Tid |-> IF KeptInsLevels(S, x) = {} THEN 0
                                        ELSE S[Highest(KeptInsLevels(S, x))].ins_cid[x]]
  BY MergeMaps, Zenon
<1>2. Merge(S).inv_cid = [x \in Tid |-> IF InvCidLevels(S, x) = {} THEN 0
                                        ELSE S[Highest(InvCidLevels(S, x))].inv_cid[x]]
  BY MergeMaps, Zenon
<1>3. Merge(S).hot = [x \in Tid |-> IF HotLevels(S, x) = {} THEN NoTid
                                    ELSE S[Highest(HotLevels(S, x))].hot[x]]
  BY MergeMaps, Zenon
<1>4. Merge(S).upd = [x \in Tid |-> IF UpdLevels(S, x) = {} THEN NoTid
                                    ELSE S[Highest(UpdLevels(S, x))].upd[x]]
  BY MergeMaps, Zenon
<1>5. Merge(S).ins_cid[t] = IF KeptInsLevels(S, t) = {} THEN 0
                            ELSE S[Highest(KeptInsLevels(S, t))].ins_cid[t]
  BY <1>1, Zenon
<1>6. Merge(S).inv_cid[t] = IF InvCidLevels(S, t) = {} THEN 0
                            ELSE S[Highest(InvCidLevels(S, t))].inv_cid[t]
  BY <1>2, Zenon
<1>7. Merge(S).hot[t] = IF HotLevels(S, t) = {} THEN NoTid
                        ELSE S[Highest(HotLevels(S, t))].hot[t]
  BY <1>3, Zenon
<1>8. Merge(S).upd[t] = IF UpdLevels(S, t) = {} THEN NoTid
                        ELSE S[Highest(UpdLevels(S, t))].upd[t]
  BY <1>4, ZenonT(30)
<1> QED
  BY <1>5, <1>6, <1>7, <1>8, Zenon

\* Such a stack is merged level by level.
LEMMA MergeUncleared ==
  ASSUME NEW S \in Seq(Overlay), Uncleared(S)
  PROVE  /\ Merge(S).ins = UNION {S[i].ins : i \in DOMAIN S}
         /\ Merge(S).inv = UNION {S[i].inv : i \in DOMAIN S}
         /\ ~Merge(S).cleared
         /\ \A t \in Tid : Merge(S).hot[t] # NoTid => \E i \in DOMAIN S : S[i].hot[t] # NoTid
         /\ \A t \in Tid : Merge(S).upd[t] # NoTid => \E i \in DOMAIN S : S[i].upd[t] # NoTid
         /\ \A t \in Tid : Merge(S).ins_cid[t] = 0
                              \/ \E i \in DOMAIN S : Merge(S).ins_cid[t] = S[i].ins_cid[t]
         /\ \A t \in Tid : Merge(S).inv_cid[t] = 0
                              \/ \E i \in DOMAIN S : Merge(S).inv_cid[t] = S[i].inv_cid[t]
<1>1. ClearLevels(S) = {} /\ KeptLevels(S) = DOMAIN S
  BY Zenon DEF ClearLevels, KeptLevels, Uncleared
<1>2. \A t \in Tid : Merge(S).hot[t] # NoTid => \E i \in DOMAIN S : S[i].hot[t] # NoTid
  BY MergeAt, Zenon DEF HotLevels
<1>3. \A t \in Tid : Merge(S).upd[t] # NoTid => \E i \in DOMAIN S : S[i].upd[t] # NoTid
  BY MergeAt, Zenon DEF UpdLevels
<1>4. ASSUME NEW t \in Tid
      PROVE  Merge(S).ins_cid[t] = 0 \/ \E i \in DOMAIN S : Merge(S).ins_cid[t] = S[i].ins_cid[t]
  <2>1. KeptInsLevels(S, t) \in SUBSET DOMAIN S
    BY DEF KeptInsLevels, KeptLevels
  <2>2. KeptInsLevels(S, t) # {} => Highest(KeptInsLevels(S, t)) \in DOMAIN S
    BY <2>1, LevelIn
  <2> QED
    BY <2>2, MergeAt
<1>5. ASSUME NEW t \in Tid
      PROVE  Merge(S).inv_cid[t] = 0 \/ \E i \in DOMAIN S : Merge(S).inv_cid[t] = S[i].inv_cid[t]
  <2>1. InvCidLevels(S, t) \in SUBSET DOMAIN S
    BY DEF InvCidLevels
  <2>2. InvCidLevels(S, t) # {} => Highest(InvCidLevels(S, t)) \in DOMAIN S
    BY <2>1, LevelIn
  <2> QED
    BY <2>2, MergeAt
<1> QED
  BY <1>1, <1>2, <1>3, <1>4, <1>5, MergeSets, Zenon

\* A Tid that nothing redirects resolves to itself.
LEMMA ResolvesToItself ==
  ASSUME NEW S \in Seq(Overlay), NEW r \in Relation, NEW t \in Tid,
         r.upd[t] = NoTid, r.hot[t] = NoTid,
         \A i \in DOMAIN S : S[i].upd[t] = NoTid /\ S[i].hot[t] = NoTid
  PROVE  ResolveUpdate(S, r, t) = t
<1>1. Merge(S).hot[t] = NoTid /\ Merge(S).upd[t] = NoTid
  <2>1. HotLevels(S, t) = {} /\ UpdLevels(S, t) = {}
    BY DEF HotLevels, UpdLevels
  <2> QED
    BY <2>1, MergeAt, Zenon
<1>2. r.hot \in Redirects /\ r.upd \in Redirects /\ Merge(S) \in Overlay
  BY MergeType DEF Relation
<1>3. HotMap(S, r) \in Redirects /\ UpdMap(S, r) \in Redirects
  BY <1>2, OverrideFacts, OverlayFields DEF HotMap, UpdMap
<1>4. HotMap(S, r)[t] = NoTid /\ UpdMap(S, r)[t] = NoTid
  BY <1>1 DEF HotMap, UpdMap, Override
<1> QED
  BY <1>3, <1>4, ResolveFacts DEF ResolveUpdate

-----------------------------------------------------------------------------
(* Stacks *)

\* A sequence has a length and members of its set.
LEMMA SeqFacts ==
  ASSUME NEW X, NEW S \in Seq(X)
  PROVE  /\ Len(S) \in Nat /\ DOMAIN S = 1..Len(S) /\ \A i \in 1..Len(S) : S[i] \in X
         /\ S = <<>> <=> Len(S) = 0
OBVIOUS

\* The top of a stack is replaced.
LEMMA SetTopFacts ==
  ASSUME NEW X, NEW S \in Seq(X), Len(S) >= 1, NEW o \in X
  PROVE  /\ SetTop(S, o) \in Seq(X) /\ Len(SetTop(S, o)) = Len(S)
         /\ SetTop(S, o)[Len(S)] = o
         /\ \A i \in 1..(Len(S) - 1) : SetTop(S, o)[i] = S[i]
BY DEF SetTop

\* A session gets its first overlay when it needs one.
LEMMA EnsureFacts ==
  ASSUME NEW S \in Seq(SoundOverlay)
  PROVE  /\ EnsureTransaction(S) \in Seq(SoundOverlay)
         /\ Len(EnsureTransaction(S)) = (IF Len(S) = 0 THEN 1 ELSE Len(S))
         /\ Len(EnsureTransaction(S)) >= 1
         /\ EnsureTransaction(S)[Len(EnsureTransaction(S))] = TopOf(S)
         /\ \A i \in 1..(Len(EnsureTransaction(S)) - 1) : EnsureTransaction(S)[i] = S[i]
         /\ TopOf(S) \in SoundOverlay
<1>1. EmptyOverlay \in SoundOverlay
  BY EmptyOverlayFacts
<1>2. CASE S = <<>>
  <2>1. EnsureTransaction(S) = <<EmptyOverlay>> /\ TopOf(S) = EmptyOverlay /\ Len(S) = 0
    BY <1>2 DEF EnsureTransaction, TopOf
  <2> HIDE DEF EnsureTransaction, TopOf
  <2> QED
    BY <1>1, <2>1
<1>3. CASE S # <<>>
  <2>1. EnsureTransaction(S) = S /\ TopOf(S) = S[Len(S)] /\ Len(S) # 0
    BY <1>3 DEF EnsureTransaction, TopOf
  <2> QED
    BY <2>1, SeqFacts
<1> QED
  BY <1>2, <1>3

\* A stack is cut below level n.
LEMMA CutFacts ==
  ASSUME NEW X, NEW S \in Seq(X), NEW n \in 1..(Len(S) + 1)
  PROVE  /\ SubSeq(S, 1, n - 1) \in Seq(X) /\ Len(SubSeq(S, 1, n - 1)) = n - 1
         /\ \A i \in 1..(n - 1) : SubSeq(S, 1, n - 1)[i] = S[i]
OBVIOUS

\* An overlay is put on top.
LEMMA PushFacts ==
  ASSUME NEW X, NEW S \in Seq(X), NEW o \in X
  PROVE  /\ Append(S, o) \in Seq(X) /\ Len(Append(S, o)) = Len(S) + 1
         /\ Append(S, o)[Len(S) + 1] = o
         /\ \A i \in 1..Len(S) : Append(S, o)[i] = S[i]
OBVIOUS

\* The levels from m up.
LEMMA TailFacts ==
  ASSUME NEW X, NEW S \in Seq(X), NEW m \in 1..Len(S)
  PROVE  /\ SubSeq(S, m, Len(S)) \in Seq(X) /\ Len(SubSeq(S, m, Len(S))) = Len(S) - m + 1
         /\ \A i \in 1..(Len(S) - m + 1) : SubSeq(S, m, Len(S))[i] = S[m + i - 1]
OBVIOUS

\* What holds of some level of that tail holds of some level from m up.
LEMMA TailLevels ==
  ASSUME NEW X, NEW S \in Seq(X), NEW m \in 1..Len(S)
  PROVE  LET T == SubSeq(S, m, Len(S))
         IN  /\ \A i \in DOMAIN T : i + m - 1 \in m..Len(S) /\ T[i] = S[i + m - 1]
             /\ \A i \in m..Len(S) : i - m + 1 \in DOMAIN T /\ T[i - m + 1] = S[i]
<1> DEFINE T == SubSeq(S, m, Len(S))
<1>1. /\ T \in Seq(X) /\ Len(T) = Len(S) - m + 1 /\ m \in Nat /\ Len(S) \in Nat
      /\ \A i \in 1..(Len(S) - m + 1) : T[i] = S[m + i - 1]
  BY TailFacts, SeqFacts
<1> HIDE DEF T
<1>2. DOMAIN T = 1..(Len(S) - m + 1)
  BY <1>1
<1> QED
  BY <1>1, <1>2 DEF T

-----------------------------------------------------------------------------
(* The storage engine *)

\* One session's stack is replaced.
LEMMA StackOfOne ==
  ASSUME StorageSound, NEW s \in Session, NEW S \in Seq(SoundOverlay),
         stack' = [stack EXCEPT ![s] = S]
  PROVE  /\ stack' \in [Session -> Seq(SoundOverlay)] /\ stack'[s] = S /\ OnlyStackOf(s)
         /\ Depth(s)' = Len(S) /\ stack[s] \in Seq(SoundOverlay)
BY DEF StorageSound, OnlyStackOf, Depth

\* A relation has as many live rows as a natural number.
LEMMA LiveCount == ASSUME NEW r PROVE Cardinality(LiveTids(r)) \in Nat
BY TidFinite, FS_Subset, FS_CardinalityType DEF LiveTids

\* What a delete or update works on is a Tid, and a row if the session sees it.
LEMMA TargetFacts ==
  ASSUME StorageSound, NEW s \in Session, NEW t \in Tid
  PROVE  /\ Deltas(stack[s]) \in Seq(Overlay) /\ Target(s, t) \in Tid
         /\ Found(s, t) => rel.line[Target(s, t)].row \in Row
<1> DEFINE D == Deltas(stack[s])
<1>1. stack[s] \in Seq(Overlay)
  BY SoundStack DEF StorageSound
<1>2. D \in Seq(Overlay)
  BY <1>1 DEF Deltas
<1> HIDE DEF D
<1>3. Merge(D).hot \in Redirects /\ Merge(D).upd \in Redirects
  BY <1>2, MergeType, OverlayFields
<1>4. rel \in Relation /\ rel.hot \in Redirects /\ rel.upd \in Redirects
  BY DEF StorageSound, WellFormed, Relation
<1>5. HotMap(D, rel) \in Redirects /\ UpdMap(D, rel) \in Redirects
  BY <1>3, <1>4, OverrideFacts DEF HotMap, UpdMap
<1>6. ResolveUpdate(D, rel, t) \in Tid
  BY <1>5, ResolveFacts DEF ResolveUpdate
<1>7. ASSUME NEW x \in Tid, NEW lim, Visible(D, rel, x, lim) PROVE rel.line[x].row \in Row
  BY <1>7, SMTT(20) DEF Visible, HasTuple, StorageSound, WellFormed, RowsOnLines, InUse
<1> QED
  BY <1>2, <1>6, <1>7 DEF Target, Found, D

\* Redirects that a delete or update has followed are shortened.
LEMMA CompressedFacts ==
  ASSUME StorageSound, NEW s \in Session, NEW t \in Tid
  PROVE  LET q == CompressUpdate(Deltas(stack[s]), rel, t)
         IN  /\ WellFormed(q) /\ q.line = rel.line /\ q.next_block = rel.next_block
             /\ \A x \in Tid : /\ q.hot[x] # NoTid => rel.hot[x] # NoTid
                               /\ q.upd[x] # NoTid => rel.upd[x] # NoTid
BY TargetFacts, CompressUpdateFacts, Zenon DEF StorageSound

\* The overlay on top of the stack that a session is given, if it has none.
Top(s) == EnsureTransaction(stack[s])[Len(EnsureTransaction(stack[s]))]

\* It is the one that a row operation writes to.
LEMMA TopFacts ==
  ASSUME StorageSound, NEW s \in Session
  PROVE  Top(s) = TopOf(stack[s]) /\ TopOf(stack[s]) \in SoundOverlay
BY EnsureFacts DEF StorageSound, Top

\* A row operation replaces the top overlay.
LEMMA WriteTop ==
  ASSUME StorageSound, NEW s \in Session, NEW o \in SoundOverlay,
         stack' = [stack EXCEPT ![s] = SetTop(EnsureTransaction(stack[s]), o)],
         WellFormed(rel'), UNCHANGED <<row_count, explicit>>
  PROVE  To(s, Ensured(s)) /\ stack'[s][Ensured(s)] = o /\ Keeps(s, Ensured(s) - 1)
<1> DEFINE S == EnsureTransaction(stack[s])
           T == SetTop(S, o)
<1>1. stack[s] \in Seq(SoundOverlay)
  BY DEF StorageSound
<1>2. /\ S \in Seq(SoundOverlay) /\ Len(S) >= 1 /\ Len(S) = Ensured(s)
      /\ \A i \in 1..(Len(S) - 1) : S[i] = stack[s][i]
  BY <1>1, EnsureFacts, ZenonT(20) DEF Ensured, Depth
<1>3. stack' = [stack EXCEPT ![s] = T]
  OBVIOUS
<1> HIDE DEF S
<1>4. /\ T \in Seq(SoundOverlay) /\ Len(T) = Len(S) /\ T[Len(S)] = o
      /\ \A i \in 1..(Len(S) - 1) : T[i] = S[i]
  BY <1>2 DEF SetTop
<1> HIDE DEF T
<1>5. /\ stack' \in [Session -> Seq(SoundOverlay)] /\ stack'[s] = T /\ OnlyStackOf(s)
      /\ Depth(s)' = Len(T)
  BY <1>3, <1>4, StackOfOne, Zenon
<1> HIDE DEF Depth
<1>6. StorageSound'
  BY <1>5 DEF StorageSound
<1> QED
  BY <1>2, <1>4, <1>5, <1>6 DEF To, Keeps

\* relation_insert
LEMMA InsertLaw ==
  ASSUME StorageSound, NEW s \in Session, NEW row \in Row, NEW c \in Cid,
         RelationInsert(s, row, c)
  PROVE  NewVersion(s, row, {}, c)
<1> DEFINE n == NextTid(rel)
           p == Top(s)
           o == RecordInsert(p, rel, c)
<1>1. WellFormed(rel) /\ HasRoom(rel) /\ p \in SoundOverlay /\ p = TopOf(stack[s])
  BY TopFacts DEF StorageSound, RelationInsert
<1>2. /\ rel' = AppendPending(rel, row, n) /\ UNCHANGED <<row_count, explicit>>
      /\ stack' = [stack EXCEPT ![s] = SetTop(EnsureTransaction(stack[s]), o)]
  BY SMTT(20) DEF RelationInsert, Top
<1> HIDE DEF p
<1>3. /\ o \in SoundOverlay /\ o.ins = p.ins \cup {n} /\ o.inv = p.inv
      /\ o.ins_cid = [p.ins_cid EXCEPT ![n] = c] /\ o.inv_cid = p.inv_cid
      /\ o.hot = p.hot /\ o.upd = p.upd /\ o.cleared = p.cleared
  BY <1>1, RecordInsertFacts, SMTT(30)
<1> HIDE DEF o
<1>4. n \in Tid
  BY <1>1, NextTidIsFree DEF WellFormed
<1>5. /\ WellFormed(rel') /\ ~InUse(rel, n) /\ rel'.hot = rel.hot /\ rel'.upd = rel.upd
      /\ rel'.line[n] = [st |-> "Pending", row |-> row, root |-> n]
      /\ \A t \in Tid \ {n} : rel'.line[t] = rel.line[t]
  <2> DEFINE q == AppendPending(rel, row, n)
  <2>0. n \in Tid \cup {NoTid}
    BY <1>4
  <2>1. /\ WellFormed(q) /\ ~InUse(rel, n) /\ q.hot = rel.hot /\ q.upd = rel.upd
        /\ q.line[n] = [st |-> "Pending", row |-> row, root |-> n]
        /\ \A t \in Tid \ {n} : q.line[t] = rel.line[t]
    BY <1>1, <2>0, AppendWellFormed, Zenon
  <2>2. rel' = q
    BY <1>2, Zenon
  <2> HIDE DEF q, n
  <2> QED
    BY <2>1, <2>2, Zenon
<1> HIDE DEF n
<1>6. Writes(o, p, {n}, {}, c)
  <2>1. p.ins_cid \in [Tid -> Cid]
    BY <1>1, OverlayFields DEF SoundOverlay
  <2> QED
    BY <1>3, <1>4, <2>1 DEF Writes
<1>7. To(s, Ensured(s)) /\ stack'[s][Ensured(s)] = o /\ Keeps(s, Ensured(s) - 1)
  BY <1>2, <1>3, <1>5, WriteTop, ZenonT(30)
<1>8. rel'.line[n].st = "Pending" /\ rel'.line[n].row = row
  BY <1>5, SMTT(20)
<1>9. Effect(s, {n}, {}, c)
  BY <1>1, <1>2, <1>3, <1>5, <1>6, <1>7, <1>8, ZenonT(30) DEF Effect, NoNewRedirects
<1> QED
  BY <1>4, <1>8, <1>9, Zenon DEF NewVersion

\* relation_delete
LEMMA DeleteLaw ==
  ASSUME StorageSound, NEW s \in Session, NEW t \in Tid, NEW c \in Cid, RelationDelete(s, t, c)
  PROVE  Effect(s, {}, {Target(s, t)}, c)
<1> DEFINE x == Target(s, t)
           p == Top(s)
           o == RecordInvalidate(p, x, c)
<1>1. /\ rel' = CompressUpdate(Deltas(stack[s]), rel, t) /\ UNCHANGED <<row_count, explicit>>
      /\ stack' = [stack EXCEPT ![s] = SetTop(EnsureTransaction(stack[s]), o)]
  BY DEF RelationDelete, Top
<1>2. x \in Tid /\ p \in SoundOverlay /\ p = TopOf(stack[s])
  BY TopFacts, TargetFacts, SMTT(20)
<1>3. WellFormed(rel') /\ rel'.line = rel.line /\ NoNewRedirects
  BY <1>1, CompressedFacts, ZenonT(30) DEF NoNewRedirects
<1> HIDE DEF p, x
<1>4. /\ o \in SoundOverlay /\ o.ins = p.ins /\ o.inv = p.inv \cup {x}
      /\ o.ins_cid = p.ins_cid /\ o.inv_cid = [p.inv_cid EXCEPT ![x] = c]
      /\ o.hot = p.hot /\ o.upd = p.upd /\ o.cleared = p.cleared
  BY <1>2, RecordInvalidateFacts, SMTT(30)
<1> HIDE DEF o
<1>5. Writes(o, p, {}, {x}, c)
  <2>1. p.inv_cid \in [Tid -> Cid]
    BY <1>2, OverlayFields DEF SoundOverlay
  <2> QED
    BY <1>4, <2>1 DEF Writes
<1>6. To(s, Ensured(s)) /\ stack'[s][Ensured(s)] = o /\ Keeps(s, Ensured(s) - 1)
  BY <1>1, <1>3, <1>4, WriteTop, Zenon
<1> QED
  BY <1>1, <1>2, <1>3, <1>4, <1>5, <1>6, ZenonT(30) DEF Effect, x

\* relation_update
LEMMA UpdateLaw ==
  ASSUME StorageSound, NEW s \in Session, NEW t \in Tid, NEW row \in Row, NEW hot,
         NEW c \in Cid, RelationUpdate(s, t, row, hot, c)
  PROVE  NewVersion(s, row, {Target(s, t)}, c)
<1> DEFINE r == CompressUpdate(Deltas(stack[s]), rel, t)
           x == Target(s, t)
           n == NextTid(r)
           root == IF hot THEN rel.line[x].root ELSE n
           p == Top(s)
           q1 == RecordInsert(p, r, c)
           q2 == RecordInvalidate(q1, x, c)
           o == RecordRedirect(q2, x, n, hot)
<1>1. /\ rel' = AppendPending(r, row, root) /\ UNCHANGED <<row_count, explicit>>
      /\ stack' = [stack EXCEPT ![s] = SetTop(EnsureTransaction(stack[s]), o)]
      /\ HasRoom(rel)
  BY DEF RelationUpdate, Top
<1>2. x \in Tid /\ p \in SoundOverlay /\ p = TopOf(stack[s])
  BY TargetFacts, TopFacts, SMTT(20)
<1>3. /\ WellFormed(r) /\ r.line = rel.line /\ r.next_block = rel.next_block
      /\ \A y \in Tid : /\ r.hot[y] # NoTid => rel.hot[y] # NoTid
                        /\ r.upd[y] # NoTid => rel.upd[y] # NoTid
  BY CompressedFacts, ZenonT(20)
<1> HIDE DEF r, x, p
<1>4. HasRoom(r)
  BY <1>1, <1>3, RoomOnLines, ZenonT(30)
<1>5. n \in Tid
  BY <1>3, <1>4, NextTidIsFree, ZenonT(30) DEF WellFormed
<1>6. root \in Tid \cup {NoTid}
  BY <1>2, <1>5, SMTT(20) DEF StorageSound, WellFormed, Relation, LinePointer
<1>7. /\ q1 \in SoundOverlay /\ q1.ins = p.ins \cup {n} /\ q1.inv = p.inv
      /\ q1.ins_cid = [p.ins_cid EXCEPT ![n] = c] /\ q1.inv_cid = p.inv_cid
      /\ q1.hot = p.hot /\ q1.upd = p.upd /\ q1.cleared = p.cleared
  BY <1>2, <1>3, <1>4, RecordInsertFacts, SMTT(30)
<1> HIDE DEF root, q1
<1>8. /\ q2 \in SoundOverlay /\ q2.ins = q1.ins /\ q2.inv = q1.inv \cup {x}
      /\ q2.ins_cid = q1.ins_cid /\ q2.inv_cid = [q1.inv_cid EXCEPT ![x] = c]
      /\ q2.hot = q1.hot /\ q2.upd = q1.upd /\ q2.cleared = q1.cleared
  BY <1>2, <1>7, RecordInvalidateFacts, SMTT(30)
<1>0. n = NextTid(r)
  OBVIOUS
<1> HIDE DEF n, q2
<1>9. /\ WellFormed(rel') /\ ~InUse(r, n) /\ rel'.hot = r.hot /\ rel'.upd = r.upd
      /\ rel'.line[n] = [st |-> "Pending", row |-> row, root |-> root]
      /\ \A y \in Tid \ {n} : rel'.line[y] = r.line[y]
  <2> DEFINE q == AppendPending(r, row, root)
  <2>1. /\ WellFormed(q) /\ ~InUse(r, NextTid(r)) /\ q.hot = r.hot /\ q.upd = r.upd
        /\ q.line[NextTid(r)] = [st |-> "Pending", row |-> row, root |-> root]
        /\ \A y \in Tid \ {NextTid(r)} : q.line[y] = r.line[y]
    BY <1>3, <1>4, <1>6, AppendWellFormed, Zenon
  <2>2. rel' = q
    BY <1>1, Zenon
  <2> HIDE DEF q, o
  <2> QED
    BY <1>0, <2>1, <2>2, Zenon
<1>10. /\ o \in SoundOverlay /\ o.ins = q2.ins /\ o.inv = q2.inv /\ o.cleared = q2.cleared
       /\ o.ins_cid = q2.ins_cid /\ o.inv_cid = q2.inv_cid
       /\ \A y \in Tid \ {x} : o.hot[y] = q2.hot[y] /\ o.upd[y] = q2.upd[y]
  BY <1>2, <1>5, <1>8, RecordRedirectFacts, SMTT(30)
<1> HIDE DEF o
<1>11. Writes(o, p, {n}, {x}, c)
  <2>1. p.ins_cid \in [Tid -> Cid] /\ p.inv_cid \in [Tid -> Cid]
    BY <1>2, OverlayFields DEF SoundOverlay
  <2> QED
    BY <1>7, <1>8, <1>10, <2>1, SMTT(30) DEF Writes
<1>12. To(s, Ensured(s)) /\ stack'[s][Ensured(s)] = o /\ Keeps(s, Ensured(s) - 1)
  BY <1>1, <1>9, <1>10, WriteTop, Zenon
<1>13. rel'.line[n].st = "Pending" /\ rel'.line[n].row = row /\ ~InUse(rel, n)
  BY <1>3, <1>9, SMTT(30) DEF InUse
<1>14. Effect(s, {n}, {x}, c)
  BY <1>1, <1>2, <1>3, <1>9, <1>10, <1>11, <1>12, <1>13, ZenonT(30) DEF Effect, NoNewRedirects
<1> QED
  BY <1>5, <1>13, <1>14, ZenonT(30) DEF NewVersion, x

\* TRUNCATE
LEMMA ClearLaw ==
  ASSUME StorageSound, NEW s \in Session, RelationClear(s)
  PROVE  To(s, Ensured(s))
<1> DEFINE V == VisibleTids(EnsureTransaction(stack[s]), rel, AnyCid)
           o == RecordClear(Top(s), rel, V)
<1>1. /\ rel' = EmptyRelation /\ UNCHANGED <<row_count, explicit>>
      /\ stack' = [stack EXCEPT ![s] = SetTop(EnsureTransaction(stack[s]), o)]
  BY DEF RelationClear, Top
<1>2. V \in SUBSET Tid
  BY DEF VisibleTids
<1> HIDE DEF V
<1>3. o \in SoundOverlay
  BY <1>2, TopFacts, RecordClearFacts DEF StorageSound
<1> HIDE DEF o
<1>4. WellFormed(rel')
  BY <1>1, EmptyRelationFacts
<1> QED
  BY <1>1, <1>3, <1>4, WriteTop, Zenon

\* A DELETE or UPDATE that finds nothing.
LEMMA MissLaw ==
  ASSUME StorageSound, NEW s \in Session, NEW t \in Tid, RelationMiss(s, t)
  PROVE  To(s, Depth(s)) /\ rel'.line = rel.line /\ NoNewRedirects
<1>1. WellFormed(rel') /\ rel'.line = rel.line /\ NoNewRedirects
  BY CompressedFacts, Zenon DEF RelationMiss, NoNewRedirects
<1>2. To(s, Depth(s))
  BY <1>1 DEF RelationMiss, StorageSound, OnlyStackOf, Depth, To
<1> QED
  BY <1>1, <1>2, SMTT(20)

-----------------------------------------------------------------------------
(* Levels that come and go *)

\* xact_begin
LEMMA XactBeginLaw ==
  ASSUME StorageSound, NEW s \in Session, XactBegin(s)
  PROVE  CutTo(s, Depth(s), Ensured(s))
<1> DEFINE S == EnsureTransaction(stack[s])
<1>1. stack' = [stack EXCEPT ![s] = S] /\ stack[s] \in Seq(SoundOverlay)
  BY DEF XactBegin, StorageSound
<1>2. S \in Seq(SoundOverlay) /\ Len(S) = Ensured(s)
  BY <1>1, EnsureFacts DEF Ensured, Depth
<1>3. /\ \A i \in 1..Depth(s) : S[i] = stack[s][i]
      /\ \A i \in (Depth(s) + 1)..Ensured(s) : S[i] = EmptyOverlay
  BY <1>1 DEF EnsureTransaction, Ensured, Depth
<1> HIDE DEF S
<1>4. /\ stack' \in [Session -> Seq(SoundOverlay)] /\ stack'[s] = S /\ OnlyStackOf(s)
      /\ Depth(s)' = Len(S)
  BY <1>1, <1>2, StackOfOne, ZenonT(30)
<1>5. StorageSound'
  BY <1>4 DEF StorageSound, XactBegin
<1> QED
  BY <1>2, <1>3, <1>4, <1>5 DEF CutTo, To, Keeps

\* subxact_begin
LEMMA SubxactBeginLaw ==
  ASSUME StorageSound, NEW s \in Session, SubxactBegin(s)
  PROVE  CutTo(s, Depth(s), Ensured(s) + 1)
<1> DEFINE S == EnsureTransaction(stack[s])
           T == Append(S, EmptyOverlay)
<1>1. stack' = [stack EXCEPT ![s] = T] /\ stack[s] \in Seq(SoundOverlay) /\ Depth(s) \in Nat
  BY DEF SubxactBegin, StorageSound, Depth
<1>2. S \in Seq(SoundOverlay) /\ Len(S) = Ensured(s)
  BY <1>1, EnsureFacts, ZenonT(20) DEF Ensured, Depth
<1>3. /\ \A i \in 1..Depth(s) : S[i] = stack[s][i]
      /\ \A i \in (Depth(s) + 1)..Ensured(s) : S[i] = EmptyOverlay
  BY <1>1, SMTT(20) DEF EnsureTransaction, Ensured, Depth
<1> HIDE DEF S
<1>4. /\ T \in Seq(SoundOverlay) /\ Len(T) = Ensured(s) + 1 /\ T[Ensured(s) + 1] = EmptyOverlay
      /\ \A i \in 1..Ensured(s) : T[i] = S[i]
  BY <1>2, EmptyOverlayFacts, PushFacts, SMTT(20)
<1> HIDE DEF T
<1>5. /\ stack' \in [Session -> Seq(SoundOverlay)] /\ stack'[s] = T /\ OnlyStackOf(s)
      /\ Depth(s)' = Len(T)
  BY <1>1, <1>4, StackOfOne, ZenonT(30)
<1>6. StorageSound'
  BY <1>5 DEF StorageSound, SubxactBegin
<1>7. \A i \in 1..Depth(s) : T[i] = stack[s][i]
  BY <1>1, <1>3, <1>4 DEF Ensured
<1>8. \A i \in (Depth(s) + 1)..(Ensured(s) + 1) : T[i] = EmptyOverlay
  BY <1>1, <1>3, <1>4 DEF Ensured
<1> QED
  BY <1>4, <1>5, <1>6, <1>7, <1>8 DEF CutTo, To, Keeps

\* The top overlay is taken away.
LEMMA PopTopLaw ==
  ASSUME StorageSound, NEW s \in Session, PopTop(s), stack[s] # <<>>
  PROVE  CutTo(s, Depth(s) - 1, Depth(s) - 1) /\ Depth(s) \in Nat \ {0}
<1> DEFINE T == SubSeq(stack[s], 1, Depth(s) - 1)
<1>1. stack[s] \in Seq(SoundOverlay) /\ stack' = [stack EXCEPT ![s] = T]
  BY DEF PopTop, StorageSound, Depth
<1>2. Depth(s) \in 1..(Depth(s) + 1) /\ Depth(s) = Len(stack[s])
  BY <1>1, SeqFacts DEF Depth
<1>3. /\ T \in Seq(SoundOverlay) /\ Len(T) = Depth(s) - 1
      /\ \A i \in 1..(Depth(s) - 1) : T[i] = stack[s][i]
  BY <1>1, <1>2, CutFacts
<1> HIDE DEF T
<1>4. /\ stack' \in [Session -> Seq(SoundOverlay)] /\ stack'[s] = T /\ OnlyStackOf(s)
      /\ Depth(s)' = Len(T)
  BY <1>1, <1>3, StackOfOne, Zenon
<1>5. StorageSound'
  BY <1>4 DEF StorageSound, PopTop
<1>6. Depth(s) \in Nat \ {0} /\ \A i \in ((Depth(s) - 1) + 1)..(Depth(s) - 1) : FALSE
  BY <1>2
<1>7. CutTo(s, Depth(s) - 1, Depth(s) - 1)
  BY <1>3, <1>4, <1>5, <1>6, Zenon DEF CutTo, To, Keeps
<1> QED
  BY <1>6, <1>7

\* RELEASE
LEMMA SubxactCommitLaw ==
  ASSUME StorageSound, NEW s \in Session, NEW n \in 2..Depth(s), SubxactCommit(s, n)
  PROVE  To(s, n - 1) /\ (Uncleared(stack[s]) => FoldTo(s, n))
<1> DEFINE S == stack[s]
           m == n - 1
           U == SubSeq(S, m, Len(S))
           C == SubSeq(S, 1, m - 1)
           o == Merge(U)
           T == Append(C, o)
<1>1. /\ S \in Seq(SoundOverlay) /\ Len(S) = Depth(s) /\ m \in 1..Len(S) /\ m \in 1..(Len(S) + 1)
      /\ m - 1 = n - 2 /\ m - 1 \in Nat
  BY SeqFacts DEF StorageSound, Depth
<1>2. stack' = [stack EXCEPT ![s] = T] /\ UNCHANGED <<rel, row_count, explicit>>
  BY <1>1 DEF SubxactCommit
<1> HIDE DEF S, m
<1>3. U \in Seq(SoundOverlay)
  BY <1>1, TailFacts
<1>4. C \in Seq(SoundOverlay) /\ Len(C) = m - 1 /\ \A i \in 1..(m - 1) : C[i] = S[i]
  BY <1>1, CutFacts
<1>5. o \in SoundOverlay
  BY <1>3, MergeSound, Zenon
<1> HIDE DEF U, C, o
<1>6. /\ T \in Seq(SoundOverlay) /\ Len(T) = (m - 1) + 1 /\ T[(m - 1) + 1] = o
      /\ \A i \in 1..(m - 1) : T[i] = C[i]
  BY <1>4, <1>5, PushFacts
<1>7. (m - 1) + 1 = m
  BY <1>1
<1> HIDE DEF T
<1>8. /\ stack' \in [Session -> Seq(SoundOverlay)] /\ stack'[s] = T /\ OnlyStackOf(s)
      /\ Depth(s)' = Len(T)
  BY <1>2, <1>6, StackOfOne, ZenonT(30)
<1>9. StorageSound'
  BY <1>2, <1>8 DEF StorageSound
<1>10. To(s, m)
  BY <1>6, <1>7, <1>8, <1>9, ZenonT(20) DEF To
<1>11. ASSUME Uncleared(S) PROVE FoldTo(s, n)
  <2>1. /\ \A i \in DOMAIN U : i + m - 1 \in m..Len(S) /\ U[i] = S[i + m - 1]
        /\ \A i \in m..Len(S) : i - m + 1 \in DOMAIN U /\ U[i - m + 1] = S[i]
    BY <1>1, TailLevels, ZenonT(30) DEF U
  <2>2. U \in Seq(Overlay) /\ Uncleared(U)
    <3>1. m..Len(S) \subseteq DOMAIN S
      BY <1>1
    <3>2. U \in Seq(Overlay)
      BY <1>3, SoundStack, SMTT(20)
    <3> QED
      BY <1>11, <2>1, <3>1, <3>2 DEF Uncleared
  <2>3. /\ o.ins = UNION {U[i].ins : i \in DOMAIN U} /\ o.inv = UNION {U[i].inv : i \in DOMAIN U}
        /\ ~o.cleared
        /\ \A t \in Tid :
             /\ o.hot[t] # NoTid => \E i \in DOMAIN U : U[i].hot[t] # NoTid
             /\ o.upd[t] # NoTid => \E i \in DOMAIN U : U[i].upd[t] # NoTid
             /\ o.ins_cid[t] = 0 \/ \E i \in DOMAIN U : o.ins_cid[t] = U[i].ins_cid[t]
             /\ o.inv_cid[t] = 0 \/ \E i \in DOMAIN U : o.inv_cid[t] = U[i].inv_cid[t]
    BY <2>2, MergeUncleared, Zenon DEF o
  <2>4. /\ o.ins = UNION {S[i].ins : i \in m..Len(S)} /\ o.inv = UNION {S[i].inv : i \in m..Len(S)}
    <3>1. /\ \A t : (\E i \in DOMAIN U : t \in U[i].ins) <=> \E i \in m..Len(S) : t \in S[i].ins
          /\ \A t : (\E i \in DOMAIN U : t \in U[i].inv) <=> \E i \in m..Len(S) : t \in S[i].inv
      BY <2>1
    <3>2. /\ \A t : t \in o.ins <=> \E i \in m..Len(S) : t \in S[i].ins
          /\ \A t : t \in o.inv <=> \E i \in m..Len(S) : t \in S[i].inv
      <4>1. o.ins = UNION {U[i].ins : i \in DOMAIN U} /\ o.inv = UNION {U[i].inv : i \in DOMAIN U}
        BY <2>3
      <4>2. /\ \A t : t \in o.ins <=> \E i \in DOMAIN U : t \in U[i].ins
            /\ \A t : t \in o.inv <=> \E i \in DOMAIN U : t \in U[i].inv
        BY <4>1, ZenonT(30)
      <4> QED
        BY <3>1, <4>2, ZenonT(30)
    <3> QED
      BY <3>2
  <2>5. \A t \in Tid :
             /\ o.hot[t] # NoTid => \E i \in m..Len(S) : S[i].hot[t] # NoTid
             /\ o.upd[t] # NoTid => \E i \in m..Len(S) : S[i].upd[t] # NoTid
             /\ o.ins_cid[t] = 0 \/ \E i \in m..Len(S) : o.ins_cid[t] = S[i].ins_cid[t]
             /\ o.inv_cid[t] = 0 \/ \E i \in m..Len(S) : o.inv_cid[t] = S[i].inv_cid[t]
    BY <2>1, <2>3, SMTT(20)
  <2>6. stack'[s][m] = o /\ \A i \in 1..(m - 1) : stack'[s][i] = S[i]
    BY <1>4, <1>6, <1>7, <1>8, ZenonT(20)
  <2> QED
    BY <1>1, <1>10, <2>3, <2>4, <2>5, <2>6, ZenonT(30) DEF FoldTo, Keeps, S, m
<1> QED
  BY <1>10, <1>11 DEF m, S

-----------------------------------------------------------------------------
(* Rollback *)

\* Levels are rolled back.
LEMMA RollbackSound ==
  ASSUME StorageSound, NEW s \in Session, NEW n, RollbackRelation(s, n)
  PROVE  WellFormed(rel') /\ row_count' \in Nat
<1> DEFINE S == stack[s]
           clr == ClearLevels(S) \cap {i \in DOMAIN S : i >= n}
           base == IF clr = {} THEN rel ELSE S[Lowest(clr)].snapshot
<1>1. S \in Seq(Overlay) /\ DOMAIN S = 1..Len(S) /\ \A i \in 1..Len(S) : WellFormed(S[i].snapshot)
  BY SoundStack DEF StorageSound
<1>2. clr \in SUBSET DOMAIN S
  BY SMTT(20)
<1>3. PICK D : rel' = MarkDead(base, D)
  BY ZenonT(30) DEF RollbackRelation
<1>4. row_count' = Cardinality(LiveTids(rel')) \/ row_count' = row_count
  BY Zenon DEF RollbackRelation
<1>5. WellFormed(base)
  <2> HIDE DEF clr
  <2>1. CASE clr = {}
    BY <2>1 DEF StorageSound
  <2>2. CASE clr # {}
    <3>1. Lowest(clr) \in DOMAIN S
      BY <1>1, <1>2, <2>2, LevelIn, SMTT(20)
    <3> QED
      BY <1>1, <2>2, <3>1, ZenonT(20)
  <2> QED
    BY <2>1, <2>2
<1> HIDE DEF base
<1>6. WellFormed(rel')
  BY <1>3, <1>5, MarkDeadFacts, SameLinesWellFormed, SMTT(20) DEF WellFormed
<1> QED
  BY <1>4, <1>6, LiveCount DEF StorageSound

\* If none of them has truncated, the tuples they have inserted are dead.
LEMMA RollbackLaw ==
  ASSUME StorageSound, NEW s \in Session, NEW n \in Nat \ {0}, RollbackRelation(s, n),
         Uncleared(stack[s])
  PROVE  Undone(s, n)
<1> DEFINE S == stack[s]
           L == {i \in DOMAIN S : i >= n}
           D == UNION {S[i].ins : i \in L}
<1>1. Depth(s) = Len(S) /\ Len(S) \in Nat /\ DOMAIN S = 1..Len(S)
  BY SoundStack DEF StorageSound, Depth
<1>2. ClearLevels(S) = {}
  BY DEF ClearLevels, Uncleared
<1>3. rel' = MarkDead(rel, D) /\ row_count' \in {row_count, Cardinality(LiveTids(rel'))}
  <2>1. {j \in L : \A c \in {} : j < c} = L
    BY SMTT(20)
  <2> HIDE DEF L
  <2>2. rel' = MarkDead(rel, UNION {S[i].ins : i \in {j \in L : \A c \in {} : j < c}})
    BY <1>2, ZenonT(30) DEF RollbackRelation, L
  <2>3. row_count' \in {row_count, Cardinality(LiveTids(rel'))}
    BY Zenon DEF RollbackRelation
  <2> QED
    BY <2>1, <2>2, <2>3
<1>4. \A t : t \in D <=> \E i \in n..Depth(s) : t \in S[i].ins
  <2>1. \A i : i \in L <=> i \in DOMAIN S /\ i >= n
    OBVIOUS
  <2>2. \A i : i \in L => i \in n..Depth(s)
    BY <1>1
  <2>3. \A i : i \in n..Depth(s) => i \in L
    BY <1>1
  <2> HIDE DEF L
  <2> QED
    BY <2>2, <2>3, Zenon
<1> HIDE DEF D
<1>5. rel \in Relation
  BY DEF StorageSound, WellFormed
<1>6. /\ SameLines(rel, rel') /\ rel'.hot = rel.hot /\ rel'.upd = rel.upd
      /\ \A t \in Tid : rel'.line[t].st = IF t \in D /\ rel.line[t].st # "Free" THEN "Dead"
                                          ELSE rel.line[t].st
  BY <1>3, <1>5, MarkDeadFacts
<1>7. \A t \in Tid : rel'.line[t].row = rel.line[t].row
  BY <1>6 DEF SameLines
<1> QED
  BY <1>3, <1>4, <1>6, <1>7, ZenonT(20) DEF Undone, InUse

\* A rollback that leaves nothing of the stack.
LEMMA RollbackAllSound ==
  ASSUME StorageSound, NEW s \in Session, NEW n, RollbackRelation(s, n),
         stack' = [stack EXCEPT ![s] = <<>>], explicit' \in [Session -> BOOLEAN]
  PROVE  To(s, 0)
<1>1. WellFormed(rel') /\ row_count' \in Nat
  BY RollbackSound
<1>2. <<>> \in Seq(SoundOverlay) /\ Len(<<>>) = 0
  OBVIOUS
<1>3. stack' \in [Session -> Seq(SoundOverlay)] /\ Depth(s)' = 0 /\ OnlyStackOf(s)
  BY <1>2, StackOfOne, Zenon
<1> QED
  BY <1>1, <1>3 DEF StorageSound, To

\* An error in a savepoint
LEMMA SubxactAbortLaw ==
  ASSUME StorageSound, NEW s \in Session, NEW n \in 1..(Depth(s) + 1), SubxactAbort(s, n)
  PROVE  CutTo(s, n - 1, n - 1)
<1> DEFINE T == SubSeq(stack[s], 1, n - 1)
<1>1. stack[s] \in Seq(SoundOverlay) /\ stack' = [stack EXCEPT ![s] = T]
  BY DEF SubxactAbort, StorageSound
<1>2. T \in Seq(SoundOverlay) /\ Len(T) = n - 1 /\ \A i \in 1..(n - 1) : T[i] = stack[s][i]
  BY <1>1, CutFacts DEF Depth
<1> HIDE DEF T
<1>3. /\ stack' \in [Session -> Seq(SoundOverlay)] /\ stack'[s] = T /\ OnlyStackOf(s)
      /\ Depth(s)' = Len(T)
  BY <1>1, <1>2, StackOfOne, ZenonT(30)
<1>4. WellFormed(rel') /\ row_count' \in Nat
  BY RollbackSound DEF SubxactAbort
<1>5. StorageSound'
  BY <1>3, <1>4 DEF StorageSound, SubxactAbort
<1>6. \A i \in ((n - 1) + 1)..(n - 1) : FALSE
  OBVIOUS
<1> QED
  BY <1>2, <1>3, <1>5, <1>6, Zenon DEF CutTo, To, Keeps

\* ROLLBACK TO
LEMMA SubxactRestartLaw ==
  ASSUME StorageSound, NEW s \in Session, NEW n \in 1..(Depth(s) + 1), SubxactRestart(s, n)
  PROVE  CutTo(s, n - 1, n)
<1> DEFINE C == SubSeq(stack[s], 1, n - 1)
           T == Append(C, EmptyOverlay)
<1>1. stack[s] \in Seq(SoundOverlay) /\ stack' = [stack EXCEPT ![s] = T]
  BY DEF SubxactRestart, StorageSound
<1>2. C \in Seq(SoundOverlay) /\ Len(C) = n - 1 /\ \A i \in 1..(n - 1) : C[i] = stack[s][i]
  BY <1>1, CutFacts, SMTT(20) DEF Depth
<1> HIDE DEF C
<1>3. /\ T \in Seq(SoundOverlay) /\ Len(T) = (n - 1) + 1 /\ T[(n - 1) + 1] = EmptyOverlay
      /\ \A i \in 1..(n - 1) : T[i] = C[i]
  BY <1>2, EmptyOverlayFacts, PushFacts, SMTT(20)
<1> HIDE DEF T
<1>4. /\ stack' \in [Session -> Seq(SoundOverlay)] /\ stack'[s] = T /\ OnlyStackOf(s)
      /\ Depth(s)' = Len(T)
  BY <1>1, <1>3, StackOfOne, ZenonT(30)
<1>5. WellFormed(rel') /\ row_count' \in Nat
  BY RollbackSound DEF SubxactRestart
<1>6. (n - 1) + 1 = n /\ \A i \in ((n - 1) + 1)..n : i = n
  BY <1>1 DEF Depth
<1>7. StorageSound'
  BY <1>4, <1>5 DEF StorageSound, SubxactRestart
<1> QED
  BY <1>2, <1>3, <1>4, <1>6, <1>7, ZenonT(20) DEF CutTo, To, Keeps

-----------------------------------------------------------------------------
(* Commit *)

\* What a commit does to the relation.
LEMMA CommitOverlayFacts ==
  ASSUME WellFormed(rel), NEW o \in Overlay
  PROVE  LET q == CommitOverlay(o)
         IN  /\ WellFormed(q) /\ SameLines(rel, q)
             /\ q.hot = Override(rel.hot, o.hot) /\ q.upd = Override(rel.upd, o.upd)
             /\ \A t \in Tid : q.line[t].st = IF t \in Superseded(o) /\ rel.line[t].st # "Free" THEN "Dead"
                                              ELSE IF t \in o.ins /\ rel.line[t].st = "Pending" THEN "Live"
                                              ELSE rel.line[t].st
<1> DEFINE a == MarkLive(rel, o.ins)
           b == MarkDead(a, Superseded(o))
           q == CommitOverlay(o)
<1>1. rel \in Relation
  BY SMTT(20) DEF WellFormed
<1>2. /\ SameLines(rel, a) /\ a.hot = rel.hot /\ a.upd = rel.upd
      /\ \A t \in Tid : a.line[t].st = IF t \in o.ins /\ rel.line[t].st = "Pending" THEN "Live"
                                       ELSE rel.line[t].st
  BY <1>1, MarkLiveFacts
<1> HIDE DEF a
<1>3. a \in Relation
  BY <1>2, SMTT(20) DEF SameLines
<1>4. /\ SameLines(a, b) /\ b.hot = a.hot /\ b.upd = a.upd
      /\ \A t \in Tid : b.line[t].st = IF t \in Superseded(o) /\ a.line[t].st # "Free" THEN "Dead"
                                       ELSE a.line[t].st
  BY <1>3, MarkDeadFacts
<1>5. q = [b EXCEPT !.hot = Override(b.hot, o.hot), !.upd = Override(b.upd, o.upd)]
  BY DEF CommitOverlay, a
<1> HIDE DEF b, q
<1>6. b \in Relation /\ b.hot \in Redirects /\ b.upd \in Redirects
  BY <1>4 DEF SameLines, Relation
<1>7. Override(b.hot, o.hot) \in Redirects /\ Override(b.upd, o.upd) \in Redirects
  BY <1>6, OverrideFacts, OverlayFields
<1>8. /\ q \in Relation /\ q.line = b.line /\ q.next_block = b.next_block
      /\ q.hot = Override(b.hot, o.hot) /\ q.upd = Override(b.upd, o.upd)
  BY <1>5, <1>6, <1>7, Zenon DEF Relation
<1>9. SameLines(rel, q)
  BY <1>2, <1>4, <1>8, ZenonT(20) DEF SameLines, InUse
<1>10. WellFormed(q)
  BY <1>9, SameLinesWellFormed, SMTT(20)
<1>11. \A t \in Tid : q.line[t].st = IF t \in Superseded(o) /\ rel.line[t].st # "Free" THEN "Dead"
                                    ELSE IF t \in o.ins /\ rel.line[t].st = "Pending" THEN "Live"
                                    ELSE rel.line[t].st
  BY <1>2, <1>4, <1>8, ZenonT(20)
<1> QED
  BY <1>2, <1>4, <1>8, <1>9, <1>10, <1>11, ZenonT(30) DEF q

\* The overlays of a session are committed.
LEMMA CommitAllSound ==
  ASSUME StorageSound, NEW s \in Session, CommitAll(s), explicit' \in [Session -> BOOLEAN]
  PROVE  To(s, 0)
<1> DEFINE o == Merge(stack[s])
<1>1. o \in Overlay
  BY MergeType, SoundStack DEF StorageSound
<1>2. /\ rel' = CommitOverlay(o) /\ stack' = [stack EXCEPT ![s] = <<>>]
      /\ row_count' = Cardinality(LiveTids(CommitOverlay(o))) \/ row_count' = row_count
  BY DEF CommitAll
<1> HIDE DEF o
<1>3. WellFormed(rel')
  BY <1>1, <1>2, CommitOverlayFacts, ZenonT(20) DEF StorageSound
<1>4. row_count' \in Nat
  BY <1>2, LiveCount DEF StorageSound
<1>5. <<>> \in Seq(SoundOverlay) /\ Len(<<>>) = 0
  OBVIOUS
<1>6. stack' \in [Session -> Seq(SoundOverlay)] /\ Depth(s)' = 0 /\ OnlyStackOf(s)
  BY <1>2, <1>5, StackOfOne, Zenon
<1> QED
  BY <1>3, <1>4, <1>6 DEF StorageSound, To

\* A set that gains A and then loses D has as many elements more as the
\* difference.
LEMMA NetGrowth ==
  ASSUME NEW L, NEW A, NEW D, IsFiniteSet(L), IsFiniteSet(A), L \cap A = {}, D \subseteq L \cup A
  PROVE  Cardinality((L \cup A) \ D) = Cardinality(L) + (Cardinality(A) - Cardinality(D))
<1>1. IsFiniteSet(L \cup A) /\ Cardinality(L \cup A) = Cardinality(L) + Cardinality(A) - Cardinality(L \cap A)
  BY FS_Union
<1>2. Cardinality({}) = 0
  BY FS_EmptySet
<1>3. IsFiniteSet(D)
  BY <1>1, FS_Subset
<1>4. Cardinality((L \cup A) \ D) = Cardinality(L \cup A) - Cardinality((L \cup A) \cap D)
  BY <1>1, FS_Difference, Zenon
<1>5. (L \cup A) \cap D = D
  OBVIOUS
<1>6. Cardinality(L) \in Nat /\ Cardinality(A) \in Nat /\ Cardinality(D) \in Nat
  BY <1>3, FS_CardinalityType
<1>7. Cardinality(L \cap A) = 0 /\ Cardinality((L \cup A) \cap D) = Cardinality(D)
  BY <1>2, <1>5
<1> DEFINE l == Cardinality(L)
           a == Cardinality(A)
           d == Cardinality(D)
           u == Cardinality(L \cup A)
           r == Cardinality((L \cup A) \ D)
<1>8. l \in Nat /\ a \in Nat /\ d \in Nat /\ u = l + a - 0 /\ r = u - d
  BY <1>1, <1>4, <1>6, <1>7, ZenonT(30)
<1> HIDE DEF l, a, d, u, r
<1>9. r = l + (a - d)
  BY <1>8, SMTT(20)
<1> QED
  BY <1>9 DEF l, a, d, r

\* If nobody has truncated, what s has inserted is live and what it has
\* invalidated dead; the cached row count stays exact.
LEMMA CommitLaw ==
  ASSUME StorageSound, NEW s \in Session, CommitAll(s), PlainStack(stack[s], rel)
  PROVE  Committed(s)
<1> DEFINE S == stack[s]
           o == Merge(S)
<1>1. S \in Seq(Overlay) /\ DOMAIN S = 1..Len(S) /\ \A i \in DOMAIN S : S[i] \in Overlay
  BY SoundStack DEF StorageSound
<1>2. Uncleared(S)
  BY ZenonT(20) DEF PlainStack, Uncleared
<1>3. rel' = CommitOverlay(o) /\ row_count' = IF CommitDelta(o) # 0 THEN Cardinality(LiveTids(rel')) ELSE row_count
  BY SMTT(20) DEF CommitAll
<1> HIDE DEF S
<1>4. /\ o.ins = AllIns(S) /\ o.inv = AllInv(S) /\ ~o.cleared
      /\ \A t \in Tid : o.hot[t] # NoTid => \E i \in DOMAIN S : S[i].hot[t] # NoTid
      /\ \A t \in Tid : o.upd[t] # NoTid => \E i \in DOMAIN S : S[i].upd[t] # NoTid
  BY <1>1, <1>2, MergeUncleared, ZenonT(20) DEF AllIns, AllInv
<1>5. o \in Overlay
  BY <1>1, MergeType
<1> HIDE DEF o
<1>6. Superseded(o) = o.inv
  BY <1>4, ZenonT(20) DEF Superseded
<1>7. /\ SameLines(rel, rel')
      /\ rel'.hot = Override(rel.hot, o.hot) /\ rel'.upd = Override(rel.upd, o.upd)
      /\ \A t \in Tid : rel'.line[t].st = IF t \in o.inv /\ rel.line[t].st # "Free" THEN "Dead"
                                          ELSE IF t \in o.ins /\ rel.line[t].st = "Pending" THEN "Live"
                                          ELSE rel.line[t].st
  BY <1>3, <1>5, <1>6, CommitOverlayFacts, Zenon DEF StorageSound
<1>8. \A t \in o.ins : t \in Tid /\ rel.line[t].st = "Pending"
  <2>1. ASSUME NEW i \in DOMAIN S, NEW t \in S[i].ins PROVE t \in Tid /\ rel.line[t].st = "Pending"
    BY <1>1, OverlayFields, ZenonT(30) DEF PlainStack, S
  <2> QED
    BY <1>4, <2>1, ZenonT(30) DEF AllIns
<1>9. \A t \in o.inv : t \in Tid /\ (rel.line[t].st \in {"Live", "Dead"} \/ t \in o.ins)
  <2>1. ASSUME NEW i \in DOMAIN S, NEW t \in S[i].inv
        PROVE  t \in Tid /\ (rel.line[t].st \in {"Live", "Dead"} \/ t \in AllIns(S))
    <3>1. t \in Tid /\ (rel.line[t].st \in {"Live", "Dead"} \/ t \in InsTo(S, i))
      BY <1>1, OverlayFields, ZenonT(20) DEF PlainStack, S
    <3>2. InsTo(S, i) \subseteq AllIns(S)
      <4>1. 1..i \subseteq DOMAIN S
        BY <1>1
      <4> QED
        BY <4>1, Zenon DEF InsTo, AllIns
    <3> QED
      BY <3>1, <3>2, SMTT(20)
  <2>2. ASSUME NEW t \in o.inv PROVE \E i \in DOMAIN S : t \in S[i].inv
    BY <1>4, ZenonT(30) DEF AllInv
  <2> QED
    BY <1>4, <2>1, <2>2
<1>10. \A t \in Tid : /\ rel'.line[t].row = rel.line[t].row
                      /\ rel'.line[t].st = IF t \in o.inv THEN "Dead"
                                           ELSE IF t \in o.ins THEN "Live" ELSE rel.line[t].st
  BY <1>7, <1>8, <1>9, Zenon DEF SameLines
<1>11. ASSUME row_count = Cardinality(LiveTids(rel)) PROVE row_count' = Cardinality(LiveTids(rel'))
  <2> DEFINE L == LiveTids(rel)
             D == {t \in o.inv : HasTuple(rel, t, TRUE)}
  <2>1. CommitDelta(o) = Cardinality(o.ins) - Cardinality(D)
    <3>1. {t \in o.ins : rel.line[t].st = "Pending"} = o.ins
      BY <1>8
    <3> QED
      BY <1>6, <3>1, ZenonT(20) DEF CommitDelta
  <2>2. L \cap o.ins = {} /\ D \subseteq L \cup o.ins /\ L \subseteq Tid /\ o.ins \subseteq Tid
    BY <1>8, <1>9, ZenonT(20) DEF LiveTids, HasTuple
  <2>3. LiveTids(rel') = (L \cup o.ins) \ D
    BY <1>8, <1>9, <1>10, SMTT(20) DEF LiveTids, HasTuple
  <2>4. IsFiniteSet(L) /\ IsFiniteSet(o.ins)
    BY <2>2, TidFinite, FS_Subset, ZenonT(20)
  <2> HIDE DEF L, D
  <2>5. Cardinality(LiveTids(rel')) = Cardinality(L) + (Cardinality(o.ins) - Cardinality(D))
    BY <2>2, <2>3, <2>4, NetGrowth
  <2>6. Cardinality(L) \in Nat
    BY <2>4, FS_CardinalityType
  <2>7. CASE CommitDelta(o) # 0
    BY <1>3, <2>7
  <2>8. CASE CommitDelta(o) = 0
    BY <1>3, <1>11, <2>1, <2>5, <2>6, <2>8, SMTT(20) DEF L
  <2> QED
    BY <2>7, <2>8
<1>12. \A t \in Tid : /\ rel'.hot[t] # NoTid => rel.hot[t] # NoTid \/ o.hot[t] # NoTid
                      /\ rel'.upd[t] # NoTid => rel.upd[t] # NoTid \/ o.upd[t] # NoTid
  <2>1. rel.hot \in Redirects /\ rel.upd \in Redirects
    BY DEF StorageSound, WellFormed, Relation
  <2>2. o.hot \in Redirects /\ o.upd \in Redirects
    BY <1>5, OverlayFields, SMTT(20)
  <2> QED
    BY <1>7, <2>1, <2>2, OverrideFacts, ZenonT(30)
<1>13. \A t \in Tid : /\ rel'.hot[t] # NoTid => rel.hot[t] # NoTid \/ \E i \in DOMAIN S : S[i].hot[t] # NoTid
                      /\ rel'.upd[t] # NoTid => rel.upd[t] # NoTid \/ \E i \in DOMAIN S : S[i].upd[t] # NoTid
  BY <1>4, <1>12, Zenon
<1> QED
  BY <1>4, <1>10, <1>11, <1>13, ZenonT(30) DEF Committed, S

-----------------------------------------------------------------------------
(* The laws *)

\* The end of a transaction or of a session leaves no overlay.
LEMMA XactEndSound ==
  ASSUME StorageSound, NEW s \in Session, XactCommit(s) \/ XactAbort(s) \/ DropSession(s)
  PROVE  To(s, 0)
<1>1. explicit' \in [Session -> BOOLEAN]
  BY ZenonT(30) DEF XactCommit, XactAbort, DropSession, StorageSound
<1>2. CASE XactCommit(s)
  BY <1>1, <1>2, CommitAllSound DEF XactCommit
<1>3. CASE XactAbort(s) \/ DropSession(s)
  BY <1>1, <1>3, RollbackAllSound DEF XactAbort, RollbackAll, DropSession
<1> QED
  BY <1>2, <1>3

\* Outside a block, the end of a statement.
LEMMA IfImplicitSound ==
  ASSUME StorageSound, NEW s \in Session, XactCommitIfImplicit(s) \/ XactAbortIfImplicit(s)
  PROVE  \E d \in 0..Depth(s) : To(s, d)
<1>1. Depth(s) \in Nat /\ 0 \in 0..Depth(s) /\ Depth(s) \in 0..Depth(s)
  BY DEF Depth, StorageSound
<1>2. CASE UNCHANGED storageVars
  <2>1. To(s, Depth(s))
    BY <1>2 DEF storageVars, StorageSound, OnlyStackOf, Depth, To
  <2> QED
    BY <1>1, <2>1
<1>3. CASE PopTop(s) /\ stack[s] # <<>>
  <2>1. To(s, Depth(s) - 1) /\ Depth(s) \in Nat \ {0}
    BY <1>3, PopTopLaw DEF CutTo
  <2>2. Depth(s) - 1 \in 0..Depth(s)
    BY <2>1
  <2> QED
    BY <2>1, <2>2, ZenonT(30)
<1>4. CASE CommitAll(s) /\ explicit' = explicit
  BY <1>1, <1>4, CommitAllSound DEF StorageSound
<1>5. CASE RollbackAll(s) /\ explicit' = explicit
  <2>1. /\ RollbackRelation(s, 1) /\ stack' = [stack EXCEPT ![s] = <<>>]
        /\ explicit' \in [Session -> BOOLEAN]
    BY <1>5 DEF RollbackAll, StorageSound
  <2>2. To(s, 0)
    BY <2>1, RollbackAllSound, ZenonT(30)
  <2> QED
    BY <1>1, <2>2
<1> QED
  BY <1>2, <1>3, <1>4, <1>5, ZenonT(20) DEF XactCommitIfImplicit, XactAbortIfImplicit

\* What each entry point leaves of the levels.
LEMMA DepthLawsHold == ASSUME StorageSound PROVE DepthLaws
<1> SUFFICES ASSUME NEW s \in Session
             PROVE  RowDepths(s) /\ SearchTypes(s) /\ SubxactDepths(s) /\ XactDepths(s)
  BY DEF DepthLaws
<1>1. \A f \in Redirects, t \in Tid : Resolve(f, t) \in Tid
  BY ResolveFacts
<1>2. /\ \A row \in Row, c \in Cid : RelationInsert(s, row, c) => To(s, Ensured(s))
      /\ \A t \in Tid, row \in Row, c \in Cid : \A hot :
           RelationUpdate(s, t, row, hot, c) => To(s, Ensured(s))
  <2>1. \A row, D, c : NewVersion(s, row, D, c) => To(s, Ensured(s))
    BY ZenonT(20) DEF NewVersion, Effect
  <2> QED
    BY <2>1, InsertLaw, UpdateLaw, ZenonT(30)
<1>3. /\ \A t \in Tid, c \in Cid : RelationDelete(s, t, c) => To(s, Ensured(s))
      /\ RelationClear(s) => To(s, Ensured(s))
      /\ \A t \in Tid : RelationMiss(s, t) => To(s, Depth(s))
  BY DeleteLaw, ClearLaw, MissLaw, Zenon DEF Effect
<1>4. /\ XactBegin(s) => To(s, Ensured(s))
      /\ SubxactBegin(s) => To(s, Ensured(s) + 1)
  BY XactBeginLaw, SubxactBeginLaw DEF CutTo
<1>5. /\ XactCommit(s) \/ XactAbort(s) \/ DropSession(s) => To(s, 0)
      /\ XactCommitIfImplicit(s) \/ XactAbortIfImplicit(s) => \E d \in 0..Depth(s) : To(s, d)
  BY XactEndSound, IfImplicitSound, SMTT(20)
<1>6. /\ \A n \in 2..Depth(s) : SubxactCommit(s, n) => To(s, n - 1)
      /\ \A n \in 1..(Depth(s) + 1) : /\ SubxactAbort(s, n) => To(s, n - 1)
                                      /\ SubxactRestart(s, n) => To(s, n)
  BY SubxactCommitLaw, SubxactAbortLaw, SubxactRestartLaw, ZenonT(20) DEF CutTo
<1>7. RowDepths(s)
  BY <1>2, <1>3 DEF RowDepths
<1>8. SearchTypes(s)
  BY <1>1, TargetFacts DEF SearchTypes
<1>9. SubxactDepths(s)
  BY <1>4, <1>6 DEF SubxactDepths
<1>10. XactDepths(s)
  BY <1>4, <1>5 DEF XactDepths
<1> QED
  BY <1>7, <1>8, <1>9, <1>10

\* What each entry point does to the pages and to the levels as long as nobody
\* has truncated.
LEMMA LevelLawsHold == ASSUME StorageSound PROVE RowLaws /\ LevelLaws /\ EndLaws
<1>1. RowLaws
  <2>1. ASSUME NEW s \in Session, NEW c \in Cid
        PROVE  /\ \A row \in Row : RelationInsert(s, row, c) => NewVersion(s, row, {}, c)
               /\ \A t \in Tid, row \in Row : \A hot :
                    RelationUpdate(s, t, row, hot, c) => NewVersion(s, row, {Target(s, t)}, c)
    BY InsertLaw, UpdateLaw, SMTT(20)
  <2>2. ASSUME NEW s \in Session, NEW c \in Cid
        PROVE  /\ \A t \in Tid : RelationDelete(s, t, c) => Effect(s, {}, {Target(s, t)}, c)
               /\ \A t \in Tid : RelationMiss(s, t) => rel'.line = rel.line /\ NoNewRedirects
    BY DeleteLaw, MissLaw, ZenonT(20)
  <2> QED
    BY <2>1, <2>2, Zenon DEF RowLaws
<1>2. LevelLaws
  BY XactBeginLaw, SubxactBeginLaw, PopTopLaw, SubxactCommitLaw, SubxactAbortLaw, SubxactRestartLaw, ZenonT(30)
     DEF LevelLaws
<1>3. EndLaws
  BY CommitLaw, RollbackLaw, SMTT(20) DEF EndLaws
<1> QED
  BY <1>1, <1>2, <1>3

\* What a scan returns as long as nobody has truncated.
LEMMA SeeLawHolds == SeeLaw
<1> SUFFICES ASSUME NEW S \in Seq(Overlay), NEW t \in Tid, NEW r, NEW lim, PlainStack(S, r)
             PROVE  Visible(Deltas(S), r, t, lim) <=> /\ ~InvBefore(S, t, lim)
                                                      /\ \/ r.line[t].st = "Live"
                                                         \/ InsBefore(S, t, lim)
  BY ZenonT(20) DEF SeeLaw
<1>1. /\ Uncleared(S) /\ OneInserter(S, t)
      /\ \A i \in DOMAIN S : t \in S[i].ins => r.line[t].st = "Pending"
  BY ZenonT(20) DEF PlainStack, Uncleared, OneInserter
<1> QED
  BY <1>1, VisibleUncleared, ZenonT(30)

\* What a write finds as long as nobody has truncated.
LEMMA TargetLawHolds == ASSUME StorageSound PROVE TargetLaw
<1> SUFFICES ASSUME NEW s \in Session, NEW t \in Tid, RedirectsDead(rel), PlainStack(stack[s], rel),
                    rel.line[t].st # "Dead", t \notin AllInv(stack[s])
             PROVE  Target(s, t) = t
  BY DEF TargetLaw
<1> DEFINE S == stack[s]
           D == Deltas(S)
<1>1. S \in Seq(Overlay)
  BY SoundStack DEF StorageSound
<1>2. rel \in Relation /\ rel.upd[t] = NoTid /\ rel.hot[t] = NoTid
  BY DEF StorageSound, WellFormed, RedirectsDead
<1>3. \A i \in DOMAIN S : S[i].upd[t] = NoTid /\ S[i].hot[t] = NoTid
  BY ZenonT(30) DEF PlainStack, AllInv
<1>4. D \in Seq(Overlay) /\ \A i \in DOMAIN D : D[i].upd[t] = NoTid /\ D[i].hot[t] = NoTid
  <2>1. CASE D = S
    BY <1>1, <1>3, <2>1, ZenonT(20)
  <2>2. CASE D = <<>>
    BY <2>2
  <2> QED
    BY <2>1, <2>2, ZenonT(30) DEF Deltas
<1> HIDE DEF D
<1> QED
  BY <1>2, <1>4, ResolvesToItself, ZenonT(20) DEF Target, D
=============================================================================
