-------------------------- MODULE OverlayInvariants --------------------------
(***************************************************************************)
(* What the storage engine keeps true of the pages and of overlays, as the *)
(* proofs state it.                                                        *)
(***************************************************************************)
EXTENDS TransactionOverlay

\* The lines of a page are used from the first on; pages from next_block on are
\* not used.
Filled(r, b, n) == /\ \A k \in 1..LinesPerPage : InUse(r, <<b, k>>) <=> k <= n
                   /\ b >= r.next_block => n = 0

Dense(r) == \A b \in Block : \E n \in 0..LinesPerPage : Filled(r, b, n)

\* Lines in use hold rows.
RowsOnLines(r) == \A t \in Tid : InUse(r, t) => r.line[t].row \in Row

\* What the code relies on in the pages it is given.
WellFormed(r) == r \in Relation /\ Dense(r) /\ RowsOnLines(r)

\* Only the states of lines differ, and none becomes free or was.
SameLines(r, q) ==
  /\ q \in Relation /\ q.next_block = r.next_block
  /\ \A t \in Tid : /\ q.line[t].row = r.line[t].row /\ q.line[t].root = r.line[t].root
                    /\ InUse(q, t) <=> InUse(r, t)

\* The overlays the engine keeps: what a TRUNCATE has replaced is well formed.
SoundOverlay == {o \in Overlay : WellFormed(o.snapshot)}

\* No level has cleared the relation.
Uncleared(S) == \A i \in DOMAIN S : ~S[i].cleared

\* A command before lim has inserted, or invalidated, t.
InsBefore(S, t, lim) == \E i \in DOMAIN S : t \in S[i].ins /\ S[i].ins_cid[t] < lim
InvBefore(S, t, lim) == \E i \in DOMAIN S : t \in S[i].inv /\ S[i].inv_cid[t] < lim

\* No two levels have inserted t.
OneInserter(S, t) == \A i, j \in DOMAIN S : t \in S[i].ins /\ t \in S[j].ins => i = j

\* The tuples inserted, and invalidated, by the levels up to k, and by all.
InsTo(S, k) == UNION {S[i].ins : i \in 1..k}
InvTo(S, k) == UNION {S[i].inv : i \in 1..k}
AllIns(S) == UNION {S[i].ins : i \in DOMAIN S}
AllInv(S) == UNION {S[i].inv : i \in DOMAIN S}

=============================================================================
