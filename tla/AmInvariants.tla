---------------------------- MODULE AmInvariants ----------------------------
(***************************************************************************)
(* What the table access method keeps true, as the proofs state it.        *)
(***************************************************************************)
EXTENDS TableAm, StorageInvariants

-----------------------------------------------------------------------------
(* What a session holds *)

\* The shape of the state: what every session has one of.
Shape == /\ DOMAIN stack = Session /\ explicit \in [Session -> BOOLEAN]
         /\ DOMAIN table_lock = Session /\ DOMAIN copy = Session
         /\ pg \in [Session -> {"Idle", "InBlock", "Aborted", "SubAborted"}]
         /\ lane \in Session \cup {NoSession}
         /\ row_lock \in [Tid -> Session \cup {NoSession}]

\* The storage engine takes a transaction for explicit exactly as long as
\* PostgreSQL is in a block, failed or not; a statement runs only in a session
\* that is in no block or in one that has not failed, and not at the end of a COPY.
InStep == /\ \A s \in Session : explicit[s] <=> pg[s] # "Idle"
          /\ \A s \in Session : lane = s => /\ pg[s] \in {"Idle", "InBlock"}
                                           /\ copy[s] \in {"none", "data"}

NoLocks(s) == table_lock[s] = NoTableLock /\ \A t \in Tid : row_lock[t] # s

\* The overlays of a session outside a block: one at most in a statement, and
\* below that of a COPY an empty one.
ImplicitStack(s) ==
  \/ copy[s] = "none" /\ lane # s /\ stack[s] = <<>>
  \/ copy[s] = "none" /\ lane = s /\ \E o : stack[s] \in {<<>>, <<o>>}
  \/ copy[s] = "data" /\ lane # s /\ stack[s] = <<EmptyOverlay, EmptyOverlay>>
  \/ copy[s] = "data" /\ lane = s /\ \E o : stack[s] = <<EmptyOverlay, o>>
  \/ copy[s] = "failed" /\ stack[s] \in {<<>>, <<EmptyOverlay, EmptyOverlay>>}
  \/ copy[s] \in {"done", "commit", "abort"} /\ stack[s] \in {<<>>, <<EmptyOverlay>>}

\* What a session outside a block may hold.
Held(s) == ImplicitStack(s) /\ (lane # s => NoLocks(s))

IdleInv == Shape /\ InStep /\ \A s \in Session : pg[s] = "Idle" => Held(s)

-----------------------------------------------------------------------------
(* Types *)

\* The overlay of a COPY comes on top of those of PostgreSQL's nesting levels.
Extra(s) == IF copy[s] \in {"data", "done", "failed"} THEN 1 ELSE 0

\* The stack of s is as deep as its nesting allows, and in a block that has not
\* failed as a whole it has a level; a statement that has begun has a command id to
\* spare for the next one.
DepthOK(s) == /\ Depth(s) <= MaxDepth + Extra(s)
              /\ copy[s] = "data" => Depth(s) >= 2
              /\ pg[s] \in {"InBlock", "SubAborted"} => Depth(s) > Extra(s)
              /\ lane = s => cid[s] < MaxCid

AmTypes == /\ pg \in [Session -> {"Idle", "InBlock", "Aborted", "SubAborted"}]
           /\ lane \in Session \cup {NoSession}
           /\ utility \in BOOLEAN
           /\ cid \in [Session -> Cid]
           /\ row_lock \in [Tid -> Session \cup {NoSession}]
           /\ lock_root \in [Session -> Redirects]
           /\ copy \in [Session -> CopyStep]
           /\ table_lock \in [Session -> [write : 0..MaxDepth, excl : 0..MaxDepth]]

AmSound == StorageSound /\ AmTypes /\ \A s \in Session : DepthOK(s)

=============================================================================
