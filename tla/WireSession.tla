----------------------------- MODULE WireSession -----------------------------
(***************************************************************************)
(* One connection: the message loop of fastpg-wire (process_socket_unix)   *)
(* over its SessionState.  A simple Query may hold several statements; a   *)
(* COPY FROM STDIN among them suspends the message, its rows follow in     *)
(* messages of their own, and the statements behind it wait in             *)
(* pending_simple.  COPY also opens an overlay in the storage engine that  *)
(* PostgreSQL does not know of.  Of the backend this module keeps the      *)
(* state of PostgreSQL's transaction block and the number of overlays of   *)
(* the session; TableAm has their contents.                                *)
(***************************************************************************)
EXTENDS Integers, Sequences

CONSTANTS MaxSavepoints,   \* bound: savepoints in a block
          MaxStatements    \* bound: statements in a Query message

ASSUME WireAssumption == MaxSavepoints \in Nat /\ MaxStatements \in Nat \ {0}

VARIABLES conn,        \* PgWireConnectionState; "Query" and "CopyDone" while such
                       \* a message is being worked on
          extended,    \* the COPY came by the extended protocol
          todo,        \* statements of the message still to be run
          split,       \* the message was split into its statements
          status,      \* the client's transaction_status
          new_status,  \* the copy of it that on_query works on
          told,        \* the status of the last ReadyForQuery
          owed,        \* a simple Query still waits for its ReadyForQuery
          copying,     \* SessionState.copy: a COPY is active
          pending,     \* SessionState.pending_simple
          backend      \* block, savepoints and number of overlays

wireVars == <<conn, extended, todo, split, status, new_status, told, owed>>
vars == <<wireVars, copying, pending, backend>>

\* A statement by what it does: "ok" reads or writes, "err" fails.
Statement == {"ok", "err", "copy", "begin", "commit", "rollback", "savepoint", "release",
              "rollback to"}
Batch == UNION {[1..n -> Statement] : n \in 1..MaxStatements}
Status == {"Idle", "Transaction", "Error"}

\* savepoints counts PostgreSQL's subtransactions, a failed one included.
Backend == [block : {"Idle", "InBlock", "Aborted", "SubAborted"},
            savepoints : 0..MaxSavepoints, overlays : 0..(MaxSavepoints + 2)]

TypeOK ==
  /\ conn \in {"ReadyForQuery", "Query", "CopyIn", "CopyDone", "AwaitingSync"}
  /\ extended \in BOOLEAN /\ split \in BOOLEAN /\ owed \in BOOLEAN /\ copying \in BOOLEAN
  /\ todo \in Batch \cup {<<>>} /\ pending \in Batch \cup {<<>>}
  /\ status \in Status /\ new_status \in Status /\ told \in Status
  /\ backend \in Backend

Init == /\ conn = "ReadyForQuery" /\ extended = FALSE
        /\ todo = <<>> /\ split = FALSE
        /\ status = "Idle" /\ new_status = "Idle" /\ told = "Idle"
        /\ owed = FALSE
        /\ copying = FALSE /\ pending = <<>>
        /\ backend = [block |-> "Idle", savepoints |-> 0, overlays |-> 0]

-----------------------------------------------------------------------------
(* The storage engine's overlays *)

\* fastpg_storage2_subxact_commit and _abort leave the last overlay alone.
Pop(b) == [b EXCEPT !.overlays = IF @ > 1 THEN @ - 1 ELSE @]

\* Mutant: the stack of overlays is popped without asking whether it is empty.
CommitIfImplicitUnchecked(b, empty) ==
  IF b.block # "Idle" THEN b ELSE [b EXCEPT !.overlays = IF empty THEN @ - 1 ELSE 0]

\* xact_commit_if_implicit; an empty top overlay is all that is taken away.
CommitIfImplicit(b, empty) ==
  IF b.block # "Idle" \/ b.overlays = 0 THEN b
  ELSE [b EXCEPT !.overlays = IF empty THEN @ - 1 ELSE 0]

\* xact_abort_if_implicit
AbortIfImplicit(b) == IF b.block # "Idle" THEN b ELSE [b EXCEPT !.overlays = 0]

\* A failed statement: outside a block its transaction is gone, in a block the
\* innermost (sub)transaction is aborted, with the top overlay if it is a
\* savepoint.
FailStatement(b) ==
  CASE b.block = "Idle" -> AbortIfImplicit(b)
    [] b.block = "InBlock" /\ b.savepoints = 0 -> [b EXCEPT !.block = "Aborted"]
    [] b.block = "InBlock" /\ b.savepoints > 0 -> [Pop(b) EXCEPT !.block = "SubAborted"]
    [] OTHER -> b

-----------------------------------------------------------------------------
(* Statements *)

\* Whether the backend carries out the statement.  The bound on savepoints makes
\* one more of them fail.
Succeeds(stmt, b) ==
  CASE stmt \in {"ok", "begin", "copy"} -> b.block \in {"Idle", "InBlock"}
    [] stmt = "savepoint" -> b.block = "InBlock" /\ b.savepoints < MaxSavepoints
    [] stmt = "release" -> b.block = "InBlock" /\ b.savepoints > 0
    [] stmt = "rollback to" -> /\ b.savepoints > 0
                               /\ b.block \in {"InBlock", "SubAborted"}
    [] stmt \in {"commit", "rollback"} -> TRUE
    [] stmt = "err" -> FALSE

\* QueryExecutor::begin_copy: an overlay for the COPY, on top of one for the
\* transaction.
BeginCopy(b) == [b EXCEPT !.overlays = IF @ = 0 THEN 2 ELSE @ + 1]

\* The backend after a statement that succeeds (execute_transaction_stmt).
Carried(stmt, b) ==
  CASE stmt = "begin" /\ b.block = "Idle" -> [b EXCEPT !.block = "InBlock", !.overlays = 1]
    [] stmt \in {"commit", "rollback"} ->
         [b EXCEPT !.block = "Idle", !.savepoints = 0, !.overlays = 0]
    [] stmt = "savepoint" -> [b EXCEPT !.savepoints = @ + 1, !.overlays = @ + 1]
    [] stmt = "release" -> [Pop(b) EXCEPT !.savepoints = @ - 1]
    [] stmt = "rollback to" ->
         [b EXCEPT !.block = "InBlock",
                   !.overlays = IF b.block = "SubAborted" THEN @ + 1 ELSE @]
    [] stmt = "copy" -> BeginCopy(b)
    [] OTHER -> b

\* TransactionStatus::to_error_state and to_in_transaction_state.
ToError(st) == IF st = "Idle" THEN "Idle" ELSE "Error"
ToInTransaction(st) == IF st = "Idle" THEN "Transaction" ELSE st

\* apply_command_transaction_status: by the first word of the command tag.
TagStatus(stmt, st) ==
  CASE stmt = "begin" -> ToInTransaction(st)
    [] stmt \in {"commit", "rollback", "rollback to"} -> "Idle"
    [] OTHER -> st

-----------------------------------------------------------------------------
(* Answers *)

ReadyForQuery(st) == conn' = "ReadyForQuery" /\ told' = st /\ owed' = FALSE

\* Mutant: an error in a COPY always waits for Sync.
HandleErrorWaits(ext) ==
  /\ status' = ToError(status) /\ new_status' = status'
  /\ conn' = "AwaitingSync"
  /\ todo' = <<>>
  /\ UNCHANGED <<extended, split, told, owed>>

\* process_unix_error
HandleError(ext) ==
  /\ status' = ToError(status) /\ new_status' = status'
  /\ IF ext THEN conn' = "AwaitingSync" /\ UNCHANGED <<told, owed>>
     ELSE ReadyForQuery(status')
  /\ todo' = <<>>
  /\ UNCHANGED <<extended, split>>

-----------------------------------------------------------------------------
(* Simple Query *)

\* on_query and the fast path.  A message of several statements with a COPY FROM
\* STDIN among them is split; any other goes to the backend whole, which runs its
\* statements up to the first that fails.
Query(batch) ==
  /\ conn = "ReadyForQuery"
  /\ conn' = "Query" /\ todo' = batch /\ new_status' = status /\ owed' = TRUE
  /\ split' = (Len(batch) > 1 /\ \E i \in DOMAIN batch : batch[i] = "copy")
  /\ UNCHANGED <<extended, status, told, copying, pending, backend>>

\* Mutant: the COPY itself is among the statements that wait for its end.
RunStatementAgain ==
  LET stmt == Head(todo)
      ok == Succeeds(stmt, backend)
      enters_copy == ok /\ stmt = "copy"
  IN /\ conn \in {"Query", "CopyDone"} /\ todo # <<>>
     /\ backend' = IF ok THEN Carried(stmt, backend) ELSE FailStatement(backend)
     /\ copying' = enters_copy
     /\ pending' = IF enters_copy /\ (split \/ conn = "CopyDone") THEN todo ELSE pending
     /\ todo' = IF ok /\ ~enters_copy THEN Tail(todo) ELSE <<>>
     /\ conn' = IF enters_copy THEN "CopyIn" ELSE conn
     /\ extended' = (extended /\ ~enters_copy)
     /\ new_status' = CASE conn = "CopyDone" \/ enters_copy -> status
                        [] conn = "Query" /\ ok /\ ~enters_copy -> TagStatus(stmt, new_status)
                        [] conn = "Query" /\ ~ok -> ToError(new_status)
     /\ UNCHANGED <<split, status, told, owed>>

\* A statement of a Query (execute_simple_message, feed_simple_execution) or,
\* after CopyDone, of pending_simple (drain_pending_simple).
RunStatement ==
  LET stmt == Head(todo)
      ok == Succeeds(stmt, backend)
      enters_copy == ok /\ stmt = "copy"
  IN /\ conn \in {"Query", "CopyDone"} /\ todo # <<>>
     /\ backend' = IF ok THEN Carried(stmt, backend) ELSE FailStatement(backend)
     /\ copying' = enters_copy
     /\ pending' = IF enters_copy /\ (split \/ conn = "CopyDone") THEN Tail(todo) ELSE pending
     /\ todo' = IF ok /\ ~enters_copy THEN Tail(todo) ELSE <<>>
     /\ conn' = IF enters_copy THEN "CopyIn" ELSE conn
     /\ extended' = (extended /\ ~enters_copy)
     /\ new_status' = CASE conn = "CopyDone" \/ enters_copy -> status
                        [] conn = "Query" /\ ok /\ ~enters_copy -> TagStatus(stmt, new_status)
                        [] conn = "Query" /\ ~ok -> ToError(new_status)
     /\ UNCHANGED <<split, status, told, owed>>

\* The end of on_query: the status is stored only if no COPY was entered.
EndQuery == /\ conn = "Query" /\ todo = <<>>
            /\ status' = new_status
            /\ ReadyForQuery(new_status)
            /\ UNCHANGED <<extended, todo, split, new_status, copying, pending, backend>>

-----------------------------------------------------------------------------
(* COPY *)

\* Mutant: only the transaction is aborted, which a block prevents.
AbortActiveCopyKeepsOverlay(b) == AbortIfImplicit(b)

\* SessionState::abort_active_copy and QueryExecutor::abort_copy
AbortActiveCopy(b) == AbortIfImplicit(Pop(b))

\* Mutant: the session is not told of CopyFail.
OnCopyFailKeepsCopy == /\ conn = "CopyIn"
                       /\ HandleError(extended)
                       /\ UNCHANGED <<copying, pending, backend>>

\* on_copy_data that the session cannot take, and on_copy_fail: the COPY is
\* aborted, PostgreSQL is not told.
OnCopyFail == /\ conn = "CopyIn"
              /\ copying' = FALSE /\ backend' = AbortActiveCopy(backend)
              /\ HandleError(extended)
              /\ UNCHANGED pending

\* on_copy_done whose rows are refused: by the session, or (in_backend) by
\* the command that inserts them (copy_buffered_postgres_catalog).
OnCopyDoneError(in_backend) ==
  /\ conn = "CopyIn"
  /\ copying' = FALSE
  /\ backend' = AbortActiveCopy(IF in_backend THEN FailStatement(backend) ELSE backend)
  /\ HandleError(extended)
  /\ UNCHANGED pending

\* on_copy_done: the command that inserts the rows, finish_copy, and then the
\* statements that wait.
OnCopyDone(no_rows) ==
  /\ conn = "CopyIn"
  /\ copying' = FALSE
  /\ backend' = CommitIfImplicit(Pop(CommitIfImplicit(backend, no_rows)), TRUE)
  /\ conn' = "CopyDone" /\ todo' = pending /\ pending' = <<>>
  /\ UNCHANGED <<extended, split, status, new_status, told, owed>>

\* The end of CopyDone if it did not enter another COPY.
EndCopyDone ==
  /\ conn = "CopyDone" /\ todo = <<>>
  /\ IF extended THEN conn' = "ReadyForQuery" /\ UNCHANGED <<told, owed>>
     ELSE ReadyForQuery("Idle")
  /\ UNCHANGED <<extended, todo, split, status, new_status, copying, pending, backend>>

-----------------------------------------------------------------------------
(* Extended protocol *)

\* on_execute: do_query runs one statement, the library answers; after an error
\* the rest up to Sync is skipped.
Execute(stmt) ==
  LET ok == Succeeds(stmt, backend)
  IN /\ conn = "ReadyForQuery"
     /\ backend' = IF ok THEN Carried(stmt, backend) ELSE FailStatement(backend)
     /\ copying' = (ok /\ stmt = "copy")
     /\ extended' = (ok /\ stmt = "copy")
     /\ conn' = CASE ok /\ stmt = "copy" -> "CopyIn"
                  [] ok /\ stmt # "copy" -> conn
                  [] ~ok -> "AwaitingSync"
     /\ status' = IF ok THEN TagStatus(stmt, status) ELSE ToError(status)
     /\ new_status' = status'
     /\ UNCHANGED <<todo, split, told, owed, pending>>

\* on_sync
Sync == /\ conn \in {"ReadyForQuery", "AwaitingSync"}
        /\ ReadyForQuery(status)
        /\ UNCHANGED <<extended, todo, split, status, new_status, copying, pending, backend>>

\* The client ends a COPY, well or not.
EndCopy == \/ OnCopyFail
           \/ \E in_backend \in BOOLEAN : OnCopyDoneError(in_backend)
           \/ \E no_rows \in BOOLEAN : OnCopyDone(no_rows)

Next == \/ \E batch \in Batch : Query(batch)
        \/ RunStatement \/ EndQuery \/ EndCopyDone
        \/ EndCopy
        \/ \E stmt \in Statement : Execute(stmt)
        \/ Sync

Spec == Init /\ [][Next]_vars

\* The connection's task runs, and a client that is asked for the rows of a COPY
\* sends them or gives up.  Nothing else is assumed of the client.
FairSpec == Spec /\ WF_vars(RunStatement \/ EndQuery \/ EndCopyDone) /\ WF_vars(EndCopy)

-----------------------------------------------------------------------------
(* Properties *)

\* A COPY is active in the session exactly while the connection takes COPY
\* messages.  abort_active_copy relies on it: without an active COPY it would
\* pop the overlay of a savepoint.
CopyOnlyInCopyIn == copying <=> conn = "CopyIn"

\* PostgreSQL's nesting level and the overlays of the storage engine stay in
\* step: one overlay for the block, one for each savepoint that has not failed,
\* one for the COPY and, outside a block, one below that.  A COPY that ends by
\* CopyDone, CopyFail, bad data or a failing command, in a block, in a savepoint
\* or outside, takes no more and no less than its own overlay away.
OverlaysMatchBlock ==
  backend.overlays =
    (CASE backend.block = "Idle" -> IF copying THEN 1 ELSE 0
       [] backend.block \in {"InBlock", "Aborted"} -> 1 + backend.savepoints
       [] backend.block = "SubAborted" -> backend.savepoints)
    + (IF copying THEN 1 ELSE 0)

\* No simple Query goes without its ReadyForQuery: when the connection takes the
\* next one, or waits for a Sync that a simple client never sends, the last one
\* was answered, whatever COPY it entered and however that ended.
QueryAnswered == conn \in {"ReadyForQuery", "AwaitingSync"} => ~owed

\* A simple Query that enters a COPY, and another from pending_simple when the
\* first is done, is answered in the end: drain_pending_simple gets on with
\* every CopyDone, and no COPY is entered twice.
QueryCompletes == owed ~> ~owed
=============================================================================
