---------------------------- MODULE SessionService ----------------------------
(***************************************************************************)
(* What the server promises the sessions about running their statements,   *)
(* without lane, counters and locks: a session has one statement at a      *)
(* time, at most one statement of all sessions runs, and a statement       *)
(* changes the transaction block of its own session only, in the way       *)
(* PostgreSQL's block states allow.  ExecutionLane implements it.          *)
(***************************************************************************)
CONSTANT Session

VARIABLES phase,       \* phase[s]: where the statement of s is
          request,     \* request[s]: what it is
          block        \* block[s]: the transaction block of s

vars == <<phase, request, block>>

Request == {"begin", "query", "write", "ddl", "end"}

Init == /\ phase = [s \in Session |-> "idle"]
        /\ request = [s \in Session |-> "none"]
        /\ block = [s \in Session |-> "no"]

\* Outside a block there is nothing to end, inside none to begin.
Submit(s, k) == /\ phase[s] = "idle"
                /\ IF block[s] = "no" THEN k # "end" ELSE k # "begin"
                /\ phase' = [phase EXCEPT ![s] = "waiting"]
                /\ request' = [request EXCEPT ![s] = k]
                /\ UNCHANGED block

Enter(s) == /\ phase[s] = "waiting"
            /\ \A t \in Session : phase[t] \notin {"running", "done"}
            /\ phase' = [phase EXCEPT ![s] = "running"]
            /\ UNCHANGED <<request, block>>

\* How a statement may leave its block: only BEGIN opens one, only COMMIT or
\* ROLLBACK ends it, an error makes it fail, and a failed one stays so.
Outcome(k, b) ==
  CASE k = "begin" -> {"open"}
    [] k = "end" -> {"no"}
    [] k \notin {"begin", "end"} /\ b = "open" -> {"open", "failed"}
    [] k \notin {"begin", "end"} /\ b # "open" -> {b}

Complete(s) == /\ phase[s] = "running"
               /\ phase' = [phase EXCEPT ![s] = "done"]
               /\ \E b \in Outcome(request[s], block[s]) : block' = [block EXCEPT ![s] = b]
               /\ UNCHANGED request

Leave(s) == /\ phase[s] = "done"
            /\ phase' = [phase EXCEPT ![s] = "idle"]
            /\ request' = [request EXCEPT ![s] = "none"]
            /\ UNCHANGED block

Next == \E s \in Session : \/ \E k \in Request : Submit(s, k)
                           \/ Enter(s) \/ Complete(s) \/ Leave(s)

Spec == Init /\ [][Next]_vars
=============================================================================
