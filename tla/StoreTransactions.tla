------------------------- MODULE StoreTransactions --------------------------
(***************************************************************************)
(* The write operations of the repository, statement by statement, as they  *)
(* run in concurrent request handlers against SQLite.                       *)
(*                                                                          *)
(* The variables of TaskStore are what is committed.  SQLite has one writer *)
(* at a time: the first statement that writes takes the lock, and a         *)
(* transaction ends it.  BEGIN takes no lock, and all three operations      *)
(* start with a statement that writes.                                      *)
(*                                                                          *)
(* Any statement may fail: the lock is not granted within the busy timeout, *)
(* the context of the request is done, the disk is full.  What happens then *)
(* depends on whether the error is seen by the deferred Rollback, which     *)
(* looks at the outer err only.                                             *)
(***************************************************************************)
EXTENDS TaskStore

CONSTANTS
    Request,        \* the handlers that may be running at the same time
    NoRequest

ASSUME RequestAssumption == NoRequest \notin Request

VARIABLES
    pc,             \* the statement a handler runs next, "idle" or "returned"
    job,            \* what it was called with
    row,            \* childTask, the local variable of enqueueChildTask
    reply,          \* what it has returned or will return
    stored,         \* history: its effect has been committed
    open,           \* the handlers whose transaction is neither committed nor rolled back
    writer,         \* who holds SQLite's write lock
    work            \* what the writer sees: the committed rows and its own changes; without a
                    \* writer, the committed rows

txVars == <<pc, job, row, reply, stored, open, writer, work>>
vars == <<storeVars, txVars>>

\* The columns that some transaction updates.
Columns == [exprStatus |-> exprStatus, exprResult |-> exprResult, createdAt |-> createdAt,
            status |-> status, arg1 |-> arg1, arg2 |-> arg2, result |-> result]

\* FinishTaskCmd has a status and a result; NaN stands for the status Failed.
Job == [op : {"create"}, expr : Expr, now : Time]
         \cup [op : {"claim"}, task : Task \cup {NoTask}]
         \cup [op : {"finish"}, task : Task, value : Float \cup {NaN}]

NoJob == [op |-> "claim", task |-> NoTask]
NoRow == [id |-> NoTask, arg1 |-> NULL, arg2 |-> NULL, status |-> "Absent"]

Reply == {"none", "ok", "error", "no_tasks", "not_found"}

Init ==
    /\ StoreInit
    /\ pc = [r \in Request |-> "idle"]
    /\ job = [r \in Request |-> NoJob]
    /\ row = [r \in Request |-> NoRow]
    /\ reply = [r \in Request |-> "none"]
    /\ stored = [r \in Request |-> FALSE]
    /\ open = {}
    /\ writer = NoRequest
    /\ work = Columns

-----------------------------------------------------------------------------
(***************************************************************************)
(* The common course of the handlers.                                       *)
(***************************************************************************)
At(r, stage) == pc[r] = stage

Goto(r, stage) == pc' = [pc EXCEPT ![r] = stage]

Running(r) == pc[r] \notin {"idle", "returned"}

\* The handler is called.  The id of a new expression is fresh, and one autocommitted statement
\* needs no BEGIN.
Call(r, j) ==
    /\ At(r, "idle")
    /\ j.op = "create" =>
           /\ exprStatus[j.expr] = "Absent"
           /\ \A q \in Request : job[q].op = "create" => job[q].expr # j.expr
    /\ job' = [job EXCEPT ![r] = j]
    /\ Goto(r, IF j.op = "claim" THEN "claim" ELSE "begin")
    /\ UNCHANGED <<storeVars, row, reply, stored, open, writer, work>>

Begin(r) ==
    /\ At(r, "begin")
    /\ open' = open \cup {r}
    /\ Goto(r, IF job[r].op = "create" THEN "insert_expr" ELSE "update_task")
    /\ UNCHANGED <<storeVars, job, row, reply, stored, writer, work>>

\* A bug: two transactions write at the same time.
TakeLockAnyway(r) == writer' = r

\* SQLite grants the write lock; until it is free the statement waits.
TakeLock(r) == writer = NoRequest /\ writer' = r

\* A statement changes the writer's view of the rows.
Write(r, stage, columns, next) ==
    /\ At(r, stage)
    /\ work' = columns
    /\ Goto(r, next)
    /\ UNCHANGED <<storeVars, stored>>

Return(r, answer) ==
    /\ reply' = [reply EXCEPT ![r] = answer]
    /\ Goto(r, "returned")

\* COMMIT: everybody sees what the writer saw.
Publish(r) ==
    /\ exprStatus' = work.exprStatus
    /\ exprResult' = work.exprResult
    /\ createdAt' = work.createdAt
    /\ status' = work.status
    /\ arg1' = work.arg1
    /\ arg2' = work.arg2
    /\ result' = work.result
    /\ work' = work
    /\ writer' = NoRequest
    /\ open' = open \ {r}
    /\ stored' = [stored EXCEPT ![r] = TRUE]

\* ROLLBACK, of a transaction that may have had nothing to write.
Rollback(r) ==
    /\ writer' = IF writer = r THEN NoRequest ELSE writer
    /\ work' = IF writer = r THEN Columns ELSE work
    /\ open' = open \ {r}
    /\ UNCHANGED <<storeVars, stored>>

Commit(r) ==
    /\ At(r, "commit")
    /\ Publish(r)
    /\ Return(r, "ok")
    /\ UNCHANGED <<job, row>>

-----------------------------------------------------------------------------
(***************************************************************************)
(* CreateExpression.                                                        *)
(***************************************************************************)
InsertExpression(r) ==
    /\ Write(r, "insert_expr",
             [work EXCEPT !.exprStatus[job[r].expr] = "Pending",
                          !.createdAt[job[r].expr] = job[r].now],
             "insert_tasks")
    /\ TakeLock(r)
    /\ UNCHANGED <<job, row, reply, open>>

InsertTasks(r) ==
    LET mine == TasksOf(job[r].expr)
    IN  /\ Write(r, "insert_tasks",
                 [work EXCEPT
                     !.status = [t \in Task |-> IF t \in mine THEN InitialStatus(t) ELSE @[t]],
                     !.arg1 = [t \in Task |->
                         IF t \in mine /\ Parent1[t] = NoTask THEN Literal1[t] ELSE @[t]],
                     !.arg2 = [t \in Task |->
                         IF t \in mine /\ Parent2[t] = NoTask THEN Literal2[t] ELSE @[t]]],
                 "commit")
        /\ UNCHANGED <<job, row, reply, open, writer>>

-----------------------------------------------------------------------------
(***************************************************************************)
(* GetPendingTask.  The row is returned before the statement has ended: it  *)
(* is row.Close() that commits, and its error is ignored.                   *)
(***************************************************************************)
Claim(r) ==
    /\ TakeLock(r)
    /\ \E t \in OldestPending :
           /\ Write(r, "claim", [work EXCEPT !.status[t] = "InProgress"], "close")
           /\ job' = [job EXCEPT ![r].task = t]
    /\ UNCHANGED <<row, reply, open>>

ClaimNothing(r) ==
    /\ At(r, "claim")
    /\ writer = NoRequest
    /\ OldestPending = {}
    /\ Return(r, "no_tasks")
    /\ UNCHANGED <<storeVars, job, row, stored, open, writer, work>>

\* The task is returned, or StructScan has failed; the claim is committed all the same.
Close(r) ==
    /\ At(r, "close")
    /\ Publish(r)
    /\ \E answer \in {"ok", "error"} : Return(r, answer)
    /\ UNCHANGED <<job, row>>

\* The commit at the end of the statement fails (SQLITE_BUSY because of a reader), and nobody
\* looks: the task is returned.
CloseFails(r) ==
    /\ At(r, "close")
    /\ Rollback(r)
    /\ Return(r, "ok")
    /\ UNCHANGED <<job, row>>

-----------------------------------------------------------------------------
(***************************************************************************)
(* FinishTask.                                                              *)
(***************************************************************************)
\* A bug: the NaN by which an agent reports a failure is stored.
UpdateTaskWithNaN(r) ==
    LET t == job[r].task
        failed == job[r].value = NaN
    IN  /\ Write(r, "update_task",
                 [work EXCEPT !.status[t] = IF failed THEN "Failed" ELSE "Completed",
                              !.result[t] = job[r].value],
                 IF failed THEN "fail_expr" ELSE "count")
        /\ TakeLock(r)
        /\ work.status[t] # "Absent"
        /\ UNCHANGED <<job, row, reply, open>>

UpdateTask(r) ==
    LET t == job[r].task
        failed == job[r].value = NaN
    IN  /\ Write(r, "update_task",
                 [work EXCEPT !.status[t] = IF failed THEN "Failed" ELSE "Completed",
                              !.result[t] = IF failed THEN NULL ELSE job[r].value],
                 IF failed THEN "fail_expr" ELSE "count")
        /\ TakeLock(r)
        /\ work.status[t] # "Absent"
        /\ UNCHANGED <<job, row, reply, open>>

\* The UPDATE takes the lock, finds no row, and the early return sets no err: no Rollback.
UpdateNoTask(r) ==
    /\ At(r, "update_task")
    /\ TakeLock(r)
    /\ work.status[job[r].task] = "Absent"
    /\ Return(r, "not_found")
    /\ UNCHANGED <<storeVars, job, row, stored, open, work>>

FailExpr(r) ==
    /\ Write(r, "fail_expr",
             [work EXCEPT !.exprStatus[ExprOf[job[r].task]] = "Failed"], "fail_tasks")
    /\ UNCHANGED <<job, row, reply, open, writer>>

\* status NOT IN (Completed, Failed)
FailTasks(r) ==
    /\ Write(r, "fail_tasks",
             [work EXCEPT !.status = [u \in Task |->
                 IF u \in TasksOf(ExprOf[job[r].task]) /\ @[u] \notin {"Completed", "Failed"}
                 THEN "Failed" ELSE @[u]]],
             "commit")
    /\ UNCHANGED <<job, row, reply, open, writer>>

\* A bug: the count is taken the wrong way round.
CountChildrenSwapped(r) ==
    /\ Write(r, "count", work, IF IsFinal(job[r].task) THEN "select_child" ELSE "complete")
    /\ UNCHANGED <<job, row, reply, open, writer>>

CountChildren(r) ==
    /\ Write(r, "count", work, IF IsFinal(job[r].task) THEN "complete" ELSE "select_child")
    /\ UNCHANGED <<job, row, reply, open, writer>>

CompleteExpr(r) ==
    LET t == job[r].task
    IN  /\ Write(r, "complete",
                 [work EXCEPT !.exprStatus[ExprOf[t]] = "Completed",
                              !.exprResult[ExprOf[t]] = work.result[t]],
                 "commit")
        /\ UNCHANGED <<job, row, reply, open, writer>>

SelectChild(r) ==
    /\ Write(r, "select_child", work, "update_child")
    /\ \E c \in ChildrenOf(job[r].task) :
           row' = [row EXCEPT ![r] = [id |-> c, arg1 |-> work.arg1[c], arg2 |-> work.arg2[c],
                                      status |-> work.status[c]]]
    /\ UNCHANGED <<job, reply, open, writer>>

\* What enqueueChildTask makes of the row it has read.
Woken(c, t, v) ==
    LET a == IF IsLeftOf(t, c.id) THEN v ELSE c.arg1
        b == IF IsLeftOf(t, c.id) THEN c.arg2 ELSE v
    IN  [c EXCEPT !.arg1 = a, !.arg2 = b,
                  !.status = IF a # NULL /\ b # NULL THEN "Pending" ELSE @]

\* The whole row is written back, the columns that were only read as well.
UpdateChild(r) ==
    LET t == job[r].task
        c == Woken(row[r], t, work.result[t])
    IN  /\ Write(r, "update_child",
                 [work EXCEPT !.arg1[c.id] = c.arg1, !.arg2[c.id] = c.arg2,
                              !.status[c.id] = c.status],
                 "commit")
        /\ UNCHANGED <<job, row, reply, open, writer>>

-----------------------------------------------------------------------------
(***************************************************************************)
(* A statement fails.                                                       *)
(***************************************************************************)

\* BeginTxx fails, or the outer err is set and the deferred function rolls back.
SeenStages == {"begin", "insert_expr", "update_task", "count", "commit"}

\* The error goes to an err of an inner scope (of the scan of the updated row, for "count" and
\* "fail_expr"): the handler returns and the transaction stays.
ShadowedStages ==
    {"insert_tasks", "count", "fail_expr", "fail_tasks", "complete", "select_child",
     "update_child"}

\* A bug: the deferred function rolls back, and the error of Commit is not returned.
StatementFailsUnheard(r) ==
    /\ pc[r] \in SeenStages
    /\ Rollback(r)
    /\ Return(r, "ok")
    /\ UNCHANGED <<job, row>>

StatementFails(r) ==
    /\ pc[r] \in SeenStages
    /\ Rollback(r)
    /\ Return(r, "error")
    /\ UNCHANGED <<job, row>>

StatementFailsShadowed(r) ==
    /\ pc[r] \in ShadowedStages
    /\ Return(r, "error")
    /\ UNCHANGED <<storeVars, job, row, stored, open, writer, work>>

\* row.Next() answers false, as for an empty result.
NextFails(r) ==
    /\ \/ At(r, "update_task") /\ Return(r, "not_found")
       \/ At(r, "claim") /\ Return(r, "no_tasks")
    /\ UNCHANGED <<storeVars, job, row, stored, open, writer, work>>

ClaimFails(r) ==
    /\ At(r, "claim")
    /\ Return(r, "error")
    /\ UNCHANGED <<storeVars, job, row, stored, open, writer, work>>

\* A bug: nothing ends the transaction that the handler has left open.
ContextDoneNoRollback(r) ==
    /\ At(r, "returned")
    /\ pc' = [pc EXCEPT ![r] = "idle"]
    /\ job' = [job EXCEPT ![r] = NoJob]
    /\ row' = [row EXCEPT ![r] = NoRow]
    /\ reply' = [reply EXCEPT ![r] = "none"]
    /\ stored' = [stored EXCEPT ![r] = FALSE]
    /\ UNCHANGED <<storeVars, open, writer, work>>

\* gRPC cancels the context of a call it has answered, and database/sql then rolls back the
\* transaction that was begun with it.
ContextDone(r) ==
    /\ At(r, "returned")
    /\ writer' = IF writer = r THEN NoRequest ELSE writer
    /\ work' = IF writer = r THEN Columns ELSE work
    /\ open' = open \ {r}
    /\ Goto(r, "idle")
    /\ job' = [job EXCEPT ![r] = NoJob]
    /\ row' = [row EXCEPT ![r] = NoRow]
    /\ reply' = [reply EXCEPT ![r] = "none"]
    /\ stored' = [stored EXCEPT ![r] = FALSE]
    /\ UNCHANGED storeVars

\* The calculator is killed; at the next start SQLite rolls back what was not committed.
Crash ==
    /\ pc' = [r \in Request |-> "idle"]
    /\ job' = [r \in Request |-> NoJob]
    /\ row' = [r \in Request |-> NoRow]
    /\ reply' = [r \in Request |-> "none"]
    /\ stored' = [r \in Request |-> FALSE]
    /\ open' = {}
    /\ writer' = NoRequest
    /\ work' = Columns
    /\ UNCHANGED storeVars

-----------------------------------------------------------------------------
Statement(r) ==
    \/ Begin(r)
    \/ InsertExpression(r)
    \/ InsertTasks(r)
    \/ Claim(r)
    \/ ClaimNothing(r)
    \/ Close(r)
    \/ UpdateTask(r)
    \/ UpdateNoTask(r)
    \/ FailExpr(r)
    \/ FailTasks(r)
    \/ CountChildren(r)
    \/ CompleteExpr(r)
    \/ SelectChild(r)
    \/ UpdateChild(r)
    \/ Commit(r)

\* A bug: a statement waits for the lock as long as it takes.
FailureNoBusyTimeout(r) ==
    /\ pc[r] \notin {"insert_expr", "update_task", "claim"}
    /\ StatementFails(r) \/ StatementFailsShadowed(r) \/ CloseFails(r)

Failure(r) ==
    \/ StatementFails(r)
    \/ StatementFailsShadowed(r)
    \/ NextFails(r)
    \/ ClaimFails(r)
    \/ CloseFails(r)

Advance(r) == Statement(r) \/ Failure(r)

Next ==
    \/ \E r \in Request : \/ \E j \in Job : Call(r, j)
                          \/ Advance(r)
                          \/ ContextDone(r)
    \/ Crash

Spec == Init /\ [][Next]_vars

(***************************************************************************)
(* A handler goes on: each statement ends, at the latest with an error when *)
(* the busy timeout (five seconds in go-sqlite3) is over.  The context of a *)
(* call is done some time after its handler has returned.                   *)
(***************************************************************************)
FairSpec ==
    /\ Spec
    /\ \A r \in Request : WF_vars(Advance(r)) /\ WF_vars(ContextDone(r))

-----------------------------------------------------------------------------
Stages ==
    {"idle", "begin", "insert_expr", "insert_tasks", "claim", "close", "update_task",
     "fail_expr", "fail_tasks", "count", "complete", "select_child", "update_child", "commit",
     "returned"}

Tables ==
    [exprStatus : [Expr -> ExprStatus],
     exprResult : [Expr -> Float \cup {NULL}],
     createdAt : [Expr -> Time \cup {NULL}],
     status : [Task -> TaskStatus],
     arg1 : [Task -> Float \cup {NULL}],
     arg2 : [Task -> Float \cup {NULL}],
     result : [Task -> Float \cup {NULL}]]

TypeOK ==
    /\ StoreTypeOK
    /\ pc \in [Request -> Stages]
    /\ job \in [Request -> Job]
    /\ row \in [Request -> [id : Task \cup {NoTask}, arg1 : Float \cup {NULL},
                            arg2 : Float \cup {NULL}, status : TaskStatus]]
    /\ reply \in [Request -> Reply]
    /\ stored \in [Request -> BOOLEAN]
    /\ open \subseteq Request
    /\ writer \in Request \cup {NoRequest}
    /\ work \in Tables

-----------------------------------------------------------------------------
(***************************************************************************)
(* The inductive invariant.  It says what the writer has done so far, as a  *)
(* function of the committed rows: they are still what they were when the   *)
(* writer took the lock.                                                    *)
(***************************************************************************)
StagesOf(op) ==
    CASE op = "create" -> {"begin", "insert_expr", "insert_tasks", "commit"}
      [] op = "claim" -> {"claim", "close"}
      [] op = "finish" -> {"begin", "update_task", "fail_expr", "fail_tasks", "count", "complete",
                           "select_child", "update_child", "commit"}

\* The stages after the first write.
LockedStages ==
    {"insert_tasks", "close", "fail_expr", "fail_tasks", "count", "complete", "select_child",
     "update_child", "commit"}

JobsFit ==
    \A r \in Request :
        /\ Running(r) => pc[r] \in StagesOf(job[r].op)
        /\ pc[r] \in LockedStages => writer = r
        /\ job[r].op = "create" =>
               /\ Running(r) => exprStatus[job[r].expr] = "Absent"
               /\ \A q \in Request \ {r} :
                      job[q].op = "create" => job[q].expr # job[r].expr

WorkIs(es, er, ca, st, a1, a2, rs) ==
    work = [exprStatus |-> es, exprResult |-> er, createdAt |-> ca,
            status |-> st, arg1 |-> a1, arg2 |-> a2, result |-> rs]

CreateWork(r) ==
    LET e == job[r].expr
        Pending == [exprStatus EXCEPT ![e] = "Pending"]
        Created == [createdAt EXCEPT ![e] = job[r].now]
    IN  /\ At(r, "insert_tasks") => WorkIs(Pending, exprResult, Created, status, arg1, arg2, result)
        /\ At(r, "commit") =>
               WorkIs(Pending, exprResult, Created,
                      [t \in Task |-> IF t \in TasksOf(e) THEN InitialStatus(t) ELSE status[t]],
                      [t \in Task |-> IF t \in TasksOf(e) /\ Parent1[t] = NoTask
                                      THEN Literal1[t] ELSE arg1[t]],
                      [t \in Task |-> IF t \in TasksOf(e) /\ Parent2[t] = NoTask
                                      THEN Literal2[t] ELSE arg2[t]],
                      result)

ClaimWork(r) ==
    At(r, "close") =>
        /\ job[r].task \in OldestPending
        /\ WorkIs(exprStatus, exprResult, createdAt,
                  [status EXCEPT ![job[r].task] = "InProgress"], arg1, arg2, result)

FailWork(r) ==
    LET t == job[r].task
        Failed == [exprStatus EXCEPT ![ExprOf[t]] = "Failed"]
        Cleared == [result EXCEPT ![t] = NULL]
    IN  /\ pc[r] \in {"fail_expr", "fail_tasks"} => job[r].value = NaN
        /\ pc[r] \in {"fail_expr", "fail_tasks", "commit"} => status[t] # "Absent"
        /\ At(r, "fail_expr") =>
               WorkIs(exprStatus, exprResult, createdAt,
                      [status EXCEPT ![t] = "Failed"], arg1, arg2, Cleared)
        /\ At(r, "fail_tasks") =>
               WorkIs(Failed, exprResult, createdAt,
                      [status EXCEPT ![t] = "Failed"], arg1, arg2, Cleared)
        /\ At(r, "commit") /\ job[r].value = NaN =>
               WorkIs(Failed, exprResult, createdAt,
                      [u \in Task |-> IF u = t \/ u \in UnfinishedTasksOf(ExprOf[t])
                                      THEN "Failed" ELSE status[u]],
                      arg1, arg2, Cleared)

CompleteWork(r) ==
    LET t == job[r].task
        v == job[r].value
        c == row[r].id
        a == IF IsLeftOf(t, c) THEN v ELSE arg1[c]
        b == IF IsLeftOf(t, c) THEN arg2[c] ELSE v
        Done == [status EXCEPT ![t] = "Completed"]
        Filled == [result EXCEPT ![t] = v]
        Unlinked == WorkIs(exprStatus, exprResult, createdAt, Done, arg1, arg2, Filled)
    IN  /\ pc[r] \in {"count", "complete", "select_child", "update_child"} => v # NaN
        /\ pc[r] \in {"count", "complete", "select_child", "update_child", "commit"} =>
               status[t] # "Absent"
        /\ At(r, "count") => Unlinked
        /\ At(r, "complete") => Unlinked /\ IsFinal(t)
        /\ At(r, "select_child") => Unlinked /\ ~IsFinal(t)
        /\ At(r, "update_child") =>
               /\ Unlinked
               /\ c \in ChildrenOf(t)
               /\ row[r] = [id |-> c, arg1 |-> arg1[c], arg2 |-> arg2[c], status |-> status[c]]
        /\ At(r, "commit") /\ v # NaN =>
               \/ /\ IsFinal(t)
                  /\ WorkIs([exprStatus EXCEPT ![ExprOf[t]] = "Completed"],
                            [exprResult EXCEPT ![ExprOf[t]] = v],
                            createdAt, Done, arg1, arg2, Filled)
               \/ /\ c \in ChildrenOf(t)
                  /\ WorkIs(exprStatus, exprResult, createdAt,
                            [Done EXCEPT ![c] = IF a # NULL /\ b # NULL THEN "Pending"
                                                ELSE status[c]],
                            [arg1 EXCEPT ![c] = a], [arg2 EXCEPT ![c] = b], Filled)

WorkFits ==
    /\ writer = NoRequest => work = Columns
    /\ \A r \in Request :
           writer = r =>
               /\ job[r].op = "create" => CreateWork(r)
               /\ job[r].op = "claim" => ClaimWork(r)
               /\ job[r].op = "finish" => FailWork(r) /\ CompleteWork(r)

AnswersFit ==
    \A r \in Request :
        /\ stored[r] => pc[r] = "returned"
        /\ pc[r] = "returned" /\ job[r].op # "claim" => (reply[r] = "ok" <=> stored[r])

IInv ==
    /\ TypeOK
    /\ RowsAppearTogether
    /\ JobsFit
    /\ WorkFits
    /\ AnswersFit

-----------------------------------------------------------------------------
\* Whatever fails, is interleaved or crashes half-way, the committed tables change only by whole
\* operations of the repository: the statements of CreateExpression, FinishTask and
\* GetPendingTask implement the atomic operations that module Calculation is built of.  (That
\* enqueueChildTask writes back a row it has read needs the lock that the first UPDATE took.)
OperationsAreAtomic == StoreSpec

\* What CreateExpression and FinishTask answer is what has become of the rows: success if and
\* only if the effect is committed.  An error that leaves the transaction open (lines 86, 244,
\* 250, 266, 270) must not let it be committed later.
AnswersAreTrue ==
    \A r \in Request :
        pc[r] = "returned" /\ job[r].op # "claim" => (reply[r] = "ok" <=> stored[r])

\* A handler that has lost its error: only the end of its context rolls its transaction back.
Abandoned(r) == At(r, "returned") /\ reply[r] \in {"error", "not_found"}

\* Nothing stays open unnoticed: who has a transaction open, or the write lock, is in the middle
\* of its operation or has returned an error, and its context is still to end.  Neither a success
\* nor a claim nor an idle connection keeps anything, whichever error is shadowed.
NothingIsLeftOpen ==
    \A r \in Request :
        /\ writer = r => pc[r] \in LockedStages \/ Abandoned(r)
        /\ r \in open => \/ pc[r] \in {"insert_expr", "update_task"}
                         \/ pc[r] \in LockedStages \ {"close"}
                         \/ Abandoned(r)

\* Nobody is locked out for ever: the write lock of a handler, of one as well that has returned
\* without Commit or Rollback, is given back.
LocksAreReleased == \A r \in Request : writer = r ~> writer # r

\* Every call ends although others hold the lock, because the wait for it is limited.
CallsEnd == \A r \in Request : Running(r) ~> ~Running(r)

\* Documented, and not so: FinishTask "returns ErrTaskNotFound if the task doesn't exist".
NotFoundMeansAbsent ==
    [][\A r \in Request :
           reply'[r] = "not_found" /\ reply[r] # "not_found" =>
               status[job[r].task] = "Absent"]_vars
=============================================================================
