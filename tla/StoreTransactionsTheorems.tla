--------------------- MODULE StoreTransactionsTheorems ----------------------
(***************************************************************************)
(* The repository's statements implement its operations, for any plans, any *)
(* number of concurrent handlers and any failures.                          *)
(***************************************************************************)
EXTENDS StoreTransactions, TLAPS

\* What PlanAssumption says.
USE DEF PlansAreTrees

\* A job has the fields of its operation.
LEMMA JobFields ==
    ASSUME TypeOK, NEW r \in Request
    PROVE  /\ job[r].op \in {"create", "claim", "finish"}
           /\ job[r].op = "create" => job[r].expr \in Expr /\ job[r].now \in Time
           /\ job[r].op = "claim" => job[r].task \in Task \cup {NoTask}
           /\ job[r].op = "finish" => job[r].task \in Task /\ job[r].value \in Float \cup {NaN}
BY DEF TypeOK, Job

\* What a handler at a given statement is doing.
LEMMA StageOfJob ==
    ASSUME TypeOK, JobsFit, NEW r \in Request
    PROVE  /\ pc[r] \in {"insert_expr", "insert_tasks"} => job[r].op = "create"
           /\ pc[r] \in {"claim", "close"} => job[r].op = "claim"
           /\ pc[r] \in {"update_task", "fail_expr", "fail_tasks", "count", "complete",
                         "select_child", "update_child"} => job[r].op = "finish"
           /\ pc[r] \in {"begin", "commit"} => job[r].op \in {"create", "finish"}
BY JobFields DEF JobsFit, StagesOf, Running

LEMMA InitialStatusType == \A t \in Task : InitialStatus(t) \in TaskStatus
BY DEF InitialStatus, TaskStatus

\* The rows of the writer are rows.
LEMMA WorkType ==
    ASSUME TypeOK
    PROVE  /\ work.exprStatus \in [Expr -> ExprStatus]
           /\ work.exprResult \in [Expr -> Float \cup {NULL}]
           /\ work.createdAt \in [Expr -> Time \cup {NULL}]
           /\ work.status \in [Task -> TaskStatus]
           /\ work.arg1 \in [Task -> Float \cup {NULL}]
           /\ work.arg2 \in [Task -> Float \cup {NULL}]
           /\ work.result \in [Task -> Float \cup {NULL}]
BY DEF TypeOK, Tables

\* Whoever goes from statement to statement keeps the types of the bookkeeping.
LEMMA TypeInit == Init => TypeOK
BY ArithmeticAssumption, RequestAssumption
DEF Init, TypeOK, Tables, StoreInit, StoreTypeOK, Columns, NoJob, NoRow, Job, Reply, Stages,
    ExprStatus, TaskStatus

LEMMA TypeNext == TypeOK /\ JobsFit /\ [Next]_vars => TypeOK'
<1>. SUFFICES ASSUME TypeOK, JobsFit, [Next]_vars PROVE TypeOK'
  OBVIOUS
<1>. USE DEF Stages, Tables
<1>1. ASSUME NEW r \in Request, NEW j \in Job, Call(r, j) PROVE TypeOK'
  BY <1>1 DEF Call, TypeOK, StoreTypeOK, storeVars, Goto
<1>2. ASSUME NEW r \in Request, Begin(r) PROVE TypeOK'
  BY <1>2 DEF Begin, TypeOK, StoreTypeOK, storeVars, Goto
<1>3. ASSUME NEW r \in Request, InsertExpression(r) PROVE TypeOK'
  <2>1. job[r].expr \in Expr /\ job[r].now \in Time
    BY <1>3, JobFields, StageOfJob DEF InsertExpression, Write, At
  <2>. QED
    BY <1>3, <2>1, WorkType
    DEF InsertExpression, Write, TakeLock, TypeOK, StoreTypeOK, storeVars, Goto, ExprStatus
<1>4. ASSUME NEW r \in Request, InsertTasks(r) PROVE TypeOK'
  BY <1>4, WorkType, InitialStatusType, ArithmeticAssumption
  DEF InsertTasks, Write, TypeOK, StoreTypeOK, storeVars, Goto
<1>5. ASSUME NEW r \in Request, Claim(r) PROVE TypeOK'
  <2>1. job[r].op = "claim"
    BY <1>5, JobFields, StageOfJob DEF Claim, Write, At
  <2>2. \A t \in Task : [job EXCEPT ![r].task = t] \in [Request -> Job]
    BY <2>1 DEF TypeOK, Job
  <2>3. job' \in [Request -> Job]
    BY <1>5, <2>2 DEF Claim, OldestPending
  <2>4. PICK t \in OldestPending :
          Write(r, "claim", [work EXCEPT !.status[t] = "InProgress"], "close")
    BY <1>5 DEF Claim
  <2>. QED
    BY <1>5, <2>3, <2>4, WorkType
    DEF Claim, Write, TakeLock, TypeOK, StoreTypeOK, storeVars, Goto, TaskStatus
<1>6. ASSUME NEW r \in Request,
             ClaimNothing(r) \/ NextFails(r) \/ ClaimFails(r) \/ StatementFailsShadowed(r)
      PROVE  TypeOK'
  <2>1. /\ UNCHANGED <<storeVars, job, row, stored, open, writer, work>>
        /\ \E a \in {"error", "not_found", "no_tasks"} : Return(r, a)
    BY <1>6 DEF ClaimNothing, NextFails, ClaimFails, StatementFailsShadowed
  <2>. QED
    BY <2>1 DEF Return, TypeOK, StoreTypeOK, storeVars, Goto, Reply
<1>7. ASSUME NEW r \in Request, Close(r) \/ Commit(r) PROVE TypeOK'
  <2>1. Publish(r) /\ UNCHANGED <<job, row>> /\ \E a \in {"ok", "error"} : Return(r, a)
    BY <1>7 DEF Close, Commit
  <2>2. pc' \in [Request -> Stages] /\ reply' \in [Request -> Reply]
    BY <2>1 DEF Return, TypeOK, Goto, Reply
  <2>. QED
    BY <2>1, <2>2, WorkType DEF Publish, TypeOK, StoreTypeOK
<1>8. ASSUME NEW r \in Request, CloseFails(r) \/ StatementFails(r) PROVE TypeOK'
  <2>1. Rollback(r) /\ UNCHANGED <<job, row>> /\ \E a \in {"ok", "error"} : Return(r, a)
    BY <1>8 DEF CloseFails, StatementFails
  <2>2. StoreTypeOK'
    BY <2>1 DEF Rollback, storeVars, TypeOK, StoreTypeOK
  <2>3. Columns \in Tables
    BY DEF Columns, TypeOK, StoreTypeOK
  <2>4. pc' \in [Request -> Stages] /\ reply' \in [Request -> Reply]
    BY <2>1 DEF Return, TypeOK, Goto, Reply
  <2>. QED
    BY <2>1, <2>2, <2>3, <2>4 DEF Rollback, TypeOK
<1>9. ASSUME NEW r \in Request, UpdateTask(r) PROVE TypeOK'
  <2>1. job[r].task \in Task /\ job[r].value \in Float \cup {NaN}
    BY <1>9, JobFields, StageOfJob DEF UpdateTask, Write, At
  <2>. QED
    BY <1>9, <2>1, WorkType
    DEF UpdateTask, Write, TakeLock, TypeOK, StoreTypeOK, storeVars, Goto, TaskStatus
<1>10. ASSUME NEW r \in Request, UpdateNoTask(r) PROVE TypeOK'
  BY <1>10 DEF UpdateNoTask, TakeLock, Return, TypeOK, StoreTypeOK, storeVars, Goto, Reply
<1>11. ASSUME NEW r \in Request, FailExpr(r) PROVE TypeOK'
  BY <1>11, WorkType DEF FailExpr, Write, TypeOK, StoreTypeOK, storeVars, Goto, ExprStatus
<1>12. ASSUME NEW r \in Request, FailTasks(r) PROVE TypeOK'
  BY <1>12, WorkType DEF FailTasks, Write, TypeOK, StoreTypeOK, storeVars, Goto, TaskStatus
<1>13. ASSUME NEW r \in Request, CountChildren(r) PROVE TypeOK'
  BY <1>13 DEF CountChildren, Write, TypeOK, StoreTypeOK, storeVars, Goto
<1>14. ASSUME NEW r \in Request, CompleteExpr(r) PROVE TypeOK'
  <2>1. work.result[job[r].task] \in Float \cup {NULL}
    BY <1>14, JobFields, StageOfJob, WorkType DEF CompleteExpr, Write, At
  <2>. QED
    BY <1>14, <2>1, WorkType
    DEF CompleteExpr, Write, TypeOK, StoreTypeOK, storeVars, Goto, ExprStatus
<1>15. ASSUME NEW r \in Request, SelectChild(r) PROVE TypeOK'
  BY <1>15, WorkType DEF SelectChild, ChildrenOf, Write, TypeOK, StoreTypeOK, storeVars, Goto
<1>16. ASSUME NEW r \in Request, UpdateChild(r) PROVE TypeOK'
  <2>1. work.result[job[r].task] \in Float \cup {NULL}
    BY <1>16, JobFields, StageOfJob, WorkType DEF UpdateChild, Write, At
  <2>2. DEFINE c == Woken(row[r], job[r].task, work.result[job[r].task])
  <2>3. c.arg1 \in Float \cup {NULL} /\ c.arg2 \in Float \cup {NULL} /\ c.status \in TaskStatus
    BY <2>1 DEF Woken, TypeOK, TaskStatus
  <2>4. work' = [work EXCEPT !.arg1[c.id] = c.arg1, !.arg2[c.id] = c.arg2,
                             !.status[c.id] = c.status]
    BY <1>16 DEF UpdateChild, Write
  <2>. HIDE DEF c
  <2>5. work' \in Tables
    BY <2>3, <2>4, WorkType DEF TypeOK
  <2>. QED
    BY <1>16, <2>5 DEF UpdateChild, Write, TypeOK, StoreTypeOK, storeVars, Goto
<1>17. ASSUME NEW r \in Request, ContextDone(r) PROVE TypeOK'
  BY <1>17
  DEF ContextDone, Columns, NoJob, NoRow, Job, TypeOK, StoreTypeOK, storeVars, Goto, Reply,
      TaskStatus
<1>18. CASE Crash
  BY <1>18, ArithmeticAssumption
  DEF Crash, Columns, NoJob, NoRow, Job, TypeOK, StoreTypeOK, storeVars, Reply, TaskStatus
<1>19. CASE UNCHANGED vars
  BY <1>19 DEF vars, txVars, storeVars, TypeOK, StoreTypeOK
<1>. QED
  BY <1>1, <1>2, <1>3, <1>4, <1>5, <1>6, <1>7, <1>8, <1>9, <1>10, <1>11, <1>12, <1>13, <1>14,
     <1>15, <1>16, <1>17, <1>18, <1>19
  DEF Next, Advance, Statement, Failure

-----------------------------------------------------------------------------
\* What a handler publishes is its whole operation.
LEMMA Publishing ==
    ASSUME TypeOK, RowsAppearTogether, JobsFit, WorkFits, NEW r \in Request,
           pc[r] \in {"close", "commit"}, Publish(r)
    PROVE  \/ job[r].op = "create" /\ CreateExpression(job[r].expr, job[r].now)
           \/ job[r].op = "claim" /\ GetPendingTask(job[r].task)
           \/ job[r].op = "finish" /\ job[r].value = NaN /\ FinishTask(job[r].task, "Failed", Zero)
           \/ job[r].op = "finish" /\ job[r].value # NaN
                                  /\ FinishTask(job[r].task, "Completed", job[r].value)
<1>1. writer = r /\ Running(r)
  BY DEF JobsFit, LockedStages, Running
<1>2. job[r].op \in {"create", "claim", "finish"}
  BY JobFields
<1>3. CASE job[r].op = "create"
  <2>1. At(r, "commit") /\ CreateWork(r) /\ exprStatus[job[r].expr] = "Absent"
    BY <1>1, <1>3, StageOfJob DEF WorkFits, At, JobsFit
  <2>. QED
    BY <1>3, <2>1 DEF CreateWork, WorkIs, Publish, CreateExpression
<1>4. CASE job[r].op = "claim"
  <2>1. At(r, "close") /\ ClaimWork(r)
    BY <1>1, <1>4, StageOfJob DEF WorkFits, At
  <2>. QED
    BY <1>4, <2>1 DEF ClaimWork, WorkIs, Publish, GetPendingTask
<1>5. CASE job[r].op = "finish" /\ job[r].value = NaN
  <2>1. At(r, "commit") /\ FailWork(r)
    BY <1>1, <1>5, StageOfJob DEF WorkFits, At
  <2>. QED
    BY <1>5, <2>1 DEF At, FailWork, WorkIs, Publish, FinishTask, FailExpression
<1>6. CASE job[r].op = "finish" /\ job[r].value # NaN
  <2>. DEFINE t == job[r].task
              v == job[r].value
              c == row[r].id
              a == IF IsLeftOf(t, c) THEN v ELSE arg1[c]
              b == IF IsLeftOf(t, c) THEN arg2[c] ELSE v
              Done == [status EXCEPT ![t] = "Completed"]
              Filled == [result EXCEPT ![t] = v]
  <2>1. At(r, "commit") /\ CompleteWork(r) /\ t \in Task
    BY <1>1, <1>6, StageOfJob, JobFields DEF WorkFits, At
  <2>2. CASE /\ IsFinal(t)
             /\ WorkIs([exprStatus EXCEPT ![ExprOf[t]] = "Completed"],
                       [exprResult EXCEPT ![ExprOf[t]] = v],
                       createdAt, Done, arg1, arg2, Filled)
    BY <1>6, <2>1, <2>2 DEF At, CompleteWork, WorkIs, Publish, FinishTask, CompleteExpression
  <2>3. CASE /\ c \in ChildrenOf(t)
             /\ WorkIs(exprStatus, exprResult, createdAt,
                       [Done EXCEPT ![c] = IF a # NULL /\ b # NULL THEN "Pending" ELSE status[c]],
                       [arg1 EXCEPT ![c] = a], [arg2 EXCEPT ![c] = b], Filled)
    <3>1. c \in Task /\ c # t /\ ~IsFinal(t)
      BY <2>1, <2>3, PlanAssumption DEF ChildrenOf, IsFinal
    <3>2. arg1' = [arg1 EXCEPT ![c] = a] /\ arg2' = [arg2 EXCEPT ![c] = b]
      BY <2>3 DEF WorkIs, Publish
    <3>3. arg1'[c] = a /\ arg2'[c] = b
      BY <3>1, <3>2 DEF TypeOK, StoreTypeOK
    <3>4. status' = [status EXCEPT ![t] = "Completed",
                                   ![c] = IF BecomesReady(c) THEN "Pending" ELSE @]
      <4>1. status' = [Done EXCEPT ![c] = IF a # NULL /\ b # NULL THEN "Pending" ELSE status[c]]
        BY <2>3 DEF WorkIs, Publish
      <4>. QED
        BY <3>1, <3>3, <4>1 DEF BecomesReady, TypeOK, StoreTypeOK
    <3>5. /\ result' = [result EXCEPT ![t] = v]
          /\ UNCHANGED <<exprStatus, exprResult, createdAt>>
      BY <2>3 DEF WorkIs, Publish
    <3>6. /\ arg1' = [arg1 EXCEPT ![c] = IF IsLeftOf(t, c) THEN v ELSE @]
          /\ arg2' = [arg2 EXCEPT ![c] = IF IsLeftOf(t, c) THEN @ ELSE v]
      BY <3>1, <3>2 DEF TypeOK, StoreTypeOK
    <3>7. EnqueueChildTask(t, v)
      BY <2>3, <3>4, <3>5, <3>6 DEF EnqueueChildTask
    <3>. QED
      BY <1>6, <2>1, <3>1, <3>7 DEF At, CompleteWork, FinishTask
  <2>. QED
    BY <1>6, <2>1, <2>2, <2>3 DEF At, CompleteWork
<1>. QED
  BY <1>2, <1>3, <1>4, <1>5, <1>6

\* An operation inserts all rows of an expression or none.
LEMMA RowsStore ==
    ASSUME StoreTypeOK, RowsAppearTogether, StoreNext
    PROVE  RowsAppearTogether'
<1>1. ASSUME NEW e \in Expr, NEW now \in Time, CreateExpression(e, now)
      PROVE  RowsAppearTogether'
  BY <1>1, PlanAssumption
  DEF CreateExpression, RowsAppearTogether, StoreTypeOK, InitialStatus, TasksOf
<1>2. ASSUME NEW t \in Task, GetPendingTask(t)
      PROVE  RowsAppearTogether'
  BY <1>2 DEF GetPendingTask, OldestPending, RowsAppearTogether, StoreTypeOK
<1>3. ASSUME NEW t \in Task, NEW v \in Float, status[t] # "Absent", FailExpression(t)
      PROVE  RowsAppearTogether'
  BY <1>3, PlanAssumption
  DEF FailExpression, UnfinishedTasksOf, TasksOf, RowsAppearTogether, StoreTypeOK
<1>4. ASSUME NEW t \in Task, NEW v \in Float, status[t] # "Absent", EnqueueChildTask(t, v)
      PROVE  RowsAppearTogether'
  <2>1. PICK c \in ChildrenOf(t) :
          /\ arg1' = [arg1 EXCEPT ![c] = IF IsLeftOf(t, c) THEN v ELSE @]
          /\ arg2' = [arg2 EXCEPT ![c] = IF IsLeftOf(t, c) THEN @ ELSE v]
          /\ status' = [status EXCEPT ![t] = "Completed",
                                      ![c] = IF BecomesReady(c) THEN "Pending" ELSE @]
          /\ result' = [result EXCEPT ![t] = v]
          /\ UNCHANGED <<exprStatus, exprResult, createdAt>>
    BY <1>4 DEF EnqueueChildTask
  <2>2. c \in Task /\ status[c] # "Absent" /\ exprStatus[ExprOf[t]] # "Absent"
    BY <1>4, PlanAssumption DEF ChildrenOf, RowsAppearTogether
  <2>3. ASSUME NEW u \in Task
        PROVE  /\ status'[u] = "Absent" <=> status[u] = "Absent"
               /\ status[u] = "Absent" =>
                     arg1'[u] = arg1[u] /\ arg2'[u] = arg2[u] /\ result'[u] = result[u]
    BY <1>4, <2>1, <2>2 DEF StoreTypeOK
  <2>. QED
    BY <2>1, <2>3 DEF RowsAppearTogether
<1>5. ASSUME NEW t \in Task, NEW v \in Float, status[t] # "Absent", CompleteExpression(t, v)
      PROVE  RowsAppearTogether'
  BY <1>5, PlanAssumption DEF CompleteExpression, RowsAppearTogether, StoreTypeOK
<1>. QED
  BY <1>1, <1>2, <1>3, <1>4, <1>5 DEF StoreNext, FinishTask

-----------------------------------------------------------------------------
\* Publishing leaves the expressions that other handlers are about to create absent.
LEMMA PublishingKeepsAbsent ==
    ASSUME TypeOK, RowsAppearTogether, JobsFit, WorkFits, NEW r \in Request,
           pc[r] \in {"close", "commit"}, Publish(r),
           NEW e \in Expr, exprStatus[e] = "Absent", job[r].op = "create" => job[r].expr # e
    PROVE  exprStatus'[e] = "Absent"
<1>1. CASE job[r].op = "create" /\ CreateExpression(job[r].expr, job[r].now)
  BY <1>1 DEF CreateExpression, TypeOK, StoreTypeOK
<1>2. CASE job[r].op = "claim" /\ GetPendingTask(job[r].task)
  BY <1>2 DEF GetPendingTask
<1>3. ASSUME NEW outcome, NEW v, job[r].op = "finish", FinishTask(job[r].task, outcome, v)
      PROVE  exprStatus'[e] = "Absent"
  <2>1. job[r].task \in Task /\ ExprOf[job[r].task] # e
    BY <1>3, JobFields DEF FinishTask, RowsAppearTogether
  <2>. QED
    BY <1>3, <2>1
    DEF FinishTask, FailExpression, EnqueueChildTask, CompleteExpression, TypeOK, StoreTypeOK
<1>. QED
  BY <1>1, <1>2, <1>3, Publishing

\* A step of handler r keeps JobsFit if r goes where its job may be and no lock is broken.
LEMMA JobsStep ==
    ASSUME TypeOK, JobsFit, NEW r \in Request,
           \A q \in Request \ {r} :
               pc'[q] = pc[q] /\ job'[q] = job[q] /\ (writer = q => writer' = q),
           Running(r)' => pc'[r] \in StagesOf(job'[r].op),
           pc'[r] \in LockedStages => writer' = r,
           job'[r].op = "create" => job'[r] = job[r] /\ (Running(r)' => Running(r)),
           \A q \in Request :
               job'[q].op = "create" /\ Running(q)' /\ exprStatus[job[q].expr] = "Absent"
               => exprStatus'[job[q].expr] = "Absent"
    PROVE  JobsFit'
<1>1. ASSUME NEW q \in Request
      PROVE  /\ Running(q)' => pc'[q] \in StagesOf(job'[q].op)
             /\ pc'[q] \in LockedStages => writer' = q
             /\ job'[q].op = "create" /\ Running(q)' => exprStatus'[job'[q].expr] = "Absent"
  BY <1>1 DEF JobsFit, Running
<1>2. ASSUME NEW q \in Request, NEW p \in Request \ {q},
             job'[q].op = "create", job'[p].op = "create"
      PROVE  job'[p].expr # job'[q].expr
  BY <1>2 DEF JobsFit
<1>. QED
  BY <1>1, <1>2 DEF JobsFit

LEMMA JobsNext == TypeOK /\ RowsAppearTogether /\ JobsFit /\ WorkFits /\ [Next]_vars => JobsFit'
<1>. SUFFICES ASSUME TypeOK, RowsAppearTogether, JobsFit, WorkFits, [Next]_vars PROVE JobsFit'
  OBVIOUS
<1>1. ASSUME NEW r \in Request, NEW j \in Job, Call(r, j) PROVE JobsFit'
  <2>1. pc' = [pc EXCEPT ![r] = IF j.op = "claim" THEN "claim" ELSE "begin"]
    BY <1>1 DEF Call, Goto
  <2>2. job' = [job EXCEPT ![r] = j] /\ UNCHANGED <<exprStatus, writer>> /\ pc[r] = "idle"
    BY <1>1 DEF Call, storeVars, At
  <2>3. j.op \in {"create", "claim", "finish"}
    BY DEF Job
  <2>4. j.op = "create" => exprStatus[j.expr] = "Absent"
                           /\ \A q \in Request : job[q].op = "create" => job[q].expr # j.expr
    BY <1>1 DEF Call
  <2>5. pc'[r] \in StagesOf(j.op) /\ pc'[r] \notin LockedStages /\ job'[r] = j
    BY <2>1, <2>2, <2>3 DEF TypeOK, StagesOf, LockedStages
  <2>6. \A q \in Request \ {r} : pc'[q] = pc[q] /\ job'[q] = job[q]
    BY <2>1, <2>2 DEF TypeOK
  <2>. QED
    BY <2>2, <2>4, <2>5, <2>6 DEF JobsFit, Running
<1>2. ASSUME NEW r \in Request, Begin(r) PROVE JobsFit'
  <2>1. /\ pc' = [pc EXCEPT ![r] = IF job[r].op = "create" THEN "insert_expr" ELSE "update_task"]
        /\ pc[r] = "begin" /\ UNCHANGED <<exprStatus, job, writer>>
    BY <1>2 DEF Begin, Goto, At, storeVars
  <2>2. pc'[r] \in StagesOf(job[r].op) /\ pc'[r] \notin LockedStages
    BY <2>1, StageOfJob DEF TypeOK, StagesOf, LockedStages
  <2>. QED
    BY <2>1, <2>2, JobsStep DEF TypeOK, Running
<1>3. ASSUME NEW r \in Request, InsertExpression(r) \/ UpdateTask(r) PROVE JobsFit'
  <2>1. /\ pc[r] \in {"insert_expr", "update_task"} /\ UNCHANGED <<exprStatus, job>>
        /\ writer = NoRequest /\ writer' = r
    BY <1>3 DEF InsertExpression, UpdateTask, Write, Goto, At, storeVars, TakeLock
  <2>2. PICK next : /\ pc' = [pc EXCEPT ![r] = next]
                    /\ next \in StagesOf(job[r].op)
    BY <1>3, StageOfJob DEF InsertExpression, UpdateTask, Write, Goto, At, StagesOf
  <2>. QED
    BY <2>1, <2>2, JobsStep, RequestAssumption DEF TypeOK, Running
<1>4. ASSUME NEW r \in Request, Claim(r) PROVE JobsFit'
  <2>1. /\ pc[r] = "claim" /\ UNCHANGED exprStatus /\ writer = NoRequest /\ writer' = r
        /\ pc' = [pc EXCEPT ![r] = "close"]
    BY <1>4 DEF Claim, Write, Goto, At, storeVars, TakeLock
  <2>2. job[r].op = "claim"
    BY <2>1, StageOfJob
  <2>3. job'[r].op = "claim" /\ \A q \in Request \ {r} : job'[q] = job[q]
    BY <1>4, <2>2 DEF Claim, TypeOK, Job
  <2>. QED
    BY <2>1, <2>2, <2>3, JobsStep, RequestAssumption DEF TypeOK, Running, StagesOf
<1>5. ASSUME NEW r \in Request,
             \/ InsertTasks(r) \/ FailExpr(r) \/ FailTasks(r) \/ CountChildren(r)
             \/ CompleteExpr(r) \/ SelectChild(r) \/ UpdateChild(r)
      PROVE  JobsFit'
  <2>1. pc[r] \in LockedStages /\ Running(r) /\ UNCHANGED <<exprStatus, job, writer>>
    BY <1>5 DEF InsertTasks, FailExpr, FailTasks, CountChildren, CompleteExpr, SelectChild,
                UpdateChild, Write, At, storeVars, LockedStages, Running
  <2>2. PICK next : /\ pc' = [pc EXCEPT ![r] = next]
                    /\ next \in StagesOf(job[r].op)
    BY <1>5, StageOfJob
    DEF InsertTasks, FailExpr, FailTasks, CountChildren, CompleteExpr, SelectChild, UpdateChild,
        Write, Goto, At, StagesOf
  <2>3. writer = r
    BY <2>1 DEF JobsFit
  <2>. QED
    BY <2>1, <2>2, <2>3, JobsStep DEF TypeOK, Running
<1>6. ASSUME NEW r \in Request, Close(r) \/ Commit(r) PROVE JobsFit'
  <2>1. /\ pc[r] \in {"close", "commit"} /\ Publish(r)
        /\ pc' = [pc EXCEPT ![r] = "returned"] /\ UNCHANGED job
    BY <1>6 DEF Close, Commit, Return, Goto, At
  <2>2. writer = r
    BY <2>1 DEF JobsFit, LockedStages
  <2>3. ASSUME NEW q \in Request,
               job'[q].op = "create", Running(q)', exprStatus[job[q].expr] = "Absent"
        PROVE  exprStatus'[job[q].expr] = "Absent"
    <3>1. q # r
      BY <2>1, <2>3 DEF Running, TypeOK
    <3>2. job[q].expr \in Expr /\ (job[r].op = "create" => job[r].expr # job[q].expr)
      BY <2>1, <2>3, <3>1, JobFields DEF JobsFit
    <3>. QED
      BY <2>1, <2>3, <3>2, PublishingKeepsAbsent
  <2>4. \A q \in Request \ {r} : pc'[q] = pc[q] /\ job'[q] = job[q] /\ writer # q
    BY <2>1, <2>2 DEF TypeOK
  <2>5. pc'[r] = "returned" /\ job'[r] = job[r]
    BY <2>1 DEF TypeOK
  <2>. QED
    BY <2>3, <2>4, <2>5, JobsStep DEF Running, LockedStages
<1>7. ASSUME NEW r \in Request,
             \/ ClaimNothing(r) \/ NextFails(r) \/ ClaimFails(r) \/ StatementFailsShadowed(r)
             \/ CloseFails(r) \/ StatementFails(r) \/ UpdateNoTask(r)
      PROVE  JobsFit'
  <2>1. pc' = [pc EXCEPT ![r] = "returned"] /\ UNCHANGED <<exprStatus, job>>
    BY <1>7 DEF ClaimNothing, NextFails, ClaimFails, StatementFailsShadowed, CloseFails,
                StatementFails, UpdateNoTask, Rollback, Return, Goto, storeVars
  <2>2. \A q \in Request \ {r} : writer = q => writer' = q
    BY <1>7, RequestAssumption
    DEF ClaimNothing, NextFails, ClaimFails, StatementFailsShadowed, CloseFails,
        StatementFails, UpdateNoTask, Rollback, TakeLock
  <2>3. Running(r)
    BY <1>7 DEF ClaimNothing, NextFails, ClaimFails, StatementFailsShadowed, CloseFails,
                StatementFails, UpdateNoTask, At, Running, SeenStages, ShadowedStages
  <2>. QED
    BY <2>1, <2>2, <2>3, JobsStep DEF TypeOK, Running, LockedStages
<1>8. ASSUME NEW r \in Request, ContextDone(r) PROVE JobsFit'
  <2>1. /\ pc' = [pc EXCEPT ![r] = "idle"] /\ job' = [job EXCEPT ![r] = NoJob]
        /\ UNCHANGED exprStatus /\ writer' = IF writer = r THEN NoRequest ELSE writer
    BY <1>8 DEF ContextDone, Goto, storeVars
  <2>2. pc'[r] = "idle" /\ job'[r].op = "claim"
    BY <2>1 DEF TypeOK, NoJob
  <2>. QED
    BY <2>1, <2>2, JobsStep DEF TypeOK, Running, LockedStages
<1>9. CASE Crash
  BY <1>9 DEF Crash, JobsFit, Running, NoJob, LockedStages
<1>10. CASE UNCHANGED vars
  BY <1>10 DEF vars, txVars, storeVars, JobsFit, Running
<1>. QED
  BY <1>1, <1>2, <1>3, <1>4, <1>5, <1>6, <1>7, <1>8, <1>9, <1>10
  DEF Next, Advance, Statement, Failure

-----------------------------------------------------------------------------
\* What writer r has in its hands fits its job and statement.
LEMMA WorkOfWriter ==
    ASSUME WorkFits, NEW r \in Request, writer = r
    PROVE  /\ job[r].op = "create" => CreateWork(r)
           /\ job[r].op = "claim" => ClaimWork(r)
           /\ job[r].op = "finish" => FailWork(r) /\ CompleteWork(r)
BY DEF WorkFits

\* Between two statements of the writer nothing of it changes.
LEMMA WorkStays ==
    ASSUME WorkFits, NEW q \in Request, writer = q, UNCHANGED <<storeVars, work>>,
           pc'[q] = pc[q], job'[q] = job[q], row'[q] = row[q]
    PROVE  /\ job'[q].op = "create" => CreateWork(q)'
           /\ job'[q].op = "claim" => ClaimWork(q)'
           /\ job'[q].op = "finish" => FailWork(q)' /\ CompleteWork(q)'
<1>1. job[q].op = "create" => CreateWork(q)'
  BY WorkOfWriter DEF CreateWork, At, WorkIs, storeVars
<1>2. job[q].op = "claim" => ClaimWork(q)'
  BY WorkOfWriter DEF ClaimWork, OldestPending, At, WorkIs, storeVars
<1>3. job[q].op = "finish" => FailWork(q)'
  BY WorkOfWriter DEF FailWork, UnfinishedTasksOf, At, WorkIs, storeVars
<1>4. job[q].op = "finish" => CompleteWork(q)'
  BY WorkOfWriter DEF CompleteWork, At, WorkIs, storeVars
<1>. QED
  BY <1>1, <1>2, <1>3, <1>4

\* A step of r that writes nothing.
LEMMA WorkStep ==
    ASSUME TypeOK, WorkFits, NEW r \in Request, UNCHANGED <<storeVars, work>>,
           \A q \in Request \ {r} : pc'[q] = pc[q] /\ job'[q] = job[q] /\ row'[q] = row[q],
           writer' = writer \/ (writer = NoRequest /\ writer' = r),
           pc'[r] \in {"idle", "begin", "insert_expr", "update_task", "claim", "returned"}
    PROVE  WorkFits'
<1>1. writer' = NoRequest => work' = Columns'
  BY RequestAssumption DEF WorkFits, Columns, storeVars
<1>2. ASSUME NEW q \in Request, writer' = q, q # r
      PROVE  /\ job'[q].op = "create" => CreateWork(q)'
             /\ job'[q].op = "claim" => ClaimWork(q)'
             /\ job'[q].op = "finish" => FailWork(q)' /\ CompleteWork(q)'
  BY <1>2, WorkStays
<1>3. CreateWork(r)' /\ ClaimWork(r)' /\ FailWork(r)' /\ CompleteWork(r)'
  BY DEF CreateWork, ClaimWork, FailWork, CompleteWork, At
<1>. QED
  BY <1>1, <1>2, <1>3 DEF WorkFits

\* A step that writes keeps WorkFits if it leaves the writer with what it should have.
LEMMA WorkWritten ==
    ASSUME NEW r \in Request, writer' = r,
           /\ job'[r].op = "create" => CreateWork(r)'
           /\ job'[r].op = "claim" => ClaimWork(r)'
           /\ job'[r].op = "finish" => FailWork(r)' /\ CompleteWork(r)'
    PROVE  WorkFits'
BY RequestAssumption DEF WorkFits

LEMMA WorkNext == TypeOK /\ RowsAppearTogether /\ JobsFit /\ WorkFits /\ [Next]_vars => WorkFits'
<1>. SUFFICES ASSUME TypeOK, RowsAppearTogether, JobsFit, WorkFits, [Next]_vars PROVE WorkFits'
  OBVIOUS
<1>1. ASSUME NEW r \in Request, NEW j \in Job, Call(r, j) PROVE WorkFits'
  <2>1. pc'[r] \in {"claim", "begin"} /\ UNCHANGED <<storeVars, work, writer, row>>
    BY <1>1 DEF Call, Goto, TypeOK
  <2>2. \A q \in Request \ {r} : pc'[q] = pc[q] /\ job'[q] = job[q]
    BY <1>1 DEF Call, Goto, TypeOK
  <2>. QED
    BY <2>1, <2>2, WorkStep
<1>2. ASSUME NEW r \in Request, Begin(r) PROVE WorkFits'
  <2>1. /\ pc'[r] \in {"insert_expr", "update_task"}
        /\ UNCHANGED <<storeVars, work, writer, row, job>>
    BY <1>2 DEF Begin, Goto, TypeOK
  <2>2. \A q \in Request \ {r} : pc'[q] = pc[q]
    BY <1>2 DEF Begin, Goto, TypeOK
  <2>. QED
    BY <2>1, <2>2, WorkStep
<1>3. ASSUME NEW r \in Request,
             \/ ClaimNothing(r) \/ NextFails(r) \/ ClaimFails(r)
             \/ StatementFailsShadowed(r) \/ UpdateNoTask(r)
      PROVE  WorkFits'
  <2>1. /\ pc' = [pc EXCEPT ![r] = "returned"] /\ UNCHANGED <<storeVars, work, row, job>>
        /\ writer' = writer \/ (writer = NoRequest /\ writer' = r)
    BY <1>3 DEF ClaimNothing, NextFails, ClaimFails, StatementFailsShadowed, UpdateNoTask,
                Return, Goto, TakeLock
  <2>. QED
    BY <2>1, WorkStep DEF TypeOK
<1>4. ASSUME NEW r \in Request, CloseFails(r) \/ StatementFails(r) \/ ContextDone(r)
      PROVE  WorkFits'
  <2>1. /\ writer' = IF writer = r THEN NoRequest ELSE writer
        /\ work' = IF writer = r THEN Columns ELSE work
        /\ UNCHANGED storeVars
        /\ \A q \in Request \ {r} : pc'[q] = pc[q] /\ job'[q] = job[q] /\ row'[q] = row[q]
        /\ pc'[r] \in {"idle", "returned"}
    BY <1>4 DEF CloseFails, StatementFails, ContextDone, Rollback, Return, Goto, TypeOK
  <2>2. CASE writer = r
    BY <2>1, <2>2, RequestAssumption DEF WorkFits, Columns, storeVars
  <2>3. CASE writer # r
    BY <2>1, <2>3, WorkStep
  <2>. QED
    BY <2>2, <2>3
<1>5. ASSUME NEW r \in Request, Close(r) \/ Commit(r) PROVE WorkFits'
  <2>1. Publish(r)
    BY <1>5 DEF Close, Commit
  <2>2. work = [exprStatus |-> work.exprStatus, exprResult |-> work.exprResult,
                createdAt |-> work.createdAt, status |-> work.status,
                arg1 |-> work.arg1, arg2 |-> work.arg2, result |-> work.result]
    BY DEF TypeOK, Tables
  <2>. QED
    BY <2>1, <2>2, RequestAssumption DEF Publish, WorkFits, Columns
<1>6. ASSUME NEW r \in Request, InsertExpression(r) PROVE WorkFits'
  <2>1. /\ pc[r] = "insert_expr" /\ pc'[r] = "insert_tasks" /\ work = Columns
        /\ writer' = r /\ UNCHANGED <<storeVars, job>>
        /\ work' = [work EXCEPT !.exprStatus[job[r].expr] = "Pending",
                                !.createdAt[job[r].expr] = job[r].now]
    BY <1>6 DEF InsertExpression, Write, At, Goto, TakeLock, TypeOK, WorkFits
  <2>2. job[r].op = "create"
    BY <2>1, StageOfJob
  <2>3. CreateWork(r)'
    BY <2>1 DEF CreateWork, At, WorkIs, Columns, storeVars
  <2>. QED
    BY <2>1, <2>2, <2>3, WorkWritten
<1>7. ASSUME NEW r \in Request, InsertTasks(r) PROVE WorkFits'
  <2>1. /\ pc[r] = "insert_tasks" /\ pc'[r] = "commit" /\ UNCHANGED <<storeVars, job, writer>>
    BY <1>7 DEF InsertTasks, Write, At, Goto, TypeOK
  <2>2. job[r].op = "create" /\ writer = r /\ CreateWork(r)
    BY <2>1, StageOfJob, WorkOfWriter DEF JobsFit, LockedStages
  <2>. DEFINE e == job[r].expr
              S == [t \in Task |-> IF t \in TasksOf(e) THEN InitialStatus(t) ELSE status[t]]
              A == [t \in Task |-> IF t \in TasksOf(e) /\ Parent1[t] = NoTask
                                   THEN Literal1[t] ELSE arg1[t]]
              B == [t \in Task |-> IF t \in TasksOf(e) /\ Parent2[t] = NoTask
                                   THEN Literal2[t] ELSE arg2[t]]
  <2>3. WorkIs([exprStatus EXCEPT ![e] = "Pending"], exprResult,
               [createdAt EXCEPT ![e] = job[r].now], status, arg1, arg2, result)
    BY <2>1, <2>2 DEF CreateWork, At
  <2>4. work.status = status /\ work.arg1 = arg1 /\ work.arg2 = arg2
    BY <2>3 DEF WorkIs
  <2>5. work' = [work EXCEPT !.status = S, !.arg1 = A, !.arg2 = B]
    BY <1>7, <2>4 DEF InsertTasks, Write
  <2>. HIDE DEF S, A, B
  <2>6. WorkIs([exprStatus EXCEPT ![e] = "Pending"], exprResult,
               [createdAt EXCEPT ![e] = job[r].now], S, A, B, result)'
    BY <2>1, <2>3, <2>5 DEF WorkIs, S, A, B, TasksOf, InitialStatus, storeVars
  <2>7. CreateWork(r)'
    BY <2>1, <2>6 DEF S, A, B, CreateWork, At
  <2>. QED
    BY <2>1, <2>2, <2>7, WorkWritten
<1>8. ASSUME NEW r \in Request, Claim(r) PROVE WorkFits'
  <2>1. PICK t \in OldestPending :
          /\ work' = [work EXCEPT !.status[t] = "InProgress"]
          /\ job' = [job EXCEPT ![r].task = t]
    BY <1>8 DEF Claim, Write
  <2>2. /\ pc[r] = "claim" /\ pc'[r] = "close" /\ work = Columns
        /\ writer' = r /\ UNCHANGED storeVars
    BY <1>8 DEF Claim, Write, At, Goto, TakeLock, TypeOK, WorkFits
  <2>3. job[r].op = "claim"
    BY <2>2, StageOfJob
  <2>4. job'[r].op = "claim" /\ job'[r].task = t
    BY <2>1, <2>3 DEF TypeOK, Job
  <2>5. ClaimWork(r)'
    BY <2>1, <2>2, <2>4 DEF ClaimWork, OldestPending, At, WorkIs, Columns, storeVars
  <2>. QED
    BY <2>2, <2>4, <2>5, WorkWritten
<1>9. ASSUME NEW r \in Request, UpdateTask(r) PROVE WorkFits'
  <2>1. /\ pc[r] = "update_task" /\ work = Columns /\ writer' = r /\ UNCHANGED <<storeVars, job>>
        /\ pc'[r] = IF job[r].value = NaN THEN "fail_expr" ELSE "count"
        /\ status[job[r].task] # "Absent"
    BY <1>9 DEF UpdateTask, Write, At, Goto, TakeLock, TypeOK, WorkFits, Columns
  <2>2. job[r].op = "finish"
    BY <2>1, StageOfJob
  <2>3. FailWork(r)' /\ CompleteWork(r)'
    BY <1>9, <2>1 DEF UpdateTask, Write, FailWork, CompleteWork, At, WorkIs, Columns, storeVars
  <2>. QED
    BY <2>1, <2>2, <2>3, WorkWritten
<1>10. ASSUME NEW r \in Request, FailExpr(r) PROVE WorkFits'
  <2>1. /\ pc[r] = "fail_expr" /\ pc'[r] = "fail_tasks" /\ UNCHANGED <<storeVars, job, writer>>
    BY <1>10 DEF FailExpr, Write, At, Goto, TypeOK
  <2>2. job[r].op = "finish" /\ writer = r /\ FailWork(r)
    BY <2>1, StageOfJob, WorkOfWriter DEF JobsFit, LockedStages
  <2>3. FailWork(r)' /\ CompleteWork(r)'
    BY <1>10, <2>1, <2>2 DEF FailExpr, Write, FailWork, CompleteWork, At, WorkIs, storeVars
  <2>. QED
    BY <2>1, <2>2, <2>3, WorkWritten
<1>11. ASSUME NEW r \in Request, FailTasks(r) PROVE WorkFits'
  <2>. DEFINE t == job[r].task
  <2>1. /\ pc[r] = "fail_tasks" /\ pc'[r] = "commit" /\ UNCHANGED <<storeVars, job, writer>>
    BY <1>11 DEF FailTasks, Write, At, Goto, TypeOK
  <2>2. job[r].op = "finish" /\ writer = r /\ FailWork(r) /\ t \in Task /\ job[r].value = NaN
        /\ status[t] # "Absent"
    BY <2>1, StageOfJob, WorkOfWriter, JobFields DEF JobsFit, LockedStages, FailWork
  <2>3. ASSUME NEW u \in TasksOf(ExprOf[t]), u # t
        PROVE  status[u] \notin {"Completed", "Failed"} <=> u \in UnfinishedTasksOf(ExprOf[t])
    <3>1. u \in Task /\ status[u] # "Absent" /\ status[u] \in TaskStatus
      BY <2>2, <2>3 DEF TasksOf, RowsAppearTogether, TypeOK, StoreTypeOK
    <3>. QED
      BY <2>3, <3>1 DEF UnfinishedTasksOf, TaskStatus
  <2>4. WorkIs([exprStatus EXCEPT ![ExprOf[t]] = "Failed"], exprResult, createdAt,
               [status EXCEPT ![t] = "Failed"], arg1, arg2, [result EXCEPT ![t] = NULL])
    BY <2>1, <2>2 DEF FailWork, At
  <2>5. work'.status = [u \in Task |-> IF u = t \/ u \in UnfinishedTasksOf(ExprOf[t])
                                       THEN "Failed" ELSE status[u]]
    <3>1. work'.status =
            [u \in Task |-> IF u \in TasksOf(ExprOf[t])
                               /\ [status EXCEPT ![t] = "Failed"][u] \notin {"Completed", "Failed"}
                            THEN "Failed" ELSE [status EXCEPT ![t] = "Failed"][u]]
      BY <1>11, <2>4 DEF FailTasks, Write, WorkIs
    <3>2. UnfinishedTasksOf(ExprOf[t]) \subseteq TasksOf(ExprOf[t])
      BY DEF UnfinishedTasksOf
    <3>. QED
      BY <2>2, <2>3, <3>1, <3>2 DEF TypeOK, StoreTypeOK
  <2>6. FailWork(r)'
    BY <1>11, <2>1, <2>2, <2>4, <2>5
    DEF FailTasks, Write, FailWork, At, WorkIs, UnfinishedTasksOf, storeVars
  <2>7. CompleteWork(r)'
    BY <2>1, <2>2 DEF CompleteWork, At, storeVars
  <2>. QED
    BY <2>1, <2>2, <2>6, <2>7, WorkWritten
<1>12. ASSUME NEW r \in Request, CountChildren(r) PROVE WorkFits'
  <2>1. /\ pc[r] = "count" /\ UNCHANGED <<storeVars, job, writer, work>>
        /\ pc'[r] = IF IsFinal(job[r].task) THEN "complete" ELSE "select_child"
    BY <1>12 DEF CountChildren, Write, At, Goto, TypeOK
  <2>2. job[r].op = "finish" /\ writer = r /\ CompleteWork(r)
    BY <2>1, StageOfJob, WorkOfWriter DEF JobsFit, LockedStages
  <2>3. FailWork(r)' /\ CompleteWork(r)'
    BY <2>1, <2>2 DEF FailWork, CompleteWork, At, WorkIs, storeVars
  <2>. QED
    BY <2>1, <2>2, <2>3, WorkWritten
<1>13. ASSUME NEW r \in Request, CompleteExpr(r) PROVE WorkFits'
  <2>1. /\ pc[r] = "complete" /\ pc'[r] = "commit" /\ UNCHANGED <<storeVars, job, writer>>
    BY <1>13 DEF CompleteExpr, Write, At, Goto, TypeOK
  <2>2. job[r].op = "finish" /\ writer = r /\ CompleteWork(r) /\ job[r].task \in Task
    BY <2>1, StageOfJob, WorkOfWriter, JobFields DEF JobsFit, LockedStages
  <2>3. work.result[job[r].task] = job[r].value /\ job[r].value # NaN
    BY <2>1, <2>2 DEF CompleteWork, At, WorkIs, TypeOK, StoreTypeOK
  <2>. DEFINE t == job[r].task
              v == job[r].value
  <2>4. /\ IsFinal(t) /\ status[t] # "Absent"
        /\ WorkIs(exprStatus, exprResult, createdAt, [status EXCEPT ![t] = "Completed"],
                  arg1, arg2, [result EXCEPT ![t] = v])
    BY <2>1, <2>2 DEF CompleteWork, At
  <2>5. work' = [exprStatus |-> [exprStatus EXCEPT ![ExprOf[t]] = "Completed"],
                 exprResult |-> [exprResult EXCEPT ![ExprOf[t]] = v],
                 createdAt |-> createdAt, status |-> [status EXCEPT ![t] = "Completed"],
                 arg1 |-> arg1, arg2 |-> arg2, result |-> [result EXCEPT ![t] = v]]
    BY <1>13, <2>3, <2>4 DEF CompleteExpr, Write, WorkIs
  <2>6. FailWork(r)'
    BY <2>1, <2>3, <2>4 DEF FailWork, At, storeVars
  <2>7. CompleteWork(r)'
    BY <2>1, <2>3, <2>4, <2>5 DEF CompleteWork, At, WorkIs, IsFinal, storeVars
  <2>. QED
    BY <2>1, <2>2, <2>6, <2>7, WorkWritten
<1>14. ASSUME NEW r \in Request, SelectChild(r) PROVE WorkFits'
  <2>. DEFINE t == job[r].task
  <2>1. /\ pc[r] = "select_child" /\ pc'[r] = "update_child"
        /\ UNCHANGED <<storeVars, job, writer, work>>
    BY <1>14 DEF SelectChild, Write, At, Goto, TypeOK
  <2>2. job[r].op = "finish" /\ writer = r /\ CompleteWork(r) /\ t \in Task
    BY <2>1, StageOfJob, WorkOfWriter, JobFields DEF JobsFit, LockedStages
  <2>3. PICK c \in ChildrenOf(t) :
          row'[r] = [id |-> c, arg1 |-> work.arg1[c], arg2 |-> work.arg2[c],
                     status |-> work.status[c]]
    BY <1>14 DEF SelectChild, TypeOK
  <2>4. c \in Task /\ c # t
    BY <2>2, PlanAssumption DEF ChildrenOf
  <2>5. work.arg1[c] = arg1[c] /\ work.arg2[c] = arg2[c] /\ work.status[c] = status[c]
    BY <2>1, <2>2, <2>4 DEF CompleteWork, At, WorkIs, TypeOK, StoreTypeOK
  <2>6. FailWork(r)' /\ CompleteWork(r)'
    BY <2>1, <2>2, <2>3, <2>5 DEF FailWork, CompleteWork, At, WorkIs, storeVars
  <2>. QED
    BY <2>1, <2>2, <2>6, WorkWritten
<1>15. ASSUME NEW r \in Request, UpdateChild(r) PROVE WorkFits'
  <2>. DEFINE t == job[r].task
              v == job[r].value
              c == row[r].id
              a == IF IsLeftOf(t, c) THEN v ELSE arg1[c]
              b == IF IsLeftOf(t, c) THEN arg2[c] ELSE v
              w == Woken(row[r], t, work.result[t])
  <2>1. /\ pc[r] = "update_child" /\ pc'[r] = "commit" /\ UNCHANGED <<storeVars, job, row, writer>>
    BY <1>15 DEF UpdateChild, Write, At, Goto, TypeOK
  <2>2. job[r].op = "finish" /\ writer = r /\ CompleteWork(r) /\ t \in Task
    BY <2>1, StageOfJob, WorkOfWriter, JobFields DEF JobsFit, LockedStages
  <2>3. /\ v # NaN /\ status[t] # "Absent" /\ c \in ChildrenOf(t)
        /\ row[r] = [id |-> c, arg1 |-> arg1[c], arg2 |-> arg2[c], status |-> status[c]]
        /\ WorkIs(exprStatus, exprResult, createdAt, [status EXCEPT ![t] = "Completed"],
                  arg1, arg2, [result EXCEPT ![t] = v])
    BY <2>1, <2>2 DEF CompleteWork, At
  <2>4. work.result[t] = v
    BY <2>2, <2>3 DEF WorkIs, TypeOK, StoreTypeOK
  <2>5. /\ w.id = c /\ w.arg1 = a /\ w.arg2 = b
        /\ w.status = IF a # NULL /\ b # NULL THEN "Pending" ELSE status[c]
    BY <2>3, <2>4 DEF Woken
  <2>6. work' = [work EXCEPT !.arg1[w.id] = w.arg1, !.arg2[w.id] = w.arg2,
                             !.status[w.id] = w.status]
    BY <1>15 DEF UpdateChild, Write
  <2>. HIDE DEF w
  <2>7. work' = [exprStatus |-> exprStatus, exprResult |-> exprResult, createdAt |-> createdAt,
                 status |-> [[status EXCEPT ![t] = "Completed"] EXCEPT
                                ![c] = IF a # NULL /\ b # NULL THEN "Pending" ELSE status[c]],
                 arg1 |-> [arg1 EXCEPT ![c] = a], arg2 |-> [arg2 EXCEPT ![c] = b],
                 result |-> [result EXCEPT ![t] = v]]
    BY <2>3, <2>5, <2>6 DEF WorkIs
  <2>8. CompleteWork(r)'
    BY <2>1, <2>3, <2>7 DEF CompleteWork, At, WorkIs, IsLeftOf, storeVars
  <2>9. FailWork(r)'
    BY <2>1, <2>3 DEF FailWork, At, storeVars
  <2>. QED
    BY <2>1, <2>2, <2>8, <2>9, WorkWritten
<1>16. CASE Crash
  BY <1>16, RequestAssumption DEF Crash, WorkFits, Columns, storeVars
<1>17. CASE UNCHANGED vars
  <2>1. \A q \in Request : pc'[q] = pc[q] /\ job'[q] = job[q] /\ row'[q] = row[q]
    BY <1>17 DEF vars, txVars
  <2>2. UNCHANGED <<storeVars, work, writer>> /\ Columns' = Columns
    BY <1>17 DEF vars, txVars, storeVars, Columns
  <2>. QED
    BY <2>1, <2>2, WorkStays DEF WorkFits
<1>. QED
  BY <1>1, <1>2, <1>3, <1>4, <1>5, <1>6, <1>7, <1>8, <1>9, <1>10, <1>11, <1>12, <1>13, <1>14,
     <1>15, <1>16, <1>17
  DEF Next, Advance, Statement, Failure

-----------------------------------------------------------------------------
LEMMA AnswersNext == TypeOK /\ JobsFit /\ AnswersFit /\ [Next]_vars => AnswersFit'
<1>. SUFFICES ASSUME TypeOK, JobsFit, AnswersFit, [Next]_vars PROVE AnswersFit'
  OBVIOUS
<1>1. ASSUME NEW r \in Request, NEW j \in Job, Call(r, j) PROVE AnswersFit'
  BY <1>1 DEF Call, Goto, At, AnswersFit, TypeOK
<1>2. ASSUME NEW r \in Request, Begin(r) PROVE AnswersFit'
  BY <1>2 DEF Begin, Goto, At, AnswersFit, TypeOK
<1>3. ASSUME NEW r \in Request, NEW next, next # "returned", pc[r] # "returned",
             pc' = [pc EXCEPT ![r] = next], stored' = stored, reply' = reply,
             \A q \in Request : job'[q].op = job[q].op
      PROVE  AnswersFit'
  BY <1>3 DEF AnswersFit, TypeOK
<1>4. ASSUME NEW r \in Request,
             \/ InsertExpression(r) \/ InsertTasks(r) \/ UpdateTask(r) \/ FailExpr(r)
             \/ FailTasks(r) \/ CountChildren(r) \/ CompleteExpr(r) \/ SelectChild(r)
             \/ UpdateChild(r)
      PROVE  AnswersFit'
  <2>1. PICK next : next # "returned" /\ pc' = [pc EXCEPT ![r] = next]
    BY <1>4
    DEF InsertExpression, InsertTasks, UpdateTask, FailExpr, FailTasks, CountChildren,
        CompleteExpr, SelectChild, UpdateChild, Write, Goto
  <2>2. pc[r] # "returned" /\ stored' = stored /\ reply' = reply /\ job' = job
    BY <1>4
    DEF InsertExpression, InsertTasks, UpdateTask, FailExpr, FailTasks, CountChildren,
        CompleteExpr, SelectChild, UpdateChild, Write, At
  <2>. QED
    BY <1>3, <2>1, <2>2
<1>5. ASSUME NEW r \in Request, Claim(r) PROVE AnswersFit'
  <2>1. job[r].op = "claim"
    BY <1>5, StageOfJob DEF Claim, Write, At
  <2>2. \A q \in Request : job'[q].op = job[q].op
    BY <1>5, <2>1 DEF Claim, OldestPending, TypeOK, Job
  <2>3. /\ pc[r] # "returned" /\ stored' = stored /\ reply' = reply
        /\ pc' = [pc EXCEPT ![r] = "close"]
    BY <1>5 DEF Claim, Write, Goto, At
  <2>. QED
    BY <1>3, <2>2, <2>3
<1>6. ASSUME NEW r \in Request, Commit(r) \/ Close(r) PROVE AnswersFit'
  <2>1. pc[r] = "close" => job[r].op = "claim"
    BY StageOfJob
  <2>. QED
    BY <1>6, <2>1 DEF Commit, Close, Publish, Return, Goto, At, AnswersFit, TypeOK
<1>7. ASSUME NEW r \in Request,
             \/ ClaimNothing(r) \/ NextFails(r) \/ ClaimFails(r) \/ StatementFailsShadowed(r)
             \/ CloseFails(r) \/ StatementFails(r) \/ UpdateNoTask(r)
      PROVE  AnswersFit'
  <2>1. /\ pc' = [pc EXCEPT ![r] = "returned"] /\ UNCHANGED <<stored, job>>
        /\ pc[r] # "returned"
        /\ \/ pc[r] \in {"claim", "close"}
           \/ \E a \in {"error", "not_found"} : reply' = [reply EXCEPT ![r] = a]
        /\ \A q \in Request \ {r} : reply'[q] = reply[q]
    BY <1>7 DEF ClaimNothing, NextFails, ClaimFails, StatementFailsShadowed, CloseFails,
                StatementFails, UpdateNoTask, Rollback, Return, Goto, At, SeenStages,
                ShadowedStages, TypeOK
  <2>2. pc[r] \in {"claim", "close"} => job[r].op = "claim"
    BY StageOfJob
  <2>. QED
    BY <2>1, <2>2 DEF AnswersFit, TypeOK
<1>8. ASSUME NEW r \in Request, ContextDone(r) PROVE AnswersFit'
  BY <1>8 DEF ContextDone, Goto, AnswersFit, TypeOK
<1>9. CASE Crash
  BY <1>9 DEF Crash, AnswersFit
<1>10. CASE UNCHANGED vars
  BY <1>10 DEF vars, txVars, AnswersFit
<1>. QED
  BY <1>1, <1>2, <1>4, <1>5, <1>6, <1>7, <1>8, <1>9, <1>10
  DEF Next, Advance, Statement, Failure

\* Every step of a handler is an operation of the store, or none.
LEMMA StepIsAtomic ==
    ASSUME TypeOK, RowsAppearTogether, JobsFit, WorkFits, [Next]_vars
    PROVE  StoreNext \/ UNCHANGED storeVars
<1>1. ASSUME NEW r \in Request, Close(r) \/ Commit(r)
      PROVE  StoreNext
  <2>1. pc[r] \in {"close", "commit"} /\ Publish(r)
    BY <1>1 DEF Close, Commit, At
  <2>2. CASE job[r].op = "claim" /\ GetPendingTask(job[r].task)
    BY <2>2 DEF StoreNext, GetPendingTask, OldestPending
  <2>. QED
    BY <2>1, <2>2, Publishing, JobFields, ArithmeticAssumption DEF StoreNext
<1>2. ASSUME NEW r \in Request,
             \/ \E j \in Job : Call(r, j)
             \/ Begin(r) \/ InsertExpression(r) \/ InsertTasks(r) \/ Claim(r) \/ ClaimNothing(r)
             \/ UpdateTask(r) \/ UpdateNoTask(r) \/ FailExpr(r) \/ FailTasks(r)
             \/ CountChildren(r) \/ CompleteExpr(r) \/ SelectChild(r) \/ UpdateChild(r)
             \/ Failure(r) \/ ContextDone(r)
      PROVE  UNCHANGED storeVars
  BY <1>2
  DEF Call, Begin, InsertExpression, InsertTasks, Claim, ClaimNothing, UpdateTask, UpdateNoTask,
      FailExpr, FailTasks, CountChildren, CompleteExpr, SelectChild, UpdateChild, Failure,
      StatementFails, StatementFailsShadowed, NextFails, ClaimFails, CloseFails, ContextDone,
      Write, Rollback
<1>3. Crash \/ UNCHANGED vars => UNCHANGED storeVars
  BY DEF Crash, vars
<1>. QED
  BY <1>1, <1>2, <1>3 DEF Next, Advance, Statement

LEMMA InitInv == Init => IInv
<1>. SUFFICES ASSUME Init PROVE IInv
  OBVIOUS
<1>1. TypeOK
  BY TypeInit
<1>2. RowsAppearTogether
  BY PlanAssumption DEF Init, StoreInit, RowsAppearTogether
<1>3. JobsFit
  BY DEF Init, JobsFit, Running, NoJob, LockedStages
<1>4. WorkFits
  BY RequestAssumption DEF Init, WorkFits, Columns
<1>5. AnswersFit
  BY DEF Init, AnswersFit
<1>. QED
  BY <1>1, <1>2, <1>3, <1>4, <1>5 DEF IInv

LEMMA NextInv == IInv /\ [Next]_vars => IInv'
<1>. SUFFICES ASSUME IInv, [Next]_vars PROVE IInv'
  OBVIOUS
<1>1. RowsAppearTogether'
  <2>1. CASE StoreNext
    BY <2>1, RowsStore DEF IInv, TypeOK
  <2>2. CASE UNCHANGED storeVars
    BY <2>2 DEF IInv, RowsAppearTogether, storeVars
  <2>. QED
    BY <2>1, <2>2, StepIsAtomic DEF IInv
<1>. QED
  BY <1>1, TypeNext, JobsNext, WorkNext, AnswersNext DEF IInv

-----------------------------------------------------------------------------
\* The inductive invariant holds in every reachable state.
THEOREM Invariance == Spec => []IInv
BY InitInv, NextInv, PTL DEF Spec

\* Every variable keeps its type, the columns inside a transaction included.
THEOREM TypeCorrectness == Spec => []TypeOK
BY Invariance, PTL DEF IInv

\* The statements implement the operations: what the tables show changes by a whole
\* CreateExpression, GetPendingTask or FinishTask only, whichever statements fail, interleave or
\* are cut off by a crash.
THEOREM Atomicity == Spec => OperationsAreAtomic
<1>1. Init => StoreInit
  BY DEF Init
<1>2. IInv /\ [Next]_vars => [StoreNext]_storeVars
  BY StepIsAtomic DEF IInv
<1>. QED
  BY <1>1, <1>2, Invariance, PTL DEF Spec, OperationsAreAtomic, StoreSpec

\* CreateExpression and FinishTask answer with success if and only if they are committed.
THEOREM AnswersTellTheTruth == Spec => []AnswersAreTrue
<1>1. IInv => AnswersAreTrue
  BY DEF IInv, AnswersFit, AnswersAreTrue
<1>. QED
  BY <1>1, Invariance, PTL

-----------------------------------------------------------------------------
\* A step of handler r leaves nothing open if it goes on with what it holds, holds nothing, or
\* has lost its error.
LEMMA OpenStep ==
    ASSUME TypeOK, NothingIsLeftOpen, NEW r \in Request, NEW next,
           pc' = [pc EXCEPT ![r] = next],
           \A q \in Request \ {r} :
               /\ reply'[q] = reply[q]
               /\ writer' = q => writer = q
               /\ q \in open' => q \in open,
           writer' = r => next \in LockedStages \/ Abandoned(r)',
           r \in open' => \/ next \in {"insert_expr", "update_task"}
                          \/ next \in LockedStages \ {"close"}
                          \/ Abandoned(r)'
    PROVE  NothingIsLeftOpen'
<1>1. pc'[r] = next /\ \A q \in Request \ {r} : pc'[q] = pc[q]
  BY DEF TypeOK
<1>2. ASSUME NEW q \in Request \ {r}
      PROVE  /\ writer' = q => pc'[q] \in LockedStages \/ Abandoned(q)'
             /\ q \in open' => \/ pc'[q] \in {"insert_expr", "update_task"}
                               \/ pc'[q] \in LockedStages \ {"close"}
                               \/ Abandoned(q)'
  BY <1>1, <1>2 DEF NothingIsLeftOpen, Abandoned, At
<1>. QED
  BY <1>1, <1>2 DEF NothingIsLeftOpen

LEMMA OpenNext == TypeOK /\ NothingIsLeftOpen /\ [Next]_vars => NothingIsLeftOpen'
<1>. SUFFICES ASSUME TypeOK, NothingIsLeftOpen, [Next]_vars PROVE NothingIsLeftOpen'
  OBVIOUS
<1>. USE RequestAssumption DEF LockedStages, Goto, At
<1>1. ASSUME NEW r \in Request, NEW j \in Job, Call(r, j) PROVE NothingIsLeftOpen'
  <2>1. writer # r /\ r \notin open
    BY <1>1 DEF Call, NothingIsLeftOpen, Abandoned
  <2>. QED
    BY <1>1, <2>1, OpenStep DEF Call
<1>2. ASSUME NEW r \in Request, Begin(r) PROVE NothingIsLeftOpen'
  <2>1. writer # r
    BY <1>2 DEF Begin, NothingIsLeftOpen, Abandoned
  <2>. QED
    BY <1>2, <2>1, OpenStep DEF Begin
<1>3. ASSUME NEW r \in Request,
             \/ InsertExpression(r) \/ InsertTasks(r) \/ UpdateTask(r) \/ FailExpr(r)
             \/ FailTasks(r) \/ CountChildren(r) \/ CompleteExpr(r) \/ SelectChild(r)
             \/ UpdateChild(r)
      PROVE  NothingIsLeftOpen'
  <2>1. PICK next \in LockedStages \ {"close"} : pc' = [pc EXCEPT ![r] = next]
    BY <1>3
    DEF InsertExpression, InsertTasks, UpdateTask, FailExpr, FailTasks, CountChildren,
        CompleteExpr, SelectChild, UpdateChild, Write
  <2>2. UNCHANGED <<reply, open>> /\ writer' \in {writer, r}
    BY <1>3
    DEF InsertExpression, InsertTasks, UpdateTask, FailExpr, FailTasks, CountChildren,
        CompleteExpr, SelectChild, UpdateChild, TakeLock
  <2>. QED
    BY <2>1, <2>2, OpenStep
<1>4. ASSUME NEW r \in Request, Claim(r) PROVE NothingIsLeftOpen'
  <2>1. r \notin open
    BY <1>4 DEF Claim, Write, NothingIsLeftOpen, Abandoned
  <2>2. pc' = [pc EXCEPT ![r] = "close"] /\ UNCHANGED <<reply, open>> /\ writer' = r
    BY <1>4 DEF Claim, Write, TakeLock
  <2>. QED
    BY <2>1, <2>2, OpenStep
<1>5. ASSUME NEW r \in Request, Commit(r) \/ Close(r) PROVE NothingIsLeftOpen'
  <2>1. PICK answer : reply' = [reply EXCEPT ![r] = answer]
    BY <1>5 DEF Commit, Close, Return
  <2>2. /\ pc' = [pc EXCEPT ![r] = "returned"]
        /\ writer' = NoRequest /\ open' = open \ {r}
    BY <1>5 DEF Commit, Close, Publish, Return
  <2>. QED
    BY <2>1, <2>2, OpenStep DEF TypeOK
<1>6. ASSUME NEW r \in Request, ClaimNothing(r) \/ ClaimFails(r) PROVE NothingIsLeftOpen'
  <2>1. writer # r /\ r \notin open
    BY <1>6 DEF ClaimNothing, ClaimFails, NothingIsLeftOpen, Abandoned
  <2>2. PICK answer : reply' = [reply EXCEPT ![r] = answer]
    BY <1>6 DEF ClaimNothing, ClaimFails, Return
  <2>3. pc' = [pc EXCEPT ![r] = "returned"] /\ UNCHANGED <<writer, open>>
    BY <1>6 DEF ClaimNothing, ClaimFails, Return
  <2>. QED
    BY <2>1, <2>2, <2>3, OpenStep DEF TypeOK
<1>7. ASSUME NEW r \in Request, StatementFails(r) \/ CloseFails(r) PROVE NothingIsLeftOpen'
  <2>1. PICK answer : reply' = [reply EXCEPT ![r] = answer]
    BY <1>7 DEF StatementFails, CloseFails, Return
  <2>2. /\ pc' = [pc EXCEPT ![r] = "returned"] /\ open' = open \ {r}
        /\ writer' = IF writer = r THEN NoRequest ELSE writer
    BY <1>7 DEF StatementFails, CloseFails, Rollback, Return
  <2>. QED
    BY <2>1, <2>2, OpenStep DEF TypeOK
<1>8. ASSUME NEW r \in Request, StatementFailsShadowed(r) \/ UpdateNoTask(r) \/ NextFails(r)
      PROVE  NothingIsLeftOpen'
  <2>1. CASE pc[r] = "claim"
    <3>1. writer # r /\ r \notin open
      BY <2>1 DEF NothingIsLeftOpen, Abandoned
    <3>2. /\ pc' = [pc EXCEPT ![r] = "returned"] /\ UNCHANGED <<writer, open>>
          /\ reply' = [reply EXCEPT ![r] = "no_tasks"]
      BY <1>8, <2>1 DEF StatementFailsShadowed, ShadowedStages, UpdateNoTask, NextFails, Return
    <3>. QED
      BY <3>1, <3>2, OpenStep DEF TypeOK
  <2>2. CASE pc[r] # "claim"
    <3>1. PICK answer \in {"error", "not_found"} : reply' = [reply EXCEPT ![r] = answer]
      BY <1>8, <2>2 DEF StatementFailsShadowed, UpdateNoTask, NextFails, Return
    <3>2. /\ pc' = [pc EXCEPT ![r] = "returned"] /\ open' = open
          /\ writer' \in {writer, r}
      BY <1>8 DEF StatementFailsShadowed, UpdateNoTask, NextFails, Return, TakeLock
    <3>3. Abandoned(r)'
      BY <3>1, <3>2 DEF Abandoned, TypeOK
    <3>. QED
      BY <3>1, <3>2, <3>3, OpenStep DEF TypeOK
  <2>. QED
    BY <2>1, <2>2
<1>9. ASSUME NEW r \in Request, ContextDone(r) PROVE NothingIsLeftOpen'
  <2>1. /\ pc' = [pc EXCEPT ![r] = "idle"] /\ open' = open \ {r}
        /\ reply' = [reply EXCEPT ![r] = "none"]
        /\ writer' = IF writer = r THEN NoRequest ELSE writer
    BY <1>9 DEF ContextDone
  <2>. QED
    BY <2>1, OpenStep DEF TypeOK
<1>10. CASE Crash
  BY <1>10 DEF Crash, NothingIsLeftOpen
<1>11. CASE UNCHANGED vars
  BY <1>11 DEF vars, txVars, NothingIsLeftOpen, Abandoned
<1>. QED
  BY <1>1, <1>2, <1>3, <1>4, <1>5, <1>6, <1>7, <1>8, <1>9, <1>10, <1>11
  DEF Next, Advance, Statement, Failure

\* A lock or a transaction that outlives its statement belongs to a handler that has returned an
\* error, whichever error is shadowed: the end of its context ends it.
THEOREM NoLockLeaks == Spec => []NothingIsLeftOpen
<1>1. Init => NothingIsLeftOpen
  BY RequestAssumption DEF Init, NothingIsLeftOpen
<1>. QED
  BY <1>1, OpenNext, TypeCorrectness, PTL DEF Spec
=============================================================================
