----------------------------- MODULE TaskStore ------------------------------
(***************************************************************************)
(* The tables "expressions" and "tasks" and the repository operations that  *)
(* change them.  Each operation is one SQLite write transaction (or one     *)
(* autocommitted UPDATE) and is modelled as one step.                       *)
(*                                                                          *)
(* One variable per column that an UPDATE touches; columns that keep their  *)
(* inserted value are the constants of module Plan.  updated_at is only     *)
(* ever displayed and expire_at never written, so neither is modelled.      *)
(***************************************************************************)
EXTENDS Plan

CONSTANT Time       \* values of time.Now(), ordered

ASSUME TimeAssumption == Time \subseteq Int

VARIABLES
    exprStatus,     \* expressions.status
    exprResult,     \* expressions.result
    createdAt,      \* expressions.created_at, the same in the rows of its tasks
    status,         \* tasks.status
    arg1,           \* tasks.arg1
    arg2,           \* tasks.arg2
    result          \* tasks.result

storeVars == <<exprStatus, exprResult, createdAt, status, arg1, arg2, result>>

\* "Absent": the row has not been inserted.  ExpressionStatusInProgress is declared in the
\* code and assigned nowhere.
ExprStatus == {"Absent", "Pending", "Completed", "Failed"}
TaskStatus == {"Absent", "Created", "Pending", "InProgress", "Completed", "Failed"}

TasksOf(e) == {t \in Task : ExprOf[t] = e}

StoreInit ==
    /\ exprStatus = [e \in Expr |-> "Absent"]
    /\ exprResult = [e \in Expr |-> NULL]
    /\ createdAt = [e \in Expr |-> NULL]
    /\ status = [t \in Task |-> "Absent"]
    /\ arg1 = [t \in Task |-> NULL]
    /\ arg2 = [t \in Task |-> NULL]
    /\ result = [t \in Task |-> NULL]

-----------------------------------------------------------------------------
\* A bug: a task with one literal operand is taken for one with two.
InitialStatusOneParent(t) ==
    IF Parent1[t] = NoTask \/ Parent2[t] = NoTask THEN "Pending" ELSE "Created"

\* A task with no parents can run at once, any other waits for its operands.
InitialStatus(t) ==
    IF Parent1[t] = NoTask /\ Parent2[t] = NoTask THEN "Pending" ELSE "Created"

\* time.Now() is read before the transaction gets the write lock, so expressions may be
\* committed in another order than their timestamps tell: now is any time.
CreateExpression(e, now) ==
    /\ exprStatus[e] = "Absent"
    /\ exprStatus' = [exprStatus EXCEPT ![e] = "Pending"]
    /\ createdAt' = [createdAt EXCEPT ![e] = now]
    /\ status' = [t \in Task |->
                     IF t \in TasksOf(e) THEN InitialStatus(t) ELSE status[t]]
    /\ arg1' = [t \in Task |->
                   IF t \in TasksOf(e) /\ Parent1[t] = NoTask THEN Literal1[t] ELSE arg1[t]]
    /\ arg2' = [t \in Task |->
                   IF t \in TasksOf(e) /\ Parent2[t] = NoTask THEN Literal2[t] ELSE arg2[t]]
    /\ UNCHANGED <<exprResult, result>>

\* A bug: a task must be strictly older than the others to be served.
OldestPendingStrictly ==
    {t \in Task : /\ status[t] = "Pending"
                  /\ \A u \in Task \ {t} : status[u] = "Pending" =>
                         createdAt[ExprOf[t]] < createdAt[ExprOf[u]]}

\* ORDER BY created_at LIMIT 1: one of the oldest, ties are not specified.
OldestPending ==
    {t \in Task : /\ status[t] = "Pending"
                  /\ \A u \in Task : status[u] = "Pending" =>
                         createdAt[ExprOf[t]] <= createdAt[ExprOf[u]]}

\* A bug: the task is selected and not marked.
GetPendingTaskUnmarked(t) ==
    /\ t \in OldestPending
    /\ UNCHANGED storeVars

\* UPDATE ... WHERE id = (SELECT ...) RETURNING: claims t in one statement.
GetPendingTask(t) ==
    /\ t \in OldestPending
    /\ status' = [status EXCEPT ![t] = "InProgress"]
    /\ UNCHANGED <<exprStatus, exprResult, createdAt, arg1, arg2, result>>

-----------------------------------------------------------------------------
(***************************************************************************)
(* FinishTask.  The UPDATE has no condition on the status the task had: any *)
(* result for a stored task is accepted, whoever sends it and how often.    *)
(***************************************************************************)

\* A bug: the UPDATE of failExpression has lost its condition on the status.
AllTasksOf(e) == TasksOf(e)

\* The rows "expression_id = ? AND status NOT IN (Completed, Failed)".
UnfinishedTasksOf(e) ==
    {u \in TasksOf(e) : status[u] \in {"Created", "Pending", "InProgress"}}

FailExpression(t) ==
    /\ exprStatus' = [exprStatus EXCEPT ![ExprOf[t]] = "Failed"]
    /\ status' = [u \in Task |->
                     IF u = t \/ u \in UnfinishedTasksOf(ExprOf[t])
                     THEN "Failed" ELSE status[u]]
    /\ result' = [result EXCEPT ![t] = NULL]
    /\ UNCHANGED <<exprResult, createdAt, arg1, arg2>>

CompleteExpression(t, v) ==
    /\ exprStatus' = [exprStatus EXCEPT ![ExprOf[t]] = "Completed"]
    /\ exprResult' = [exprResult EXCEPT ![ExprOf[t]] = v]
    /\ status' = [status EXCEPT ![t] = "Completed"]
    /\ result' = [result EXCEPT ![t] = v]
    /\ UNCHANGED <<createdAt, arg1, arg2>>

\* A bug: the result goes to the other side.
IsLeftOfSwapped(t, c) == Parent1[c] # t

\* Which side of its child c task t is.
IsLeftOf(t, c) == Parent1[c] = t

\* Two bugs: one operand wakes the child, or the child is judged by the row as it was read,
\* before the new operand is in it.
BecomesReadyEarly(c) == arg1'[c] # NULL \/ arg2'[c] # NULL
BecomesReadyStale(c) == arg1[c] # NULL /\ arg2[c] # NULL

BecomesReady(c) == arg1'[c] # NULL /\ arg2'[c] # NULL

\* The child becomes runnable with its second operand, whatever its status was.
EnqueueChildTask(t, v) ==
    \E c \in ChildrenOf(t) :
        /\ arg1' = [arg1 EXCEPT ![c] = IF IsLeftOf(t, c) THEN v ELSE @]
        /\ arg2' = [arg2 EXCEPT ![c] = IF IsLeftOf(t, c) THEN @ ELSE v]
        /\ status' = [status EXCEPT ![t] = "Completed",
                                    ![c] = IF BecomesReady(c) THEN "Pending" ELSE @]
        /\ result' = [result EXCEPT ![t] = v]
        /\ UNCHANGED <<exprStatus, exprResult, createdAt>>

\* outcome is the status of the command, "Completed" or "Failed"; its result counts if Completed.
FinishTask(t, outcome, v) ==
    /\ status[t] # "Absent"
    /\ \/ outcome = "Failed" /\ FailExpression(t)
       \/ outcome = "Completed" /\ ~IsFinal(t) /\ EnqueueChildTask(t, v)
       \/ outcome = "Completed" /\ IsFinal(t) /\ CompleteExpression(t, v)

StoreNext ==
    \/ \E e \in Expr, now \in Time : CreateExpression(e, now)
    \/ \E t \in Task : GetPendingTask(t)
    \/ \E t \in Task, outcome \in {"Completed", "Failed"}, v \in Float : FinishTask(t, outcome, v)

\* The store as its callers see it: whole operations, with any arguments.
StoreSpec == StoreInit /\ [][StoreNext]_storeVars

-----------------------------------------------------------------------------
StoreTypeOK ==
    /\ exprStatus \in [Expr -> ExprStatus]
    /\ exprResult \in [Expr -> Float \cup {NULL}]
    /\ createdAt \in [Expr -> Time \cup {NULL}]
    /\ status \in [Task -> TaskStatus]
    /\ arg1 \in [Task -> Float \cup {NULL}]
    /\ arg2 \in [Task -> Float \cup {NULL}]
    /\ result \in [Task -> Float \cup {NULL}]

\* A task that can be claimed, or has been, has both its operands, and they are the values the
\* expression gives it: enqueueChildTask makes a task Pending neither too early (an agent would
\* be sent 0 for the missing operand) nor with an operand in the wrong place, in whatever order
\* the operands, their repetitions and a failure elsewhere in the expression arrive.
RunnableTasksAreReady ==
    \A t \in Task :
        status[t] \in {"Pending", "InProgress"} =>
            arg1[t] = Operand1(t) /\ arg2[t] = Operand2(t)

\* A completed expression has no task that was skipped: each of them has delivered the value
\* of its subtree.  completeExpression looks at the final task only.
CompletedMeansEverythingRan ==
    \A e \in Expr :
        exprStatus[e] = "Completed" => \A t \in TasksOf(e) : result[t] = Value[t]

(***************************************************************************)
(* The inductive invariant of the store.  It says what FinishTask relies on *)
(* without checking it: an argument column always mirrors the result column *)
(* of the parent, and a result column holds the value of the task or NULL,  *)
(* so a repeated or late result writes what is there already.               *)
(***************************************************************************)
HasOperands(t) == arg1[t] # NULL /\ arg2[t] # NULL

RowsAppearTogether ==
    \A t \in Task :
        /\ status[t] = "Absent" <=> exprStatus[ExprOf[t]] = "Absent"
        /\ status[t] = "Absent" => arg1[t] = NULL /\ arg2[t] = NULL /\ result[t] = NULL

ArgumentsMirrorResults ==
    \A t \in Task : status[t] # "Absent" =>
        /\ arg1[t] = IF Parent1[t] = NoTask THEN Literal1[t] ELSE result[Parent1[t]]
        /\ arg2[t] = IF Parent2[t] = NoTask THEN Literal2[t] ELSE result[Parent2[t]]

ResultsAreRight ==
    \A t \in Task : result[t] # NULL => result[t] = Value[t] /\ HasOperands(t)

RunnableTasksHaveOperands ==
    \A t \in Task : status[t] \in {"Pending", "InProgress"} => HasOperands(t)

VerdictsAreRight ==
    \A e \in Expr :
        /\ exprStatus[e] = "Completed" =>
               /\ exprResult[e] = AnswerOf(e)
               /\ AnswerOf(e) # NaN
               /\ result[FinalOf(e)] # NULL
        /\ exprStatus[e] # "Completed" => exprResult[e] = NULL
        /\ exprStatus[e] = "Failed" => AnswerOf(e) = NaN

StoreInv ==
    /\ RowsAppearTogether
    /\ ArgumentsMirrorResults
    /\ ResultsAreRight
    /\ RunnableTasksHaveOperands
    /\ VerdictsAreRight

(***************************************************************************)
(* What keeps an expression going: a task waits only for operands that are  *)
(* still to come, and only in an expression that has not failed, and an     *)
(* expression that is pending has yet to run its final task.                *)
(***************************************************************************)
WaitingTasksLackOperands == \A t \in Task : status[t] = "Created" => ~HasOperands(t)

CompletedTasksHaveResults == \A t \in Task : status[t] = "Completed" => result[t] # NULL

FailureEndsWaiting ==
    \A t \in Task :
        /\ status[t] = "Failed" => exprStatus[ExprOf[t]] = "Failed"
        /\ status[t] = "Created" => exprStatus[ExprOf[t]] # "Failed"

FinalTaskSettles ==
    \A e \in Expr : exprStatus[e] = "Pending" => status[FinalOf(e)] # "Completed"

QueueInv ==
    /\ WaitingTasksLackOperands
    /\ CompletedTasksHaveResults
    /\ FailureEndsWaiting
    /\ FinalTaskSettles
=============================================================================
