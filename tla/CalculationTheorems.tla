------------------------ MODULE CalculationTheorems -------------------------
(***************************************************************************)
(* The safety of the whole calculation, for any plans, any arithmetic, any  *)
(* number of workers, repeated submissions and lost claims.                 *)
(***************************************************************************)
EXTENDS Calculation, TaskStoreTheorems

\* What PlanAssumption says.
USE DEF PlansAreTrees

\* What the workers and the network know stays right while the store grows.
LEMMA WorkersKeepRight ==
    ASSUME WorkersAreRight, TypeOK, StoreGrows, UNCHANGED workerVars
    PROVE  WorkersAreRight'
BY DEF WorkersAreRight, StoreGrows, workerVars, Busy

LEMMA LateRequestsKeepRight ==
    ASSUME LateRequestsAreRight, TypeOK, StoreGrows, late' \subseteq late
    PROVE  LateRequestsAreRight'
<1>. SUFFICES ASSUME NEW m \in late'
              PROVE  status'[m.task] # "Absent" /\ HasOperands(m.task)' /\ m.answer = Value[m.task]
  BY DEF LateRequestsAreRight
<1>1. m \in late /\ m.task \in Task
  BY DEF TypeOK
<1>. QED
  BY <1>1 DEF LateRequestsAreRight, StoreGrows

LEMMA NothingStored ==
    ASSUME UNCHANGED storeVars
    PROVE  /\ StoreTypeOK => StoreTypeOK'
           /\ StoreInv => StoreInv'
           /\ StoreGrows
BY DEF storeVars, StoreTypeOK, StoreInv, RowsAppearTogether, ArgumentsMirrorResults,
       ResultsAreRight, RunnableTasksHaveOperands, VerdictsAreRight, HasOperands, StoreGrows

\* A worker that has been given a task with its operands starts right.
LEMMA FetchKeepsRight ==
    ASSUME TypeOK, StoreInv, WorkersAreRight, StoreGrows, NEW w \in Worker, NEW t \in Task,
           status[t] # "Absent", HasOperands(t),
           hand' = [hand EXCEPT ![w] = t],
           in1' = [in1 EXCEPT ![w] = ArgumentOf(arg1[t])],
           in2' = [in2 EXCEPT ![w] = ArgumentOf(arg2[t])],
           pc' = [pc EXCEPT ![w] = "execute"],
           UNCHANGED answer
    PROVE  /\ WorkersAreRight'
           /\ pc' \in [Worker -> {"fetch", "execute", "submit"}]
           /\ hand' \in [Worker -> Task \cup {NoTask}]
           /\ in1' \in [Worker -> Float] /\ in2' \in [Worker -> Float]
<1>1. /\ ArgumentOf(arg1[t]) = Operand1(t) /\ ArgumentOf(arg2[t]) = Operand2(t)
      /\ Operand1(t) \in Float /\ Operand2(t) \in Float
  BY OperandsAreValues DEF TypeOK, ArgumentOf, HasOperands
<1>2. WorkersAreRight'
  <2>. SUFFICES ASSUME NEW v \in Worker, Busy(v)'
                PROVE  /\ hand'[v] \in Task
                       /\ status'[hand'[v]] # "Absent"
                       /\ HasOperands(hand[v])'
                       /\ in1'[v] = Operand1(hand'[v]) /\ in2'[v] = Operand2(hand'[v])
                       /\ pc'[v] = "submit" => answer'[v] = Value[hand'[v]]
    BY DEF WorkersAreRight
  <2>1. CASE v = w
    <3>1. hand'[v] = t /\ in1'[v] = Operand1(t) /\ in2'[v] = Operand2(t) /\ pc'[v] = "execute"
      BY <1>1, <2>1 DEF TypeOK
    <3>. QED
      BY <3>1 DEF StoreGrows
  <2>2. CASE v # w
    <3>1. /\ hand'[v] = hand[v] /\ in1'[v] = in1[v] /\ in2'[v] = in2[v]
          /\ pc'[v] = pc[v] /\ answer'[v] = answer[v] /\ Busy(v)
      BY <2>2 DEF TypeOK, Busy
    <3>. QED
      BY <3>1 DEF WorkersAreRight, StoreGrows
  <2>. QED
    BY <2>1, <2>2
<1>. QED
  BY <1>1, <1>2 DEF TypeOK

\* Completing a submission, from a worker's hands or late, keeps the store right.
LEMMA SubmissionInv ==
    ASSUME IInv, NEW w \in Worker, pc[w] = "submit", HandleSubmit(hand[w], answer[w])
    PROVE  StoreTypeOK' /\ StoreInv' /\ StoreGrows
<1>1. hand[w] \in Task /\ HasOperands(hand[w]) /\ answer[w] = Value[hand[w]]
  BY DEF IInv, WorkersAreRight, Busy
<1>. QED
  BY <1>1, FinishTaskInv DEF IInv, TypeOK, HandleSubmit

-----------------------------------------------------------------------------
LEMMA InitInv == Init => IInv
<1>. SUFFICES ASSUME Init PROVE IInv
  OBVIOUS
<1>1. StoreTypeOK /\ StoreInv
  BY StoreInitInv DEF Init
<1>2. TypeOK
  BY <1>1, ArithmeticAssumption, BoundsAssumption DEF Init, TypeOK
<1>3. WorkersAreRight /\ LateRequestsAreRight
  BY DEF Init, WorkersAreRight, LateRequestsAreRight, Busy
<1>. QED
  BY <1>1, <1>2, <1>3 DEF IInv

\* Every step keeps the invariant and un-stores nothing.
LEMMA StepInv == IInv /\ [Next]_vars => IInv' /\ StoreGrows
<1>. SUFFICES ASSUME IInv, [Next]_vars PROVE IInv' /\ StoreGrows
  OBVIOUS
<1>. USE DEF workerVars, counters
<1>1. ASSUME NEW e \in Expr, Calculate(e) PROVE IInv' /\ StoreGrows
  <2>1. StoreTypeOK' /\ StoreInv' /\ StoreGrows
    BY <1>1, CreateExpressionInv DEF IInv, TypeOK, Calculate
  <2>2. TypeOK'
    BY <1>1, <2>1 DEF IInv, TypeOK, Calculate
  <2>3. WorkersAreRight' /\ LateRequestsAreRight'
    BY <1>1, <2>1, WorkersKeepRight, LateRequestsKeepRight DEF IInv, Calculate
  <2>. QED
    BY <2>1, <2>2, <2>3 DEF IInv
<1>2. ASSUME NEW w \in Worker, GetTask(w) PROVE IInv' /\ StoreGrows
  <2>1. PICK t \in Task :
          /\ GetPendingTask(t)
          /\ hand' = [hand EXCEPT ![w] = t]
          /\ in1' = [in1 EXCEPT ![w] = ArgumentOf(arg1[t])]
          /\ in2' = [in2 EXCEPT ![w] = ArgumentOf(arg2[t])]
    BY <1>2 DEF GetTask
  <2>2. /\ StoreTypeOK' /\ StoreInv' /\ StoreGrows
        /\ status[t] # "Absent" /\ HasOperands(t)
    BY <2>1, GetPendingTaskInv DEF IInv, TypeOK
  <2>3. WorkersAreRight' /\ TypeOK'
    BY <1>2, <2>1, <2>2, FetchKeepsRight DEF IInv, TypeOK, GetTask
  <2>4. LateRequestsAreRight'
    BY <1>2, <2>2, LateRequestsKeepRight DEF IInv, GetTask
  <2>. QED
    BY <2>2, <2>3, <2>4 DEF IInv
<1>3. ASSUME NEW w \in Worker, GetTaskReplyLost(w) PROVE IInv' /\ StoreGrows
  <2>1. StoreTypeOK' /\ StoreInv' /\ StoreGrows
    BY <1>3, GetPendingTaskInv DEF IInv, TypeOK, GetTaskReplyLost
  <2>2. TypeOK'
    BY <1>3, <2>1, BoundsAssumption DEF IInv, TypeOK, GetTaskReplyLost
  <2>3. WorkersAreRight' /\ LateRequestsAreRight'
    BY <1>3, <2>1, WorkersKeepRight, LateRequestsKeepRight DEF IInv, GetTaskReplyLost
  <2>. QED
    BY <2>1, <2>2, <2>3 DEF IInv
<1>4. ASSUME NEW w \in Worker, ExecuteTask(w) PROVE IInv' /\ StoreGrows
  <2>1. StoreTypeOK' /\ StoreInv' /\ StoreGrows
    BY <1>4, NothingStored DEF IInv, TypeOK, ExecuteTask
  <2>2. /\ hand[w] \in Task /\ in1[w] \in Float /\ in2[w] \in Float
        /\ in1[w] = Operand1(hand[w]) /\ in2[w] = Operand2(hand[w])
    BY <1>4 DEF IInv, TypeOK, WorkersAreRight, Busy, ExecuteTask
  <2>3. /\ Compute(Operation[hand[w]], in1[w], in2[w]) = Value[hand[w]]
        /\ Value[hand[w]] \in Float \cup {NaN}
    BY <2>2, ComputeValue, ValueType
  <2>4. /\ answer' = [answer EXCEPT ![w] = Value[hand[w]]]
        /\ pc' = [pc EXCEPT ![w] = "submit"]
        /\ UNCHANGED <<hand, in1, in2, late, counters>>
    BY <1>4, <2>3 DEF ExecuteTask
  <2>5. TypeOK'
    BY <2>1, <2>3, <2>4 DEF IInv, TypeOK
  <2>6. WorkersAreRight'
    BY <1>4, <2>1, <2>4 DEF IInv, TypeOK, WorkersAreRight, StoreGrows, Busy, ExecuteTask
  <2>7. LateRequestsAreRight'
    BY <2>1, <2>4, LateRequestsKeepRight DEF IInv
  <2>. QED
    BY <2>1, <2>5, <2>6, <2>7 DEF IInv
<1>5. ASSUME NEW w \in Worker, SubmitTaskResult(w) PROVE IInv' /\ StoreGrows
  <2>1. StoreTypeOK' /\ StoreInv' /\ StoreGrows
    BY <1>5, SubmissionInv DEF SubmitTaskResult
  <2>2. TypeOK'
    BY <1>5, <2>1 DEF IInv, TypeOK, SubmitTaskResult
  <2>3. WorkersAreRight'
    BY <1>5, <2>1 DEF IInv, TypeOK, WorkersAreRight, StoreGrows, Busy, SubmitTaskResult
  <2>4. LateRequestsAreRight'
    BY <1>5, <2>1, LateRequestsKeepRight DEF IInv, SubmitTaskResult
  <2>. QED
    BY <2>1, <2>2, <2>3, <2>4 DEF IInv
<1>6. ASSUME NEW w \in Worker, SubmitReplyLost(w) PROVE IInv' /\ StoreGrows
  <2>1. StoreTypeOK' /\ StoreInv' /\ StoreGrows
    BY <1>6, SubmissionInv DEF SubmitReplyLost
  <2>2. TypeOK'
    BY <1>6, <2>1, BoundsAssumption DEF IInv, TypeOK, SubmitReplyLost
  <2>3. WorkersAreRight' /\ LateRequestsAreRight'
    BY <1>6, <2>1, WorkersKeepRight, LateRequestsKeepRight DEF IInv, SubmitReplyLost
  <2>. QED
    BY <2>1, <2>2, <2>3 DEF IInv
<1>7. ASSUME NEW w \in Worker, SubmitTimedOut(w) PROVE IInv' /\ StoreGrows
  <2>1. StoreTypeOK' /\ StoreInv' /\ StoreGrows
    BY <1>7, NothingStored DEF IInv, TypeOK, SubmitTimedOut
  <2>2. /\ hand[w] \in Task /\ status[hand[w]] # "Absent" /\ HasOperands(hand[w])
        /\ answer[w] = Value[hand[w]]
    BY <1>7 DEF IInv, WorkersAreRight, Busy, SubmitTimedOut
  <2>3. TypeOK'
    BY <1>7, <2>1, <2>2, BoundsAssumption DEF IInv, TypeOK, SubmitTimedOut
  <2>4. WorkersAreRight'
    BY <1>7, <2>1, WorkersKeepRight DEF IInv, SubmitTimedOut
  <2>5. LateRequestsAreRight'
    <3>. SUFFICES ASSUME NEW m \in late'
                  PROVE  /\ status'[m.task] # "Absent" /\ HasOperands(m.task)'
                         /\ m.answer = Value[m.task]
      BY DEF LateRequestsAreRight
    <3>1. CASE m \in late
      BY <2>1, <3>1 DEF IInv, TypeOK, LateRequestsAreRight, StoreGrows
    <3>2. CASE m \notin late
      <4>1. m.task = hand[w] /\ m.answer = answer[w]
        BY <1>7, <3>2 DEF SubmitTimedOut
      <4>. QED
        BY <2>1, <2>2, <4>1 DEF StoreGrows
    <3>. QED
      BY <3>1, <3>2
  <2>. QED
    BY <2>1, <2>3, <2>4, <2>5 DEF IInv
<1>8. ASSUME NEW m \in late, LateSubmit(m) PROVE IInv' /\ StoreGrows
  <2>1. StoreTypeOK' /\ StoreInv' /\ StoreGrows
    <3>1. m.task \in Task /\ HasOperands(m.task) /\ m.answer = Value[m.task]
      BY DEF IInv, TypeOK, LateRequestsAreRight
    <3>. QED
      BY <1>8, <3>1, FinishTaskInv DEF IInv, TypeOK, HandleSubmit, LateSubmit
  <2>2. TypeOK'
    BY <1>8, <2>1 DEF IInv, TypeOK, LateSubmit
  <2>3. WorkersAreRight' /\ LateRequestsAreRight'
    BY <1>8, <2>1, WorkersKeepRight, LateRequestsKeepRight DEF IInv, LateSubmit
  <2>. QED
    BY <2>1, <2>2, <2>3 DEF IInv
<1>9. ASSUME NEW w \in Worker, StopWorker(w) PROVE IInv' /\ StoreGrows
  <2>1. StoreTypeOK' /\ StoreInv' /\ StoreGrows
    BY <1>9, NothingStored DEF IInv, TypeOK, StopWorker
  <2>2. TypeOK'
    BY <1>9, <2>1, BoundsAssumption DEF IInv, TypeOK, StopWorker
  <2>3. WorkersAreRight'
    BY <1>9, <2>1 DEF IInv, TypeOK, WorkersAreRight, StoreGrows, Busy, StopWorker
  <2>4. LateRequestsAreRight'
    BY <1>9, <2>1, LateRequestsKeepRight DEF IInv, StopWorker
  <2>. QED
    BY <2>1, <2>2, <2>3, <2>4 DEF IInv
<1>10. CASE UNCHANGED vars
  <2>1. StoreTypeOK' /\ StoreInv' /\ StoreGrows
    BY <1>10, NothingStored DEF IInv, TypeOK, vars
  <2>2. TypeOK'
    BY <1>10, <2>1 DEF IInv, TypeOK, vars
  <2>3. WorkersAreRight' /\ LateRequestsAreRight'
    BY <1>10, <2>1, WorkersKeepRight, LateRequestsKeepRight DEF IInv, vars
  <2>. QED
    BY <2>1, <2>2, <2>3 DEF IInv
<1>11. ASSUME NEW w \in Worker, GetTaskUnclaimed(w) PROVE IInv' /\ StoreGrows
  <2>1. PICK t \in OldestPending :
          /\ hand' = [hand EXCEPT ![w] = t]
          /\ in1' = [in1 EXCEPT ![w] = ArgumentOf(arg1[t])]
          /\ in2' = [in2 EXCEPT ![w] = ArgumentOf(arg2[t])]
    BY <1>11 DEF GetTaskUnclaimed
  <2>2. t \in Task /\ status[t] # "Absent" /\ HasOperands(t)
    BY DEF OldestPending, IInv, StoreInv, RunnableTasksHaveOperands
  <2>3. StoreTypeOK' /\ StoreInv' /\ StoreGrows
    BY <1>11, NothingStored DEF IInv, TypeOK, GetTaskUnclaimed
  <2>4. /\ WorkersAreRight'
        /\ pc' \in [Worker -> {"fetch", "execute", "submit"}]
        /\ hand' \in [Worker -> Task \cup {NoTask}]
        /\ in1' \in [Worker -> Float] /\ in2' \in [Worker -> Float]
    BY <1>11, <2>1, <2>2, <2>3, FetchKeepsRight DEF IInv, GetTaskUnclaimed
  <2>5. TypeOK'
    BY <1>11, <2>3, <2>4, BoundsAssumption DEF IInv, TypeOK, GetTaskUnclaimed
  <2>6. LateRequestsAreRight'
    BY <1>11, <2>3, LateRequestsKeepRight DEF IInv, GetTaskUnclaimed
  <2>. QED
    BY <2>3, <2>4, <2>5, <2>6 DEF IInv
<1>. QED
  BY <1>1, <1>2, <1>3, <1>4, <1>5, <1>6, <1>7, <1>8, <1>9, <1>10, <1>11
  DEF Next, WorkerStep, GetNoTask, Fault

LEMMA NextInv == IInv /\ [Next]_vars => IInv'
BY StepInv

\* The inductive invariant holds in every reachable state.
THEOREM Invariance == Spec => []IInv
BY InitInv, NextInv, PTL DEF Spec

\* Every variable keeps its type, the results in the hands of the agents included.
THEOREM TypeCorrectness == Spec => []TypeOK
BY Invariance, PTL DEF IInv

\* No task is claimable, or claimed, before its operands are stored, and they are the operands
\* the expression gives it, whatever is repeated, late or lost.
THEOREM TasksRunWithTheirOperands == Spec => []RunnableTasksAreReady
<1>1. IInv => RunnableTasksAreReady
  <2>. SUFFICES ASSUME IInv, NEW t \in Task, status[t] \in {"Pending", "InProgress"}
                PROVE  arg1[t] = Operand1(t) /\ arg2[t] = Operand2(t)
    BY DEF RunnableTasksAreReady
  <2>1. HasOperands(t)
    BY DEF IInv, StoreInv, RunnableTasksHaveOperands
  <2>. QED
    BY <2>1, OperandsAreValues DEF IInv, TypeOK
<1>. QED
  BY <1>1, Invariance, PTL

\* When an expression is completed, each of its tasks has delivered its value.  The step from
\* the final task to all of them is the induction down the tree.
THEOREM CompletionIsComplete == Spec => []CompletedMeansEverythingRan
<1>1. IInv => CompletedMeansEverythingRan
  <2>. SUFFICES ASSUME IInv, NEW e \in Expr, exprStatus[e] = "Completed"
                PROVE  \A t \in TasksOf(e) : result[t] = Value[t]
    BY DEF CompletedMeansEverythingRan
  <2>. DEFINE G == {t \in Task : result[t] # NULL}
  <2>1. FinalOf(e) \in G
    BY FinalTask DEF IInv, StoreInv, VerdictsAreRight
  <2>2. ASSUME NEW t \in Task, NEW c \in ChildrenOf(t), c \in G
        PROVE  t \in G
    <3>1. c \in Task /\ (Parent1[c] = t \/ Parent2[c] = t) /\ t # NoTask
      BY PlanAssumption DEF ChildrenOf
    <3>2. HasOperands(c) /\ status[c] # "Absent"
      BY <2>2, <3>1 DEF IInv, StoreInv, ResultsAreRight, RowsAppearTogether
    <3>. QED
      BY <3>1, <3>2 DEF IInv, StoreInv, ArgumentsMirrorResults, HasOperands
  <2>3. \A t \in Task : ExprOf[t] = e => t \in G
    BY <2>1, <2>2, DownTheTree
  <2>. QED
    BY <2>3 DEF TasksOf, IInv, StoreInv, ResultsAreRight
<1>. QED
  BY <1>1, Invariance, PTL

\* What a task has been given or has delivered stays in its row, the same: the store un-stores
\* nothing, and what is stored before and after a step is the value of the task, or of its parent.
THEOREM StoredForGood == Spec => StoredValuesStay
<1>. DEFINE Stays ==
         \A t \in Task :
             /\ result[t] # NULL => result'[t] = result[t]
             /\ arg1[t] # NULL => arg1'[t] = arg1[t]
             /\ arg2[t] # NULL => arg2'[t] = arg2[t]
<1>1. IInv /\ [Next]_vars => Stays
  <2>. SUFFICES ASSUME IInv, [Next]_vars, NEW t \in Task
                PROVE  /\ result[t] # NULL => result'[t] = result[t]
                       /\ arg1[t] # NULL => arg1'[t] = arg1[t]
                       /\ arg2[t] # NULL => arg2'[t] = arg2[t]
    OBVIOUS
  <2>1. StoreInv /\ StoreInv' /\ StoreGrows
    BY StepInv DEF IInv
  <2>2. \A u \in Task : result[u] # NULL => result'[u] = result[u]
    BY <2>1 DEF StoreInv, ResultsAreRight, StoreGrows
  <2>3. status[t] = "Absent" => arg1[t] = NULL /\ arg2[t] = NULL
    BY <2>1 DEF StoreInv, RowsAppearTogether
  <2>4. ASSUME status[t] # "Absent"
        PROVE  /\ arg1[t] = IF Parent1[t] = NoTask THEN Literal1[t] ELSE result[Parent1[t]]
               /\ arg2[t] = IF Parent2[t] = NoTask THEN Literal2[t] ELSE result[Parent2[t]]
               /\ arg1'[t] = IF Parent1[t] = NoTask THEN Literal1[t] ELSE result'[Parent1[t]]
               /\ arg2'[t] = IF Parent2[t] = NoTask THEN Literal2[t] ELSE result'[Parent2[t]]
    BY <2>1, <2>4 DEF StoreInv, ArgumentsMirrorResults, StoreGrows
  <2>5. Parent1[t] \in Task \cup {NoTask} /\ Parent2[t] \in Task \cup {NoTask}
    BY PlanAssumption
  <2>. QED
    BY <2>2, <2>3, <2>4, <2>5
<1>. QED
  BY <1>1, Invariance, PTL DEF Spec, StoredValuesStay

-----------------------------------------------------------------------------
\* A result that reaches the store settles a pending expression rightly, or changes no verdict.
LEMMA SubmissionSettles ==
    ASSUME StoreTypeOK, StoreInv, NEW t \in Task, HandleSubmit(t, Value[t])
    PROVE  (\E e \in Expr : Service!Settle(e)) \/ UNCHANGED <<exprStatus, exprResult>>
<1>. DEFINE e == ExprOf[t]
<1>. USE DEF Service!Settle, Service!Complete, Service!Fail
<1>1. e \in Expr /\ exprStatus[e] \in {"Pending", "Completed", "Failed"}
  BY PlanAssumption
  DEF FinishTask, StoreTypeOK, ExprStatus, StoreInv, RowsAppearTogether, HandleSubmit
<1>2. CASE Value[t] = NaN /\ FailExpression(t)
  <2>1. AnswerOf(e) = NaN
    BY <1>2, NaNReachesTheAnswer
  <2>2. exprStatus[e] \in {"Pending", "Failed"}
    BY <1>1, <2>1 DEF StoreInv, VerdictsAreRight
  <2>3. CASE exprStatus[e] = "Pending"
    BY <1>1, <1>2, <2>1, <2>3 DEF FailExpression
  <2>4. CASE exprStatus[e] = "Failed"
    BY <1>2, <2>4 DEF FailExpression, StoreTypeOK
  <2>. QED
    BY <2>2, <2>3, <2>4
<1>3. CASE Value[t] # NaN /\ EnqueueChildTask(t, Value[t])
  BY <1>3 DEF EnqueueChildTask
<1>4. CASE Value[t] # NaN /\ IsFinal(t) /\ CompleteExpression(t, Value[t])
  <2>1. AnswerOf(e) = Value[t]
    BY <1>4, FinalTask DEF AnswerOf
  <2>2. exprStatus[e] \in {"Pending", "Completed"}
    BY <1>1, <1>4, <2>1 DEF StoreInv, VerdictsAreRight
  <2>3. CASE exprStatus[e] = "Pending"
    BY <1>1, <1>4, <2>1, <2>3 DEF CompleteExpression
  <2>4. CASE exprStatus[e] = "Completed"
    BY <1>1, <1>4, <2>1, <2>4 DEF CompleteExpression, StoreTypeOK, StoreInv, VerdictsAreRight
  <2>. QED
    BY <2>2, <2>3, <2>4
<1>. QED
  BY <1>2, <1>3, <1>4 DEF FinishTask, HandleSubmit

\* The tables, the agents and the network between them implement ExpressionService: no verdict
\* is wrong, and none is taken back.
THEOREM Refinement == Spec => KeepsThePromise
<1>1. Init => Service!Init
  BY DEF Init, StoreInit, Service!Init
<1>2. IInv /\ [Next]_vars => [Service!Next]_<<exprStatus, exprResult>>
  <2>. SUFFICES ASSUME IInv, [Next]_vars
                PROVE  Service!Next \/ UNCHANGED <<exprStatus, exprResult>>
    OBVIOUS
  <2>1. ASSUME NEW e \in Expr, Calculate(e)
        PROVE  Service!Accept(e)
    BY <2>1 DEF Calculate, CreateExpression, Service!Accept
  <2>2. ASSUME NEW w \in Worker, SubmitTaskResult(w) \/ SubmitReplyLost(w)
        PROVE  Service!Next \/ UNCHANGED <<exprStatus, exprResult>>
    <3>1. /\ hand[w] \in Task /\ answer[w] = Value[hand[w]]
          /\ HandleSubmit(hand[w], answer[w])
      BY <2>2 DEF IInv, WorkersAreRight, Busy, SubmitTaskResult, SubmitReplyLost
    <3>. QED
      BY <3>1, SubmissionSettles DEF IInv, TypeOK, Service!Next
  <2>3. ASSUME NEW m \in late, LateSubmit(m)
        PROVE  Service!Next \/ UNCHANGED <<exprStatus, exprResult>>
    <3>1. m.task \in Task /\ m.answer = Value[m.task] /\ HandleSubmit(m.task, m.answer)
      BY <2>3 DEF IInv, TypeOK, LateRequestsAreRight, LateSubmit
    <3>. QED
      BY <3>1, SubmissionSettles DEF IInv, TypeOK, Service!Next
  <2>4. ASSUME NEW w \in Worker, GetTask(w) \/ GetTaskReplyLost(w)
        PROVE  UNCHANGED <<exprStatus, exprResult>>
    BY <2>4 DEF GetTask, GetTaskReplyLost, GetPendingTask
  <2>5. ASSUME NEW w \in Worker,
               ExecuteTask(w) \/ SubmitTimedOut(w) \/ StopWorker(w) \/ GetTaskUnclaimed(w)
        PROVE  UNCHANGED <<exprStatus, exprResult>>
    BY <2>5 DEF ExecuteTask, GetTaskUnclaimed, SubmitTimedOut, StopWorker, storeVars
  <2>6. CASE UNCHANGED vars
    BY <2>6 DEF vars, storeVars
  <2>. QED
    BY <2>1, <2>2, <2>3, <2>4, <2>5, <2>6
    DEF Next, WorkerStep, GetNoTask, Fault, Service!Next
<1>. QED
  BY <1>1, <1>2, Invariance, PTL DEF Spec, KeepsThePromise, Service!Spec, Service!serviceVars

-----------------------------------------------------------------------------
(***************************************************************************)
(* Nothing is forgotten but what was lost.                                  *)
(***************************************************************************)
LEMMA QueueNext == IInv /\ QueueInv /\ [Next]_vars => QueueInv'
<1>. SUFFICES ASSUME IInv, QueueInv, [Next]_vars PROVE QueueInv'
  OBVIOUS
<1>1. StoreTypeOK /\ StoreInv
  BY DEF IInv, TypeOK
<1>2. ASSUME NEW e \in Expr, Calculate(e) PROVE QueueInv'
  BY <1>1, <1>2, CreateExpressionQueue DEF Calculate
<1>3. ASSUME NEW w \in Worker, GetTask(w) \/ GetTaskReplyLost(w) PROVE QueueInv'
  BY <1>1, <1>3, GetPendingTaskQueue DEF GetTask, GetTaskReplyLost
<1>4. ASSUME NEW w \in Worker, SubmitTaskResult(w) \/ SubmitReplyLost(w) PROVE QueueInv'
  <2>1. hand[w] \in Task /\ answer[w] = Value[hand[w]] /\ HandleSubmit(hand[w], answer[w])
    BY <1>4 DEF IInv, WorkersAreRight, Busy, SubmitTaskResult, SubmitReplyLost
  <2>. QED
    BY <1>1, <2>1, FinishTaskQueue DEF HandleSubmit
<1>5. ASSUME NEW m \in late, LateSubmit(m) PROVE QueueInv'
  <2>1. m.task \in Task /\ m.answer = Value[m.task] /\ HandleSubmit(m.task, m.answer)
    BY <1>5 DEF IInv, TypeOK, LateRequestsAreRight, LateSubmit
  <2>. QED
    BY <1>1, <2>1, FinishTaskQueue DEF HandleSubmit
<1>6. CASE UNCHANGED storeVars
  BY <1>6
  DEF storeVars, QueueInv, WaitingTasksLackOperands, CompletedTasksHaveResults,
      FailureEndsWaiting, FinalTaskSettles, HasOperands
<1>7. ASSUME NEW w \in Worker,
             ExecuteTask(w) \/ GetTaskUnclaimed(w) \/ SubmitTimedOut(w) \/ StopWorker(w)
      PROVE  UNCHANGED storeVars
  BY <1>7 DEF ExecuteTask, GetTaskUnclaimed, SubmitTimedOut, StopWorker
<1>8. UNCHANGED vars => UNCHANGED storeVars
  BY DEF vars
<1>. QED
  BY <1>2, <1>3, <1>4, <1>5, <1>6, <1>7, <1>8 DEF Next, WorkerStep, GetNoTask, Fault

\* What keeps an expression going is there in every reachable state, whatever is repeated,
\* late or lost: tasks wait only for what is still to come.
THEOREM QueueInvariance == Spec => []QueueInv
<1>1. Init => QueueInv
  BY StoreInitQueue DEF Init
<1>. QED
  BY <1>1, QueueNext, Invariance, PTL DEF Spec

\* The claims that were lost, counted.
StrandedInv == IsFiniteSet(Stranded) /\ Cardinality(Stranded) <= lost

\* Which tasks a step may strand: those it claims for nobody, or takes from their holders.
LEMMA StrandedOnly ==
    ASSUME NEW X,
           \A u \in Task \ X : status'[u] = "InProgress" =>
               \/ status[u] = "InProgress"
               \/ \E w \in Worker : Busy(w)' /\ hand'[w] = u,
           \A w \in Worker :
               Busy(w) /\ hand[w] \notin X /\ status'[hand[w]] = "InProgress" =>
                   Busy(w)' /\ hand'[w] = hand[w]
    PROVE  Stranded' \subseteq Stranded \cup X
BY DEF Stranded

LEMMA NothingStranded ==
    ASSUME StrandedInv, Stranded' \subseteq Stranded, UNCHANGED lost, lost \in Nat
    PROVE  StrandedInv'
<1>1. IsFiniteSet(Stranded') /\ Cardinality(Stranded') <= Cardinality(Stranded)
  BY FS_Subset DEF StrandedInv
<1>2. Cardinality(Stranded') \in Nat /\ Cardinality(Stranded) \in Nat
  BY <1>1, FS_CardinalityType DEF StrandedInv
<1>. QED
  BY <1>1, <1>2 DEF StrandedInv

LEMMA OneStranded ==
    ASSUME StrandedInv, NEW t, Stranded' \subseteq Stranded \cup {t}, lost' = lost + 1,
           lost \in Nat
    PROVE  StrandedInv'
<1>. DEFINE S == Stranded \cup {t}
<1>1. IsFiniteSet(S) /\ Cardinality(S) <= Cardinality(Stranded) + 1
  <2>1. /\ IsFiniteSet(S)
        /\ Cardinality(S) = IF t \in Stranded THEN Cardinality(Stranded)
                                              ELSE Cardinality(Stranded) + 1
    BY FS_AddElement DEF StrandedInv
  <2>2. Cardinality(Stranded) \in Nat
    BY FS_CardinalityType DEF StrandedInv
  <2>. QED
    BY <2>1, <2>2
<1>2. IsFiniteSet(Stranded') /\ Cardinality(Stranded') <= Cardinality(S)
  BY <1>1, FS_Subset
<1>3. /\ Cardinality(Stranded') \in Nat
      /\ Cardinality(Stranded) \in Nat
      /\ Cardinality(S) \in Nat
  BY <1>1, <1>2, FS_CardinalityType DEF StrandedInv
<1>. QED
  BY <1>1, <1>2, <1>3 DEF StrandedInv

\* A result that is handled ends the claim of its task and makes no claim.
LEMMA SubmissionClaimsNothing ==
    ASSUME StoreTypeOK, NEW t \in Task, NEW v, HandleSubmit(t, v)
    PROVE  /\ status'[t] # "InProgress"
           /\ \A u \in Task : status'[u] = "InProgress" => status[u] = "InProgress"
<1>1. CASE FailExpression(t)
  BY <1>1 DEF FailExpression
<1>2. CASE EnqueueChildTask(t, v)
  BY <1>2, Child DEF EnqueueChildTask, StoreTypeOK
<1>3. CASE CompleteExpression(t, v)
  BY <1>3 DEF CompleteExpression, StoreTypeOK
<1>. QED
  BY <1>1, <1>2, <1>3 DEF HandleSubmit, FinishTask

LEMMA StrandedNext == IInv /\ StrandedInv /\ [Next]_vars => StrandedInv'
<1>. SUFFICES ASSUME IInv, StrandedInv, [Next]_vars PROVE StrandedInv'
  OBVIOUS
<1>. USE DEF workerVars, counters
<1>1. lost \in Nat /\ StoreTypeOK
  BY BoundsAssumption DEF IInv, TypeOK
<1>2. ASSUME NEW e \in Expr, Calculate(e) PROVE StrandedInv'
  <2>1. \A u \in Task : status'[u] = "InProgress" => status[u] = "InProgress"
    BY <1>2 DEF Calculate, CreateExpression, InitialStatus
  <2>2. Stranded' \subseteq Stranded /\ UNCHANGED lost
    BY <1>2, <2>1 DEF Calculate, Stranded, Busy
  <2>. QED
    BY <1>1, <2>2, NothingStranded
<1>3. ASSUME NEW w \in Worker, GetTask(w) PROVE StrandedInv'
  <2>1. PICK t \in Task : GetPendingTask(t) /\ hand' = [hand EXCEPT ![w] = t]
    BY <1>3 DEF GetTask
  <2>2. hand'[w] = t /\ Busy(w)'
    BY <1>3, <2>1 DEF GetTask, IInv, TypeOK, Busy
  <2>3. \A u \in Task \ {} : status'[u] = "InProgress" =>
            \/ status[u] = "InProgress"
            \/ \E v \in Worker : Busy(v)' /\ hand'[v] = u
    BY <1>1, <2>1, <2>2 DEF GetPendingTask, StoreTypeOK
  <2>4. \A v \in Worker : Busy(v) => Busy(v)' /\ hand'[v] = hand[v]
    BY <1>3, <2>1 DEF GetTask, IInv, TypeOK, Busy
  <2>5. Stranded' \subseteq Stranded
    BY <2>3, <2>4, StrandedOnly
  <2>. QED
    BY <1>1, <1>3, <2>5, NothingStranded DEF GetTask
<1>4. ASSUME NEW w \in Worker, GetTaskReplyLost(w) PROVE StrandedInv'
  <2>1. PICK t \in Task : GetPendingTask(t)
    BY <1>4 DEF GetTaskReplyLost
  <2>2. Stranded' \subseteq Stranded \cup {t}
    BY <1>1, <1>4, <2>1 DEF GetTaskReplyLost, GetPendingTask, StoreTypeOK, Stranded, Busy
  <2>. QED
    BY <1>1, <1>4, <2>2, OneStranded DEF GetTaskReplyLost
<1>5. ASSUME NEW w \in Worker, SubmitTaskResult(w) PROVE StrandedInv'
  <2>1. hand[w] \in Task /\ HandleSubmit(hand[w], answer[w])
    BY <1>5 DEF IInv, WorkersAreRight, Busy, SubmitTaskResult
  <2>2. /\ status'[hand[w]] # "InProgress"
        /\ \A u \in Task : status'[u] = "InProgress" => status[u] = "InProgress"
    BY <1>1, <2>1, SubmissionClaimsNothing
  <2>3. hand' = hand /\ \A v \in Worker \ {w} : Busy(v)' <=> Busy(v)
    BY <1>5 DEF SubmitTaskResult, IInv, TypeOK, Busy
  <2>4. Stranded' \subseteq Stranded
    BY <2>2, <2>3 DEF Stranded
  <2>. QED
    BY <1>1, <1>5, <2>4, NothingStranded DEF SubmitTaskResult
<1>6. ASSUME NEW w \in Worker, SubmitReplyLost(w) PROVE StrandedInv'
  <2>1. hand[w] \in Task /\ HandleSubmit(hand[w], answer[w])
    BY <1>6 DEF IInv, WorkersAreRight, Busy, SubmitReplyLost
  <2>2. \A u \in Task : status'[u] = "InProgress" => status[u] = "InProgress"
    BY <1>1, <2>1, SubmissionClaimsNothing
  <2>3. Stranded' \subseteq Stranded /\ UNCHANGED lost
    BY <1>6, <2>2 DEF SubmitReplyLost, Stranded, Busy
  <2>. QED
    BY <1>1, <2>3, NothingStranded
<1>7. ASSUME NEW m \in late, LateSubmit(m) PROVE StrandedInv'
  <2>1. m.task \in Task /\ HandleSubmit(m.task, m.answer)
    BY <1>7 DEF IInv, TypeOK, LateSubmit
  <2>2. \A u \in Task : status'[u] = "InProgress" => status[u] = "InProgress"
    BY <1>1, <2>1, SubmissionClaimsNothing
  <2>3. Stranded' \subseteq Stranded /\ UNCHANGED lost
    BY <1>7, <2>2 DEF LateSubmit, Stranded, Busy
  <2>. QED
    BY <1>1, <2>3, NothingStranded
<1>8. ASSUME NEW w \in Worker, StopWorker(w) PROVE StrandedInv'
  <2>1. UNCHANGED <<status, hand>> /\ \A v \in Worker \ {w} : Busy(v)' <=> Busy(v)
    BY <1>8 DEF StopWorker, IInv, TypeOK, Busy, storeVars
  <2>2. Stranded' \subseteq Stranded \cup {hand[w]}
    BY <2>1 DEF Stranded
  <2>. QED
    BY <1>1, <1>8, <2>2, OneStranded DEF StopWorker
<1>9. ASSUME NEW w \in Worker, GetTaskUnclaimed(w) PROVE StrandedInv'
  <2>1. \A v \in Worker : Busy(v) => Busy(v)' /\ hand'[v] = hand[v]
    BY <1>9 DEF GetTaskUnclaimed, IInv, TypeOK, Busy
  <2>2. Stranded' \subseteq Stranded /\ UNCHANGED lost
    BY <1>9, <2>1 DEF GetTaskUnclaimed, Stranded, storeVars
  <2>. QED
    BY <1>1, <2>2, NothingStranded
<1>10. ASSUME NEW w \in Worker, ExecuteTask(w) \/ SubmitTimedOut(w) PROVE StrandedInv'
  <2>1. UNCHANGED <<status, hand, lost>> /\ \A v \in Worker : Busy(v)' <=> Busy(v)
    BY <1>10 DEF ExecuteTask, SubmitTimedOut, IInv, TypeOK, Busy, storeVars
  <2>2. Stranded' \subseteq Stranded
    BY <2>1 DEF Stranded
  <2>. QED
    BY <1>1, <2>1, <2>2, NothingStranded
<1>11. CASE UNCHANGED vars
  BY <1>11 DEF vars, storeVars, StrandedInv, Stranded, Busy
<1>. QED
  BY <1>2, <1>3, <1>4, <1>5, <1>6, <1>7, <1>8, <1>9, <1>10, <1>11
  DEF Next, WorkerStep, GetNoTask, Fault

LEMMA StrandedInvariance == Spec => []StrandedInv
<1>1. Init => StrandedInv
  <2>1. Init => Stranded = {} /\ lost = 0
    BY DEF Init, StoreInit, Stranded
  <2>. QED
    BY <2>1, FS_EmptySet DEF StrandedInv
<1>. QED
  BY <1>1, StrandedNext, Invariance, PTL DEF Spec

\* Every lost claim strands one task at most and nothing else does, and what waits for an
\* operand does not wait in vain, for any number of repetitions and losses.
THEOREM NothingIsForgotten == Spec => []NoTaskIsStranded
<1>1. IInv /\ QueueInv /\ StrandedInv => NoTaskIsStranded
  BY WaitingForSomething DEF IInv, TypeOK, StrandedInv, NoTaskIsStranded
<1>. QED
  BY <1>1, Invariance, QueueInvariance, StrandedInvariance, PTL

\* A pending expression has a task to run or running, held by a worker unless a claim was lost:
\* the safety half of the promise that every expression is settled.
THEOREM UnderWay == Spec => []PendingExpressionIsUnderWay
<1>1. IInv /\ QueueInv /\ StrandedInv => PendingExpressionIsUnderWay
  <2>. SUFFICES ASSUME IInv, QueueInv, StrandedInv, NEW e \in Expr, exprStatus[e] = "Pending"
                PROVE  \E t \in TasksOf(e) :
                           /\ status[t] \in {"Pending", "InProgress"}
                           /\ t \in Stranded => lost > 0
    BY DEF PendingExpressionIsUnderWay
  <2>1. PICK t \in TasksOf(e) : status[t] \in {"Pending", "InProgress"}
    BY PendingExpressionHasWork DEF IInv, TypeOK
  <2>2. Stranded # {} => lost > 0
    <3>1. Cardinality(Stranded) \in Nat /\ (Cardinality(Stranded) = 0 <=> Stranded = {})
      BY FS_CardinalityType, FS_EmptySet DEF StrandedInv
    <3>2. lost \in Nat
      BY BoundsAssumption DEF IInv, TypeOK
    <3>. QED
      BY <3>1, <3>2 DEF StrandedInv
  <2>. QED
    BY <2>1, <2>2
<1>. QED
  BY <1>1, Invariance, QueueInvariance, StrandedInvariance, PTL
-----------------------------------------------------------------------------
(***************************************************************************)
(* A claim is exclusive, until something is repeated.                       *)
(***************************************************************************)

\* The first delivery of a task: its child has been waiting for it, so it is nobody's, and it has
\* not been delivered.
LEMMA FirstDelivery ==
    ASSUME IInv, ClaimsAreRight, NEW w \in Worker, pc[w] = "submit",
           HandleSubmit(hand[w], answer[w])
    PROVE  /\ CompletedOnDelivery'
           /\ \A v \in Worker : Busy(v) /\ v # w => status'[hand[v]] \in {"InProgress", "Failed"}
           /\ \A u \in Task :
                  /\ status[u] = "Completed" => status'[u] = "Completed"
                  /\ HasOperands(u) /\ status[u] # "Pending" => status'[u] # "Pending"
<1>. DEFINE t == hand[w]
<1>1. /\ t \in Task /\ answer[w] = Value[t] /\ StoreTypeOK /\ StoreInv
      /\ status[t] \in {"InProgress", "Failed"} /\ result[t] = NULL
  BY DEF IInv, TypeOK, WorkersAreRight, Busy, ClaimsAreRight, ClaimedTasksAreAway,
         CompletedOnDelivery
<1>2. \A v \in Worker : Busy(v) =>
          /\ hand[v] \in Task /\ HasOperands(hand[v])
          /\ status[hand[v]] \in {"InProgress", "Failed"}
          /\ v # w => hand[v] # t
  BY DEF IInv, WorkersAreRight, Busy, ClaimsAreRight, ClaimedTasksAreAway, ClaimIsExclusive
<1>3. CASE Value[t] = NaN /\ FailExpression(t)
  <2>. USE DEF FailExpression, UnfinishedTasksOf
  <2>1. result' = result
    BY <1>1, <1>3, FailedTaskHasNoResult DEF StoreTypeOK
  <2>2. \A u \in Task :
            /\ status'[u] \in {status[u], "Failed"}
            /\ status[u] = "Completed" <=> status'[u] = "Completed"
    BY <1>1, <1>3
  <2>3. CompletedOnDelivery'
    BY <2>1, <2>2 DEF ClaimsAreRight, CompletedOnDelivery
  <2>. QED
    BY <1>2, <2>2, <2>3
<1>4. CASE Value[t] # NaN /\ EnqueueChildTask(t, Value[t])
  <2>1. PICK c \in ChildrenOf(t) :
          /\ status' = [status EXCEPT ![t] = "Completed",
                                      ![c] = IF BecomesReady(c) THEN "Pending" ELSE @]
          /\ result' = [result EXCEPT ![t] = Value[t]]
    BY <1>4 DEF EnqueueChildTask
  <2>2. c \in Task /\ c # t /\ (Parent1[c] = t \/ Parent2[c] = t) /\ t # NoTask
    BY <1>1, PlanAssumption, Child DEF ChildrenOf
  <2>3. status[c] # "Absent"
    BY <1>1, <2>1, Child DEF StoreInv, RowsAppearTogether
  <2>4. ~HasOperands(c)
    BY <1>1, <2>2, <2>3 DEF StoreInv, ArgumentsMirrorResults, HasOperands
  <2>5. result[c] = NULL /\ status[c] # "Completed"
    BY <1>1, <2>2, <2>4
    DEF StoreInv, ResultsAreRight, ClaimsAreRight, CompletedOnDelivery
  <2>6. /\ status'[t] = "Completed"
        /\ status'[c] \in {status[c], "Pending"}
        /\ \A u \in Task \ {t, c} : status'[u] = status[u]
    BY <1>1, <2>1, <2>2 DEF StoreTypeOK
  <2>7. Value[t] # NULL
    BY <1>1, ValueType, ArithmeticAssumption
  <2>8. CompletedOnDelivery'
    BY <1>1, <2>1, <2>2, <2>5, <2>6, <2>7
    DEF StoreTypeOK, ClaimsAreRight, CompletedOnDelivery
  <2>9. ASSUME NEW v \in Worker, Busy(v), v # w
        PROVE  status'[hand[v]] \in {"InProgress", "Failed"}
    <3>1. hand[v] \in Task \ {t, c} /\ status[hand[v]] \in {"InProgress", "Failed"}
      BY <1>2, <2>4, <2>9
    <3>. QED
      BY <2>6, <3>1
  <2>10. ASSUME NEW u \in Task
         PROVE  /\ status[u] = "Completed" => status'[u] = "Completed"
                /\ HasOperands(u) /\ status[u] # "Pending" => status'[u] # "Pending"
    <3>1. CASE u = c
      BY <2>4, <2>5, <3>1
    <3>2. CASE u # c
      BY <2>6, <3>2
    <3>. QED
      BY <3>1, <3>2
  <2>. QED
    BY <2>8, <2>9, <2>10
<1>5. CASE Value[t] # NaN /\ CompleteExpression(t, Value[t])
  <2>. USE DEF CompleteExpression
  <2>1. Value[t] # NULL
    BY <1>1, ValueType, ArithmeticAssumption
  <2>2. status'[t] = "Completed" /\ \A u \in Task \ {t} : status'[u] = status[u]
    BY <1>1, <1>5 DEF StoreTypeOK
  <2>3. CompletedOnDelivery'
    BY <1>1, <1>5, <2>1, <2>2 DEF StoreTypeOK, ClaimsAreRight, CompletedOnDelivery
  <2>. QED
    BY <1>2, <2>2, <2>3
<1>. QED
  BY <1>1, <1>3, <1>4, <1>5 DEF HandleSubmit, FinishTask

\* Faults are counted, so nothing has been repeated before a step after which nothing has.
LEMMA RepetitionsAreCounted ==
    ASSUME IInv, [Next]_vars, NothingRepeated'
    PROVE  /\ NothingRepeated
           /\ \A w \in Worker :
                  ~(SubmitReplyLost(w) \/ SubmitTimedOut(w) \/ GetTaskUnclaimed(w))
<1>. USE DEF counters, NothingRepeated
<1>1. repeats \in Nat /\ unclaimed \in Nat
  BY BoundsAssumption DEF IInv, TypeOK
<1>2. ASSUME NEW w \in Worker, SubmitReplyLost(w) \/ SubmitTimedOut(w) \/ GetTaskUnclaimed(w)
      PROVE  FALSE
  <2>1. repeats' = repeats + 1 \/ unclaimed' = unclaimed + 1
    BY <1>2 DEF SubmitReplyLost, SubmitTimedOut, GetTaskUnclaimed
  <2>. QED
    BY <1>1, <2>1
<1>3. ASSUME NEW w \in Worker,
             GetTask(w) \/ ExecuteTask(w) \/ SubmitTaskResult(w) \/ GetTaskReplyLost(w)
                 \/ StopWorker(w)
      PROVE  UNCHANGED <<repeats, unclaimed>>
  BY <1>3 DEF GetTask, ExecuteTask, SubmitTaskResult, GetTaskReplyLost, StopWorker
<1>4. ASSUME NEW e \in Expr, Calculate(e) PROVE UNCHANGED <<repeats, unclaimed>>
  BY <1>4 DEF Calculate
<1>5. ASSUME NEW m \in late, LateSubmit(m) PROVE UNCHANGED <<repeats, unclaimed>>
  BY <1>5 DEF LateSubmit
<1>6. UNCHANGED vars => UNCHANGED <<repeats, unclaimed>>
  BY DEF vars
<1>. QED
  BY <1>2, <1>3, <1>4, <1>5, <1>6 DEF Next, WorkerStep, GetNoTask, Fault

LEMMA ClaimNext == IInv /\ ClaimInv /\ [Next]_vars => ClaimInv'
<1>. SUFFICES ASSUME IInv, ClaimInv, [Next]_vars, NothingRepeated' PROVE ClaimsAreRight'
  BY DEF ClaimInv, ClaimsAreRight
<1>. USE DEF workerVars, counters
<1>1. /\ ClaimsAreRight
      /\ \A w \in Worker : ~(SubmitReplyLost(w) \/ SubmitTimedOut(w) \/ GetTaskUnclaimed(w))
  BY RepetitionsAreCounted DEF ClaimInv, ClaimsAreRight
<1>2. late = {} /\ ClaimIsExclusive /\ ClaimedTasksAreAway /\ CompletedOnDelivery
  BY <1>1 DEF ClaimsAreRight
<1>3. StoreTypeOK /\ StoreInv
  BY DEF IInv, TypeOK
<1>4. \A v \in Worker : Busy(v) =>
          /\ hand[v] \in Task /\ status[hand[v]] # "Absent"
          /\ status[hand[v]] \in {"InProgress", "Failed"}
  BY <1>2 DEF IInv, WorkersAreRight, ClaimedTasksAreAway
<1>5. ASSUME NEW e \in Expr, Calculate(e) PROVE ClaimsAreRight'
  <2>1. \A t \in Task : status[t] # "Absent" => status'[t] = status[t]
    BY <1>3, <1>5 DEF Calculate, CreateExpression, TasksOf, StoreInv, RowsAppearTogether
  <2>2. \A t \in Task : status[t] = "Absent" =>
            result'[t] = NULL /\ status'[t] # "Completed"
    BY <1>3, <1>5
    DEF Calculate, CreateExpression, InitialStatus, StoreInv, RowsAppearTogether
  <2>3. result' = result /\ UNCHANGED <<workerVars, late>>
    BY <1>5 DEF Calculate, CreateExpression
  <2>4. CompletedOnDelivery'
    BY <1>2, <2>1, <2>2, <2>3 DEF CompletedOnDelivery
  <2>5. ClaimedTasksAreAway'
    BY <1>4, <2>1, <2>3 DEF ClaimedTasksAreAway, Busy
  <2>6. late' = {} /\ ClaimIsExclusive'
    BY <1>2, <2>3 DEF ClaimIsExclusive, Busy
  <2>. QED
    BY <2>4, <2>5, <2>6 DEF ClaimsAreRight
<1>6. ASSUME NEW w \in Worker, NEW t \in Task, GetPendingTask(t)
      PROVE  /\ CompletedOnDelivery'
             /\ \A v \in Worker : Busy(v) => hand[v] # t /\ status'[hand[v]] = status[hand[v]]
             /\ status'[t] = "InProgress"
  <2>1. status[t] = "Pending"
    BY <1>6 DEF GetPendingTask, OldestPending
  <2>2. CompletedOnDelivery'
    BY <1>2, <1>3, <1>6, <2>1 DEF GetPendingTask, StoreTypeOK, CompletedOnDelivery
  <2>. QED
    BY <1>3, <1>4, <1>6, <2>1, <2>2 DEF GetPendingTask, StoreTypeOK
<1>7. ASSUME NEW w \in Worker, GetTask(w) PROVE ClaimsAreRight'
  <2>1. PICK t \in Task : GetPendingTask(t) /\ hand' = [hand EXCEPT ![w] = t]
    BY <1>7 DEF GetTask
  <2>2. hand'[w] = t /\ \A v \in Worker \ {w} : hand'[v] = hand[v] /\ (Busy(v)' <=> Busy(v))
    BY <1>7, <2>1 DEF GetTask, IInv, TypeOK, Busy
  <2>3. ClaimedTasksAreAway'
    BY <1>4, <1>6, <2>1, <2>2 DEF ClaimedTasksAreAway
  <2>4. ClaimIsExclusive'
    BY <1>2, <1>6, <2>1, <2>2 DEF ClaimIsExclusive
  <2>. QED
    BY <1>2, <1>6, <1>7, <2>1, <2>3, <2>4 DEF ClaimsAreRight, GetTask
<1>8. ASSUME NEW w \in Worker, GetTaskReplyLost(w) PROVE ClaimsAreRight'
  <2>1. PICK t \in Task : GetPendingTask(t)
    BY <1>8 DEF GetTaskReplyLost
  <2>2. UNCHANGED <<workerVars, late>>
    BY <1>8 DEF GetTaskReplyLost
  <2>3. ClaimedTasksAreAway'
    BY <1>4, <1>6, <2>1, <2>2 DEF ClaimedTasksAreAway, Busy
  <2>4. ClaimIsExclusive'
    BY <1>2, <2>2 DEF ClaimIsExclusive, Busy
  <2>. QED
    BY <1>2, <1>6, <1>8, <2>1, <2>2, <2>3, <2>4 DEF ClaimsAreRight
<1>9. ASSUME NEW w \in Worker, SubmitTaskResult(w) PROVE ClaimsAreRight'
  <2>1. /\ CompletedOnDelivery'
        /\ \A v \in Worker : Busy(v) /\ v # w => status'[hand[v]] \in {"InProgress", "Failed"}
    BY <1>1, <1>9, FirstDelivery DEF SubmitTaskResult
  <2>2. UNCHANGED <<hand, late>> /\ ~Busy(w)' /\ \A v \in Worker \ {w} : Busy(v)' <=> Busy(v)
    BY <1>9 DEF SubmitTaskResult, IInv, TypeOK, Busy
  <2>3. ClaimedTasksAreAway'
    BY <2>1, <2>2 DEF ClaimedTasksAreAway
  <2>4. ClaimIsExclusive'
    BY <1>2, <2>2 DEF ClaimIsExclusive
  <2>. QED
    BY <1>2, <2>1, <2>2, <2>3, <2>4 DEF ClaimsAreRight
<1>10. ASSUME UNCHANGED <<storeVars, hand, late>>, \A w \in Worker : Busy(w)' => Busy(w)
       PROVE  ClaimsAreRight'
  BY <1>2, <1>10
  DEF storeVars, ClaimsAreRight, ClaimIsExclusive, ClaimedTasksAreAway, CompletedOnDelivery
<1>11. ASSUME NEW w \in Worker, ExecuteTask(w) \/ StopWorker(w) PROVE ClaimsAreRight'
  <2>1. \A v \in Worker : Busy(v)' => Busy(v)
    BY <1>11 DEF ExecuteTask, StopWorker, IInv, TypeOK, Busy
  <2>. QED
    BY <1>10, <1>11, <2>1 DEF ExecuteTask, StopWorker
<1>12. CASE UNCHANGED vars
  BY <1>10, <1>12 DEF vars, Busy
<1>. QED
  BY <1>1, <1>2, <1>5, <1>7, <1>8, <1>9, <1>11, <1>12
  DEF Next, WorkerStep, GetNoTask, Fault

\* Until something is repeated, every claim, delivery and completion happens once.
THEOREM ClaimInvariance == Spec => []ClaimInv
<1>1. Init => ClaimInv
  BY DEF Init, StoreInit, ClaimInv, ClaimsAreRight, ClaimIsExclusive, ClaimedTasksAreAway,
         CompletedOnDelivery, Busy
<1>. QED
  BY <1>1, ClaimNext, Invariance, PTL DEF Spec

\* Two workers never have the same task in hand, at least until a submission is repeated or a
\* task given away unclaimed, whatever else is lost or fails.
THEOREM ExclusiveClaims == Spec => []FirstClaimIsExclusive
<1>1. ClaimInv => FirstClaimIsExclusive
  BY DEF ClaimInv, ClaimsAreRight, FirstClaimIsExclusive
<1>. QED
  BY <1>1, ClaimInvariance, PTL

\* Until then, nobody works for an expression that is completed.
THEOREM QuietCompletion == Spec => []CompletedExpressionIsQuiet
<1>1. IInv /\ ClaimInv /\ CompletedMeansEverythingRan => CompletedExpressionIsQuiet
  <2>. SUFFICES ASSUME IInv, ClaimInv, CompletedMeansEverythingRan, NothingRepeated,
                       NEW e \in Expr, exprStatus[e] = "Completed", NEW t \in TasksOf(e)
                PROVE  /\ status[t] = "Completed"
                       /\ \A w \in Worker : ~(Busy(w) /\ hand[w] = t)
    BY DEF CompletedExpressionIsQuiet
  <2>1. t \in Task /\ result[t] = Value[t]
    BY DEF CompletedMeansEverythingRan, TasksOf
  <2>2. result[t] # NULL
    BY <2>1, ValueType, ArithmeticAssumption
  <2>3. status[t] = "Completed"
    BY <2>1, <2>2 DEF ClaimInv, ClaimsAreRight, CompletedOnDelivery
  <2>. QED
    BY <2>3 DEF ClaimInv, ClaimsAreRight, ClaimedTasksAreAway
<1>. QED
  BY <1>1, Invariance, ClaimInvariance, CompletionIsComplete, PTL

\* And until then, no task runs twice: neither a failure nor an operand that arrives, in any
\* order, hands out again what has been handed out.
THEOREM EveryTaskRunsOnce == Spec => NoTaskRunsTwice
<1>. DEFINE RunsOnce ==
         NothingRepeated =>
             \A t \in Task :
                 /\ status[t] = "Completed" => status'[t] = "Completed"
                 /\ HasOperands(t) /\ status[t] # "Pending" => status'[t] # "Pending"
<1>1. IInv /\ ClaimInv /\ [Next]_vars => RunsOnce
  <2>. SUFFICES ASSUME IInv, ClaimInv, NothingRepeated, [Next]_vars, NEW t \in Task
                PROVE  /\ status[t] = "Completed" => status'[t] = "Completed"
                       /\ HasOperands(t) /\ status[t] # "Pending" => status'[t] # "Pending"
    OBVIOUS
  <2>1. ClaimsAreRight /\ StoreTypeOK /\ StoreInv
    BY DEF ClaimInv, ClaimsAreRight, IInv, TypeOK
  <2>2. ASSUME NEW e \in Expr, Calculate(e)
        PROVE  status'[t] = status[t] \/ (status[t] = "Absent" /\ ~HasOperands(t))
    BY <2>1, <2>2
    DEF Calculate, CreateExpression, TasksOf, StoreInv, RowsAppearTogether, HasOperands
  <2>3. ASSUME NEW w \in Worker, GetTask(w) \/ GetTaskReplyLost(w)
        PROVE  \/ status'[t] = status[t]
               \/ status[t] = "Pending" /\ status'[t] = "InProgress"
    <3>1. PICK u \in Task : GetPendingTask(u)
      BY <2>3 DEF GetTask, GetTaskReplyLost
    <3>. QED
      BY <2>1, <3>1 DEF GetPendingTask, OldestPending, StoreTypeOK
  <2>4. ASSUME NEW w \in Worker, SubmitTaskResult(w) \/ SubmitReplyLost(w)
        PROVE  /\ status[t] = "Completed" => status'[t] = "Completed"
               /\ HasOperands(t) /\ status[t] # "Pending" => status'[t] # "Pending"
    BY <2>1, <2>4, FirstDelivery DEF SubmitTaskResult, SubmitReplyLost
  <2>5. ASSUME NEW w \in Worker,
               ExecuteTask(w) \/ SubmitTimedOut(w) \/ StopWorker(w) \/ GetTaskUnclaimed(w)
        PROVE  status' = status
    BY <2>5 DEF ExecuteTask, GetTaskUnclaimed, SubmitTimedOut, StopWorker, storeVars
  <2>6. CASE UNCHANGED vars
    BY <2>6 DEF vars, storeVars
  <2>7. late = {}
    BY <2>1 DEF ClaimsAreRight
  <2>. QED
    BY <2>2, <2>3, <2>4, <2>5, <2>6, <2>7 DEF Next, WorkerStep, GetNoTask, Fault
<1>. QED
  BY <1>1, Invariance, ClaimInvariance, PTL DEF Spec, NoTaskRunsTwice
=============================================================================
