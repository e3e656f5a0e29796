------------------------- MODULE TaskStoreTheorems --------------------------
(***************************************************************************)
(* What follows from the shape of the plans that Schedule builds, and that  *)
(* every repository operation keeps the invariant of the store, provided    *)
(* that what is submitted for a task is the value of that task.  That the   *)
(* agents do so is module CalculationTheorems.                              *)
(***************************************************************************)
EXTENDS TaskStore, Extrema, FiniteSetTheorems

\* What PlanAssumption says.
USE DEF PlansAreTrees

(***************************************************************************)
(* Plans.                                                                   *)
(***************************************************************************)
\* Every expression has one final task (isFinalTask), which FinalOf names.
LEMMA FinalTask ==
    /\ \A e \in Expr : FinalOf(e) \in Task /\ ExprOf[FinalOf(e)] = e /\ IsFinal(FinalOf(e))
    /\ \A t \in Task : IsFinal(t) => t = FinalOf(ExprOf[t])
<1>1. ASSUME NEW e \in Expr
      PROVE  FinalOf(e) \in Task /\ ExprOf[FinalOf(e)] = e /\ IsFinal(FinalOf(e))
  <2>1. \E t \in Task : ExprOf[t] = e /\ IsFinal(t)
    BY PlanAssumption
  <2>. QED
    BY <2>1, Zenon DEF FinalOf
<1>2. ASSUME NEW t \in Task, IsFinal(t)
      PROVE  t = FinalOf(ExprOf[t])
  <2>1. ExprOf[t] \in Expr
    BY PlanAssumption
  <2>. QED
    BY <1>1, <1>2, <2>1, PlanAssumption
<1>. QED
  BY <1>1, <1>2

\* A task is not its own child, and its children belong to its expression.
LEMMA Child ==
    ASSUME NEW t \in Task, NEW c \in ChildrenOf(t)
    PROVE  /\ c \in Task
           /\ c # t
           /\ ExprOf[c] = ExprOf[t]
           /\ Parent1[c] = t <=> Parent2[c] # t
           /\ \A d \in ChildrenOf(t) : d = c
<1>1. c \in Task /\ (Parent1[c] = t \/ Parent2[c] = t)
  BY DEF ChildrenOf
<1>2. ExprOf[c] = ExprOf[t] /\ Remaining[c] < Remaining[t]
  BY PlanAssumption
<1>3. c # t
  BY <1>1, <1>2, PlanAssumption
<1>4. Parent1[c] = t <=> Parent2[c] # t
  BY <1>1, PlanAssumption
<1>. QED
  BY <1>1, <1>2, <1>3, <1>4, PlanAssumption

\* Induction from the final task down to the leaves: a set of tasks that contains the final
\* task of an expression, and with a task its operands, contains the whole expression.
LEMMA DownTheTree ==
    ASSUME NEW e \in Expr, NEW G \in SUBSET Task,
           FinalOf(e) \in G,
           \A t \in Task : \A c \in ChildrenOf(t) : c \in G => t \in G
    PROVE  \A t \in Task : ExprOf[t] = e => t \in G
<1>. DEFINE Outside == {t \in Task : ExprOf[t] = e /\ t \notin G}
            T == {Remaining[t] : t \in Outside}
<1>1. SUFFICES ASSUME Outside # {} PROVE FALSE
  OBVIOUS
<1>2. T \subseteq Nat /\ T # {}
  <2>1. T \subseteq Nat
    BY PlanAssumption
  <2>2. PICK t \in Outside : TRUE
    BY <1>1
  <2>3. Remaining[t] \in T
    OBVIOUS
  <2>. QED
    BY <2>1, <2>3
<1>3. PICK n \in T : \A m \in T : ~(m < n)
  <2>. HIDE DEF T, Outside
  <2>. QED
    BY <1>2, LeastNatural, Zenon
<1>4. PICK t \in Outside : n = Remaining[t]
  OBVIOUS
<1>5. ~IsFinal(t)
  BY FinalTask, <1>4
<1>6. PICK c \in ChildrenOf(t) : TRUE
  BY <1>5 DEF IsFinal
<1>7. c \in Task /\ ExprOf[c] = e /\ Remaining[c] < Remaining[t]
  BY <1>4, <1>6, PlanAssumption DEF ChildrenOf
<1>8. c \in G
  BY <1>3, <1>4, <1>7
<1>. QED
  BY <1>4, <1>6, <1>8

\* Induction from a task up to the leaves: a set of tasks of which each, unless it is good, has
\* an operand in the set, contains a good one of the same expression, since plans are finite.
LEMMA UpTheTree ==
    ASSUME NEW G \in SUBSET Task, NEW Good, NEW s \in G,
           \A t \in G : \/ t \in Good
                        \/ \E p \in {Parent1[t], Parent2[t]} \ {NoTask} : p \in G
    PROVE  \E t \in G : ExprOf[t] = ExprOf[s] /\ t \in Good
<1>. DEFINE plan == {u \in Task : ExprOf[u] = ExprOf[s]}
            n == Cardinality(plan)
            InPlan == {t \in G : ExprOf[t] = ExprOf[s]}
            T == {Remaining[t] : t \in InPlan}
<1>1. n \in Nat /\ \A t \in InPlan : Remaining[t] \in 0 .. n
  <2>1. IsFiniteSet(plan)
    <3>1. s \in Task
      OBVIOUS
    <3>. QED
      BY <3>1, PlanAssumption, Zenon
  <2>2. n \in Nat
    BY <2>1, FS_CardinalityType
  <2>3. ASSUME NEW t \in InPlan
        PROVE  Remaining[t] \in Nat /\ Remaining[t] < n
    <3>1. t \in Task /\ ExprOf[t] = ExprOf[s]
      OBVIOUS
    <3>2. Remaining[t] \in Nat /\ Remaining[t] < Cardinality({u \in Task : ExprOf[u] = ExprOf[t]})
      BY <3>1, PlanAssumption
    <3>. QED
      BY <3>1, <3>2
  <2>. QED
    BY <2>2, <2>3
<1>2. T \subseteq 0 .. n /\ T # {}
  <2>1. Remaining[s] \in T
    OBVIOUS
  <2>. QED
    BY <1>1, <2>1
<1>3. PICK g \in T : \A m \in T : g >= m
  <2>. HIDE DEF T, n
  <2>. QED
    BY <1>1, <1>2, GreatestNatural, Zenon
<1>4. PICK t \in InPlan : g = Remaining[t]
  OBVIOUS
<1>5. ASSUME NEW p \in {Parent1[t], Parent2[t]} \ {NoTask}, p \in G
      PROVE  FALSE
  <2>1. p \in Task /\ t \in ChildrenOf(p)
    BY <1>5, PlanAssumption DEF ChildrenOf
  <2>2. ExprOf[p] = ExprOf[t] /\ Remaining[t] < Remaining[p]
    BY <2>1, PlanAssumption
  <2>3. Remaining[p] \in T
    BY <1>5, <2>2
  <2>4. Remaining[p] \in Nat /\ Remaining[t] \in Nat
    BY <2>1, PlanAssumption
  <2>. QED
    BY <1>3, <1>4, <2>2, <2>3, <2>4
<1>. QED
  BY <1>4, <1>5

-----------------------------------------------------------------------------
LEMMA ValueType ==
    \A t \in Task :
        /\ Value[t] \in Float \cup {NaN}
        /\ Operand1(t) \in Float \cup {NaN}
        /\ Operand2(t) \in Float \cup {NaN}
BY PlanAssumption, ArithmeticAssumption, ValueAssumption DEF Operand1, Operand2

\* executeTask answers a float64: a number or NaN, for any operation.
LEMMA ComputeType ==
    ASSUME NEW op, NEW a \in Float, NEW b \in Float
    PROVE  Compute(op, a, b) \in Float \cup {NaN}
BY ArithmeticAssumption DEF Compute

\* An agent that is sent the right operands computes the right value.
LEMMA ComputeValue ==
    ASSUME NEW t \in Task, Operand1(t) \in Float, Operand2(t) \in Float
    PROVE  Compute(Operation[t], Operand1(t), Operand2(t)) = Value[t]
BY ArithmeticAssumption, ValueAssumption

\* One division by zero (or other NaN) anywhere, and the expression has no value: failExpression
\* is right to fail the whole expression whatever its other tasks do.
THEOREM NaNReachesTheAnswer ==
    ASSUME NEW t \in Task, Value[t] = NaN
    PROVE  AnswerOf(ExprOf[t]) = NaN
<1>. DEFINE G == {u \in Task : Value[u] # NaN}
<1>1. ExprOf[t] \in Expr
  BY PlanAssumption
<1>2. ASSUME NEW u \in Task, NEW c \in ChildrenOf(u), c \in G
      PROVE  u \in G
  <2>1. c \in Task /\ (Parent1[c] = u \/ Parent2[c] = u) /\ u # NoTask
    BY PlanAssumption DEF ChildrenOf
  <2>2. NaN \notin {Operand1(c), Operand2(c)}
    BY <1>2, <2>1, ValueAssumption
  <2>. QED
    BY <2>1, <2>2 DEF Operand1, Operand2
<1>3. FinalOf(ExprOf[t]) \in Task
  BY <1>1, FinalTask
<1>4. ASSUME AnswerOf(ExprOf[t]) # NaN PROVE FALSE
  <2>1. FinalOf(ExprOf[t]) \in G
    BY <1>3, <1>4 DEF AnswerOf
  <2>2. t \in G
    BY <1>1, <1>2, <2>1, DownTheTree
  <2>. QED
    BY <2>2
<1>. QED
  BY <1>4

-----------------------------------------------------------------------------
(***************************************************************************)
(* The store.                                                               *)
(***************************************************************************)
\* The operands a stored task has are the right ones.
LEMMA OperandsAreValues ==
    ASSUME StoreTypeOK, StoreInv, NEW t \in Task, status[t] # "Absent", HasOperands(t)
    PROVE  /\ arg1[t] = Operand1(t) /\ arg2[t] = Operand2(t)
           /\ Operand1(t) \in Float /\ Operand2(t) \in Float
<1>1. Parent1[t] \in Task \cup {NoTask} /\ Parent2[t] \in Task \cup {NoTask}
  BY PlanAssumption
<1>2. /\ arg1[t] = IF Parent1[t] = NoTask THEN Literal1[t] ELSE result[Parent1[t]]
      /\ arg2[t] = IF Parent2[t] = NoTask THEN Literal2[t] ELSE result[Parent2[t]]
  BY DEF StoreInv, ArgumentsMirrorResults
<1>3. arg1[t] = Operand1(t) /\ arg2[t] = Operand2(t)
  BY <1>1, <1>2 DEF StoreInv, ResultsAreRight, HasOperands, Operand1, Operand2
<1>. QED
  BY <1>3 DEF StoreTypeOK, HasOperands

\* A task whose value is NaN has no result, and no child has it as an operand.
LEMMA FailedTaskHasNoResult ==
    ASSUME StoreTypeOK, StoreInv, NEW t \in Task, Value[t] = NaN
    PROVE  result[t] = NULL
BY ArithmeticAssumption DEF StoreTypeOK, StoreInv, ResultsAreRight

-----------------------------------------------------------------------------
LEMMA StoreInitInv ==
    ASSUME StoreInit
    PROVE  StoreTypeOK /\ StoreInv
<1>1. StoreTypeOK
  BY DEF StoreInit, StoreTypeOK, ExprStatus, TaskStatus
<1>2. RowsAppearTogether /\ ArgumentsMirrorResults
  BY PlanAssumption DEF StoreInit, RowsAppearTogether, ArgumentsMirrorResults
<1>3. ResultsAreRight /\ RunnableTasksHaveOperands /\ VerdictsAreRight
  BY DEF StoreInit, ResultsAreRight, RunnableTasksHaveOperands, VerdictsAreRight
<1>. QED
  BY <1>1, <1>2, <1>3 DEF StoreInv

\* Nothing is ever un-stored: rows stay, and so do the operands and the result of a task.
StoreGrows ==
    \A t \in Task :
        /\ status[t] # "Absent" => status'[t] # "Absent"
        /\ HasOperands(t) => HasOperands(t)'
        /\ result[t] # NULL => result'[t] # NULL

-----------------------------------------------------------------------------
LEMMA CreateExpressionInv ==
    ASSUME StoreTypeOK, StoreInv, NEW e \in Expr, NEW now \in Time, CreateExpression(e, now)
    PROVE  StoreTypeOK' /\ StoreInv' /\ StoreGrows
<1>. USE DEF CreateExpression, TasksOf, InitialStatus
<1>1. \A t \in Task : ExprOf[t] = e => status[t] = "Absent"
  BY DEF StoreInv, RowsAppearTogether
<1>2. StoreTypeOK'
  BY ArithmeticAssumption DEF StoreTypeOK, ExprStatus, TaskStatus
<1>3. RowsAppearTogether'
  BY <1>1, PlanAssumption DEF StoreTypeOK, StoreInv, RowsAppearTogether
<1>4. ArgumentsMirrorResults'
  <2>. SUFFICES ASSUME NEW t \in Task, status'[t] # "Absent"
                PROVE  /\ arg1'[t] = IF Parent1[t] = NoTask THEN Literal1[t] ELSE result'[Parent1[t]]
                       /\ arg2'[t] = IF Parent2[t] = NoTask THEN Literal2[t] ELSE result'[Parent2[t]]
    BY DEF ArgumentsMirrorResults
  <2>1. CASE ExprOf[t] # e
    BY <2>1 DEF StoreInv, ArgumentsMirrorResults
  <2>2. CASE ExprOf[t] = e
    <3>1. /\ Parent1[t] # NoTask => Parent1[t] \in Task /\ ExprOf[Parent1[t]] = e
          /\ Parent2[t] # NoTask => Parent2[t] \in Task /\ ExprOf[Parent2[t]] = e
      BY <2>2, PlanAssumption DEF ChildrenOf
    <3>2. arg1[t] = NULL /\ arg2[t] = NULL
      BY <1>1, <2>2 DEF StoreInv, RowsAppearTogether
    <3>3. /\ Parent1[t] # NoTask => result[Parent1[t]] = NULL
          /\ Parent2[t] # NoTask => result[Parent2[t]] = NULL
      BY <1>1, <3>1 DEF StoreInv, RowsAppearTogether
    <3>. QED
      BY <2>2, <3>2, <3>3
  <2>. QED
    BY <2>1, <2>2
<1>5. ResultsAreRight'
  BY <1>1 DEF StoreInv, ResultsAreRight, RowsAppearTogether, HasOperands
<1>6. RunnableTasksHaveOperands'
  BY ArithmeticAssumption DEF StoreInv, RunnableTasksHaveOperands, HasOperands
<1>7. VerdictsAreRight'
  BY DEF StoreTypeOK, StoreInv, VerdictsAreRight
<1>8. StoreGrows
  BY <1>1, ArithmeticAssumption DEF StoreGrows, HasOperands
<1>. QED
  BY <1>2, <1>3, <1>4, <1>5, <1>6, <1>7, <1>8 DEF StoreInv

LEMMA GetPendingTaskInv ==
    ASSUME StoreTypeOK, StoreInv, NEW t \in Task, GetPendingTask(t)
    PROVE  /\ StoreTypeOK' /\ StoreInv' /\ StoreGrows
           /\ status[t] # "Absent" /\ HasOperands(t)
<1>. USE DEF GetPendingTask
<1>1. status[t] = "Pending"
  BY DEF OldestPending
<1>2. HasOperands(t)
  BY <1>1 DEF StoreInv, RunnableTasksHaveOperands
<1>3. StoreTypeOK'
  BY DEF StoreTypeOK, TaskStatus
<1>4. RowsAppearTogether'
  BY <1>1 DEF StoreTypeOK, StoreInv, RowsAppearTogether
<1>5. ArgumentsMirrorResults'
  BY <1>1 DEF StoreTypeOK, StoreInv, ArgumentsMirrorResults
<1>6. RunnableTasksHaveOperands'
  BY <1>1 DEF StoreTypeOK, StoreInv, RunnableTasksHaveOperands, HasOperands
<1>7. ResultsAreRight' /\ VerdictsAreRight'
  BY DEF StoreInv, ResultsAreRight, VerdictsAreRight, HasOperands
<1>8. StoreGrows
  BY <1>1 DEF StoreTypeOK, StoreGrows, HasOperands
<1>. QED
  BY <1>1, <1>2, <1>3, <1>4, <1>5, <1>6, <1>7, <1>8 DEF StoreInv

-----------------------------------------------------------------------------
\* failExpression, for a task whose value is NaN: the result column it clears was empty.
LEMMA FailExpressionInv ==
    ASSUME StoreTypeOK, StoreInv, NEW t \in Task, status[t] # "Absent", Value[t] = NaN,
           FailExpression(t)
    PROVE  StoreTypeOK' /\ StoreInv' /\ StoreGrows
<1>. USE DEF FailExpression, UnfinishedTasksOf, TasksOf
<1>1. result' = result
  BY FailedTaskHasNoResult DEF StoreTypeOK
<1>2. \A u \in Task : /\ status[u] = "Absent" <=> status'[u] = "Absent"
                      /\ status'[u] \in {"Pending", "InProgress"} => status'[u] = status[u]
  OBVIOUS
<1>3. ExprOf[t] \in Expr /\ exprStatus[ExprOf[t]] # "Absent"
  BY PlanAssumption DEF StoreInv, RowsAppearTogether
<1>4. StoreTypeOK'
  BY ArithmeticAssumption DEF StoreTypeOK, ExprStatus, TaskStatus
<1>5. RowsAppearTogether'
  BY <1>1, <1>2, <1>3 DEF StoreTypeOK, StoreInv, RowsAppearTogether
<1>6. ArgumentsMirrorResults'
  BY <1>1, <1>2 DEF StoreInv, ArgumentsMirrorResults
<1>7. ResultsAreRight'
  BY <1>1 DEF StoreInv, ResultsAreRight, HasOperands
<1>8. RunnableTasksHaveOperands'
  BY <1>2 DEF StoreInv, RunnableTasksHaveOperands, HasOperands
<1>9. VerdictsAreRight'
  BY <1>1, <1>3, NaNReachesTheAnswer DEF StoreTypeOK, StoreInv, VerdictsAreRight
<1>10. StoreGrows
  BY <1>1, <1>2 DEF StoreGrows, HasOperands
<1>. QED
  BY <1>4, <1>5, <1>6, <1>7, <1>8, <1>9, <1>10 DEF StoreInv

\* enqueueChildTask, first time or again.
LEMMA EnqueueChildTaskInv ==
    ASSUME StoreTypeOK, StoreInv, NEW t \in Task, status[t] # "Absent", HasOperands(t),
           Value[t] # NaN, EnqueueChildTask(t, Value[t])
    PROVE  StoreTypeOK' /\ StoreInv' /\ StoreGrows
<1>1. PICK c \in ChildrenOf(t) :
        /\ arg1' = [arg1 EXCEPT ![c] = IF Parent1[c] = t THEN Value[t] ELSE @]
        /\ arg2' = [arg2 EXCEPT ![c] = IF Parent1[c] = t THEN @ ELSE Value[t]]
        /\ status' = [status EXCEPT
                         ![t] = "Completed",
                         ![c] = IF HasOperands(c)' THEN "Pending" ELSE @]
        /\ result' = [result EXCEPT ![t] = Value[t]]
        /\ UNCHANGED <<exprStatus, exprResult, createdAt>>
  BY DEF EnqueueChildTask, IsLeftOf, BecomesReady, HasOperands
<1>2. /\ c \in Task /\ c # t /\ ExprOf[c] = ExprOf[t]
      /\ Parent1[c] = t <=> Parent2[c] # t
      /\ \A d \in ChildrenOf(t) : d = c
  BY Child
<1>3. Value[t] \in Float /\ Value[t] # NULL
  BY ValueType, ArithmeticAssumption
<1>4. status[c] # "Absent"
  BY <1>2 DEF StoreInv, RowsAppearTogether
<1>5. StoreTypeOK'
  BY <1>1, <1>2, <1>3 DEF StoreTypeOK, TaskStatus
<1>6. RowsAppearTogether'
  BY <1>1, <1>2, <1>4 DEF StoreTypeOK, StoreInv, RowsAppearTogether
<1>7. \A u \in Task : status[u] # "Absent" <=> status'[u] # "Absent"
  BY <1>1, <1>2, <1>4 DEF StoreTypeOK
<1>8. StoreGrows
  BY <1>1, <1>2, <1>3, <1>7 DEF StoreTypeOK, StoreGrows, HasOperands
<1>9. ArgumentsMirrorResults'
  <2>. SUFFICES ASSUME NEW u \in Task, status[u] # "Absent"
                PROVE  /\ arg1'[u] = IF Parent1[u] = NoTask THEN Literal1[u] ELSE result'[Parent1[u]]
                       /\ arg2'[u] = IF Parent2[u] = NoTask THEN Literal2[u] ELSE result'[Parent2[u]]
    BY <1>7 DEF ArgumentsMirrorResults
  <2>1. /\ arg1[u] = IF Parent1[u] = NoTask THEN Literal1[u] ELSE result[Parent1[u]]
        /\ arg2[u] = IF Parent2[u] = NoTask THEN Literal2[u] ELSE result[Parent2[u]]
    BY DEF StoreInv, ArgumentsMirrorResults
  <2>2. t # NoTask
    BY PlanAssumption
  <2>3. CASE u = c
    BY <1>1, <1>2, <2>1, <2>2, <2>3 DEF StoreTypeOK
  <2>4. CASE u # c
    <3>1. Parent1[u] # t /\ Parent2[u] # t
      BY <1>2, <2>4 DEF ChildrenOf
    <3>. QED
      BY <1>1, <2>1, <2>4, <3>1 DEF StoreTypeOK
  <2>. QED
    BY <2>3, <2>4
<1>10. ResultsAreRight'
  BY <1>1, <1>8 DEF StoreTypeOK, StoreInv, ResultsAreRight, StoreGrows
<1>11. RunnableTasksHaveOperands'
  <2>. SUFFICES ASSUME NEW u \in Task, status'[u] \in {"Pending", "InProgress"}
                PROVE  HasOperands(u)'
    BY DEF RunnableTasksHaveOperands
  <2>1. CASE u = c /\ status'[c] # status[c]
    BY <1>1, <1>2, <2>1 DEF StoreTypeOK, HasOperands
  <2>2. CASE ~(u = c /\ status'[c] # status[c])
    <3>1. status[u] \in {"Pending", "InProgress"}
      BY <1>1, <2>2 DEF StoreTypeOK
    <3>. QED
      BY <1>8, <3>1 DEF StoreInv, RunnableTasksHaveOperands, StoreGrows
  <2>. QED
    BY <2>1, <2>2
<1>12. VerdictsAreRight'
  BY <1>1, <1>3 DEF StoreTypeOK, StoreInv, VerdictsAreRight
<1>. QED
  BY <1>5, <1>6, <1>8, <1>9, <1>10, <1>11, <1>12 DEF StoreInv

\* completeExpression, first time or again, also of an expression that is no longer Pending.
LEMMA CompleteExpressionInv ==
    ASSUME StoreTypeOK, StoreInv, NEW t \in Task, status[t] # "Absent", HasOperands(t),
           Value[t] # NaN, IsFinal(t), CompleteExpression(t, Value[t])
    PROVE  StoreTypeOK' /\ StoreInv' /\ StoreGrows
<1>. USE DEF CompleteExpression
<1>1. Value[t] \in Float /\ Value[t] # NULL
  BY ValueType, ArithmeticAssumption
<1>2. ExprOf[t] \in Expr /\ exprStatus[ExprOf[t]] # "Absent"
  BY PlanAssumption DEF StoreInv, RowsAppearTogether
<1>3. t = FinalOf(ExprOf[t]) /\ AnswerOf(ExprOf[t]) = Value[t]
  BY FinalTask DEF AnswerOf
<1>4. \A u \in Task : Parent1[u] # t /\ Parent2[u] # t
  BY DEF IsFinal, ChildrenOf
<1>5. StoreTypeOK'
  BY <1>1, <1>2 DEF StoreTypeOK, ExprStatus, TaskStatus
<1>6. RowsAppearTogether'
  BY <1>2 DEF StoreTypeOK, StoreInv, RowsAppearTogether
<1>7. ArgumentsMirrorResults'
  BY <1>4 DEF StoreTypeOK, StoreInv, ArgumentsMirrorResults
<1>8. ResultsAreRight'
  BY DEF StoreTypeOK, StoreInv, ResultsAreRight, HasOperands
<1>9. RunnableTasksHaveOperands'
  BY DEF StoreTypeOK, StoreInv, RunnableTasksHaveOperands, HasOperands
<1>10. VerdictsAreRight'
  BY <1>1, <1>2, <1>3 DEF StoreTypeOK, StoreInv, VerdictsAreRight
<1>11. StoreGrows
  BY <1>1 DEF StoreTypeOK, StoreGrows, HasOperands
<1>. QED
  BY <1>5, <1>6, <1>7, <1>8, <1>9, <1>10, <1>11 DEF StoreInv

LEMMA FinishTaskInv ==
    ASSUME StoreTypeOK, StoreInv, NEW t \in Task, HasOperands(t),
           \/ Value[t] = NaN /\ FinishTask(t, "Failed", Zero)
           \/ Value[t] # NaN /\ FinishTask(t, "Completed", Value[t])
    PROVE  StoreTypeOK' /\ StoreInv' /\ StoreGrows
BY FailExpressionInv, EnqueueChildTaskInv, CompleteExpressionInv DEF FinishTask

-----------------------------------------------------------------------------
(***************************************************************************)
(* And every operation keeps the expressions going.                         *)
(***************************************************************************)
LEMMA StoreInitQueue == StoreInit => QueueInv
<1>. SUFFICES ASSUME StoreInit PROVE QueueInv
  OBVIOUS
<1>1. WaitingTasksLackOperands /\ CompletedTasksHaveResults
  BY DEF StoreInit, WaitingTasksLackOperands, CompletedTasksHaveResults
<1>2. FailureEndsWaiting /\ FinalTaskSettles
  BY DEF StoreInit, FailureEndsWaiting, FinalTaskSettles
<1>. QED
  BY <1>1, <1>2 DEF QueueInv

LEMMA CreateExpressionQueue ==
    ASSUME StoreTypeOK, StoreInv, QueueInv,
           NEW e \in Expr, NEW now \in Time, CreateExpression(e, now)
    PROVE  QueueInv'
<1>. USE DEF CreateExpression, TasksOf, InitialStatus
<1>1. \A t \in Task : ExprOf[t] = e =>
          status[t] = "Absent" /\ arg1[t] = NULL /\ arg2[t] = NULL
  BY DEF StoreInv, RowsAppearTogether
<1>2. WaitingTasksLackOperands'
  BY <1>1 DEF QueueInv, WaitingTasksLackOperands, HasOperands
<1>3. CompletedTasksHaveResults'
  BY DEF QueueInv, CompletedTasksHaveResults
<1>4. FailureEndsWaiting'
  BY DEF StoreTypeOK, QueueInv, FailureEndsWaiting
<1>5. FinalTaskSettles'
  BY FinalTask DEF StoreTypeOK, QueueInv, FinalTaskSettles
<1>. QED
  BY <1>2, <1>3, <1>4, <1>5 DEF QueueInv

LEMMA GetPendingTaskQueue ==
    ASSUME StoreTypeOK, QueueInv, NEW t \in Task, GetPendingTask(t)
    PROVE  QueueInv'
<1>. USE DEF GetPendingTask
<1>1. WaitingTasksLackOperands' /\ CompletedTasksHaveResults'
  BY DEF StoreTypeOK, QueueInv, WaitingTasksLackOperands, CompletedTasksHaveResults, HasOperands
<1>2. FailureEndsWaiting' /\ FinalTaskSettles'
  BY DEF StoreTypeOK, QueueInv, FailureEndsWaiting, FinalTaskSettles
<1>. QED
  BY <1>1, <1>2 DEF QueueInv

\* failExpression leaves no task of its expression waiting.
LEMMA FailExpressionQueue ==
    ASSUME StoreTypeOK, StoreInv, QueueInv, NEW t \in Task, Value[t] = NaN, FailExpression(t)
    PROVE  QueueInv'
<1>. USE DEF FailExpression, UnfinishedTasksOf, TasksOf
<1>1. result' = result
  BY FailedTaskHasNoResult DEF StoreTypeOK
<1>2. ExprOf[t] \in Expr
  BY PlanAssumption
<1>3. \A u \in Task : status'[u] # "Failed" => status'[u] = status[u]
  OBVIOUS
<1>4. WaitingTasksLackOperands' /\ CompletedTasksHaveResults'
  BY <1>1, <1>3
  DEF QueueInv, WaitingTasksLackOperands, CompletedTasksHaveResults, HasOperands
<1>5. FailureEndsWaiting'
  BY <1>2 DEF StoreTypeOK, QueueInv, FailureEndsWaiting
<1>6. FinalTaskSettles'
  BY <1>2, <1>3, FinalTask DEF StoreTypeOK, QueueInv, FinalTaskSettles
<1>. QED
  BY <1>4, <1>5, <1>6 DEF QueueInv

\* enqueueChildTask wakes the child with its second operand, so a child that it leaves waiting
\* still lacks one.
LEMMA EnqueueChildTaskQueue ==
    ASSUME StoreTypeOK, QueueInv, NEW t \in Task, ~IsFinal(t), Value[t] # NaN,
           EnqueueChildTask(t, Value[t])
    PROVE  QueueInv'
<1>1. PICK c \in ChildrenOf(t) :
        /\ arg1' = [arg1 EXCEPT ![c] = IF Parent1[c] = t THEN Value[t] ELSE @]
        /\ arg2' = [arg2 EXCEPT ![c] = IF Parent1[c] = t THEN @ ELSE Value[t]]
        /\ status' = [status EXCEPT
                         ![t] = "Completed",
                         ![c] = IF HasOperands(c)' THEN "Pending" ELSE @]
        /\ result' = [result EXCEPT ![t] = Value[t]]
        /\ UNCHANGED <<exprStatus, exprResult, createdAt>>
  BY DEF EnqueueChildTask, IsLeftOf, BecomesReady, HasOperands
<1>2. c \in Task /\ c # t
  BY Child
<1>3. Value[t] # NULL
  BY ValueType, ArithmeticAssumption
<1>4. \A u \in Task : u # c =>
          status'[u] = (IF u = t THEN "Completed" ELSE status[u])
          /\ (HasOperands(u)' <=> HasOperands(u))
  BY <1>1, <1>2 DEF StoreTypeOK, HasOperands
<1>5. status'[c] = IF HasOperands(c)' THEN "Pending" ELSE status[c]
  BY <1>1, <1>2 DEF StoreTypeOK
<1>6. WaitingTasksLackOperands'
  BY <1>4, <1>5 DEF QueueInv, WaitingTasksLackOperands
<1>7. CompletedTasksHaveResults'
  BY <1>1, <1>2, <1>3, <1>4, <1>5 DEF StoreTypeOK, QueueInv, CompletedTasksHaveResults
<1>8. FailureEndsWaiting'
  <2>1. \A u \in Task : status'[u] \in {status[u], "Completed", "Pending"}
    BY <1>4, <1>5
  <2>. QED
    BY <1>1, <2>1 DEF QueueInv, FailureEndsWaiting
<1>9. FinalTaskSettles'
  BY <1>1, <1>4, <1>5, FinalTask DEF QueueInv, FinalTaskSettles
<1>. QED
  BY <1>6, <1>7, <1>8, <1>9 DEF QueueInv

\* completeExpression: an expression that has failed has no value to be completed with.
LEMMA CompleteExpressionQueue ==
    ASSUME StoreTypeOK, StoreInv, QueueInv, NEW t \in Task, Value[t] # NaN, IsFinal(t),
           CompleteExpression(t, Value[t])
    PROVE  QueueInv'
<1>. USE DEF CompleteExpression
<1>1. Value[t] # NULL
  BY ValueType, ArithmeticAssumption
<1>2. ExprOf[t] \in Expr /\ AnswerOf(ExprOf[t]) # NaN
  BY FinalTask, PlanAssumption DEF AnswerOf
<1>3. exprStatus[ExprOf[t]] # "Failed"
  BY <1>2 DEF StoreInv, VerdictsAreRight
<1>4. WaitingTasksLackOperands' /\ CompletedTasksHaveResults'
  BY <1>1
  DEF StoreTypeOK, QueueInv, WaitingTasksLackOperands, CompletedTasksHaveResults, HasOperands
<1>5. FailureEndsWaiting'
  BY <1>2, <1>3 DEF StoreTypeOK, QueueInv, FailureEndsWaiting
<1>6. FinalTaskSettles'
  BY <1>2, FinalTask DEF StoreTypeOK, QueueInv, FinalTaskSettles
<1>. QED
  BY <1>4, <1>5, <1>6 DEF QueueInv

LEMMA FinishTaskQueue ==
    ASSUME StoreTypeOK, StoreInv, QueueInv, NEW t \in Task,
           \/ Value[t] = NaN /\ FinishTask(t, "Failed", Zero)
           \/ Value[t] # NaN /\ FinishTask(t, "Completed", Value[t])
    PROVE  QueueInv'
BY FailExpressionQueue, EnqueueChildTaskQueue, CompleteExpressionQueue DEF FinishTask

\* What waits, waits for an operand that is still to come.
LEMMA WaitingForSomething ==
    ASSUME StoreTypeOK, StoreInv, QueueInv, NEW t \in Task, status[t] = "Created"
    PROVE  \E p \in {Parent1[t], Parent2[t]} \ {NoTask} :
               p \in Task /\ status[p] \in {"Created", "Pending", "InProgress"}
<1>1. /\ arg1[t] = IF Parent1[t] = NoTask THEN Literal1[t] ELSE result[Parent1[t]]
      /\ arg2[t] = IF Parent2[t] = NoTask THEN Literal2[t] ELSE result[Parent2[t]]
  BY DEF StoreInv, ArgumentsMirrorResults
<1>2. arg1[t] = NULL \/ arg2[t] = NULL
  BY DEF QueueInv, WaitingTasksLackOperands, HasOperands
<1>3. Literal1[t] # NULL /\ Literal2[t] # NULL
  BY ArithmeticAssumption
<1>4. PICK p \in {Parent1[t], Parent2[t]} \ {NoTask} : result[p] = NULL
  BY <1>1, <1>2, <1>3
<1>5. p \in Task /\ ExprOf[p] = ExprOf[t]
  BY <1>4, PlanAssumption DEF ChildrenOf
<1>6. status[p] \notin {"Absent", "Completed", "Failed"}
  BY <1>4, <1>5
  DEF StoreInv, RowsAppearTogether, QueueInv, CompletedTasksHaveResults, FailureEndsWaiting
<1>. QED
  BY <1>4, <1>5, <1>6 DEF StoreTypeOK, TaskStatus

\* A pending expression has a task that can be claimed or is claimed: from its final task up.
LEMMA PendingExpressionHasWork ==
    ASSUME StoreTypeOK, StoreInv, QueueInv, NEW e \in Expr, exprStatus[e] = "Pending"
    PROVE  \E t \in TasksOf(e) : status[t] \in {"Pending", "InProgress"}
<1>. DEFINE G == {t \in Task : status[t] \in {"Created", "Pending", "InProgress"}}
            Good == {t \in Task : status[t] \in {"Pending", "InProgress"}}
            s == FinalOf(e)
<1>1. s \in Task /\ ExprOf[s] = e
  BY FinalTask
<1>2. s \in G
  BY <1>1
  DEF StoreTypeOK, TaskStatus, StoreInv, RowsAppearTogether, QueueInv, FailureEndsWaiting,
      FinalTaskSettles
<1>3. ASSUME NEW t \in G
      PROVE  t \in Good \/ \E p \in {Parent1[t], Parent2[t]} \ {NoTask} : p \in G
  <2>1. CASE status[t] = "Created"
    BY <2>1, WaitingForSomething
  <2>2. CASE status[t] # "Created"
    BY <2>2
  <2>. QED
    BY <2>1, <2>2
<1>4. \E t \in G : ExprOf[t] = ExprOf[s] /\ t \in Good
  <2>. HIDE DEF Good, s
  <2>1. G \in SUBSET Task
    OBVIOUS
  <2>. HIDE DEF G
  <2>. QED
    BY <1>2, <1>3, <2>1, UpTheTree, Zenon
<1>. QED
  BY <1>1, <1>4 DEF TasksOf
=============================================================================
