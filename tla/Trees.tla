------------------------------- MODULE Trees --------------------------------
(***************************************************************************)
(* The shape of plans.  Schedule appends a task after the tasks it takes    *)
(* operands from, pops what it takes off its stack, so nothing is an        *)
(* operand twice, and leaves one item on the stack: plans are a forest of   *)
(* binary trees, one tree per expression.  Calc shows this of every plan    *)
(* that Schedule returns, Plan assumes it of the plans that are stored.     *)
(***************************************************************************)
EXTENDS Integers, FiniteSets

CONSTANTS
    Expr,           \* ids of the expressions that may be submitted
    Task,           \* ids of their tasks
    NoTask,         \* the empty parent id, a NULL column in the database
    ExprOf,         \* expression_id of a task
    Parent1,        \* parent_task_1_id: the task whose result is arg1
    Parent2,        \* parent_task_2_id: the task whose result is arg2
    Remaining       \* how many tasks of the plan come after a task

\* The rows that SELECT ... WHERE parent_task_1_id = t OR parent_task_2_id = t finds.
ChildrenOf(t) == {c \in Task : Parent1[c] = t \/ Parent2[c] = t}

IsFinal(t) == ChildrenOf(t) = {}

FinalOf(e) == CHOOSE t \in Task : ExprOf[t] = e /\ IsFinal(t)

PlansAreTrees ==
    /\ NoTask \notin Task
    /\ ExprOf \in [Task -> Expr]
    /\ Parent1 \in [Task -> Task \cup {NoTask}]
    /\ Parent2 \in [Task -> Task \cup {NoTask}]
    /\ Remaining \in [Task -> Nat]
    /\ \A t \in Task : \A c \in ChildrenOf(t) :
           ExprOf[c] = ExprOf[t] /\ Remaining[c] < Remaining[t]
    /\ \A t \in Task : LET plan == {u \in Task : ExprOf[u] = ExprOf[t]}
                       IN  IsFiniteSet(plan) /\ Remaining[t] < Cardinality(plan)
    /\ \A t \in Task : Parent1[t] = Parent2[t] => Parent1[t] = NoTask
    /\ \A t \in Task : \A c, d \in ChildrenOf(t) : c = d
    /\ \A e \in Expr : \E t \in Task : ExprOf[t] = e /\ IsFinal(t)
    /\ \A s, t \in Task :
           IsFinal(s) /\ IsFinal(t) /\ ExprOf[s] = ExprOf[t] => s = t
=============================================================================
