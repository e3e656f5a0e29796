-------------------------------- MODULE Plan --------------------------------
(***************************************************************************)
(* The plans that Calculator.Schedule hands to the repository, and what a   *)
(* plan evaluates to.                                                       *)
(*                                                                          *)
(* A plan is the slice of tasks of one expression.  Task ids (xids) are     *)
(* fresh and no column of the plan is ever updated, so the plans are given  *)
(* as constant functions over the ids of all the tasks that will ever       *)
(* exist: what the state of the system records is which of them have been   *)
(* inserted and how far they have got.                                      *)
(***************************************************************************)
EXTENDS Trees

CONSTANTS
    Literal1,       \* the number written as left operand, if no parent
    Literal2,       \* the number written as right operand, if no parent
    Operation,      \* the operation of a task

    Float,          \* the float64 values, infinities included, NaN not
    Zero,
    NaN,            \* math.NaN()
    NULL,           \* a NULL column: sql.Null with Valid = false
    Add(_, _), Subtract(_, _), Multiply(_, _), Divide(_, _),   \* IEEE 754

    Value           \* what the subtree under a task evaluates to, see below

-----------------------------------------------------------------------------
\* Agent.executeTask: only a division by zero is caught, every other result is what the
\* processor answers, and an operation the switch does not know gives NaN.
Compute(op, a, b) ==
    CASE op = "+" -> Add(a, b)
      [] op = "-" -> Subtract(a, b)
      [] op = "*" -> Multiply(a, b)
      [] op = "/" -> IF b = Zero THEN NaN ELSE Divide(a, b)
      [] OTHER    -> NaN

-----------------------------------------------------------------------------
\* What the repository relies on, and Calc!PlanIsATree shows.
ASSUME PlanAssumption == PlansAreTrees

ASSUME ArithmeticAssumption ==
    /\ Zero \in Float
    /\ NaN \notin Float
    /\ NULL \notin Float
    /\ NULL # NaN
    /\ Literal1 \in [Task -> Float]
    /\ Literal2 \in [Task -> Float]
    /\ \A a, b \in Float :
           /\ Add(a, b) \in Float \cup {NaN}
           /\ Subtract(a, b) \in Float \cup {NaN}
           /\ Multiply(a, b) \in Float \cup {NaN}
           /\ Divide(a, b) \in Float \cup {NaN}

(***************************************************************************)
(* The reference semantics: the value of a task is its operation applied to *)
(* the values of its operands, and a NaN anywhere below makes it NaN.  This *)
(* is a recursive definition, stated as the equation it solves so that the  *)
(* prover can use it; the solution is unique because operands come earlier. *)
(***************************************************************************)
Operand1(t) == IF Parent1[t] = NoTask THEN Literal1[t] ELSE Value[Parent1[t]]
Operand2(t) == IF Parent2[t] = NoTask THEN Literal2[t] ELSE Value[Parent2[t]]

ASSUME ValueAssumption ==
    /\ Value \in [Task -> Float \cup {NaN}]
    /\ \A t \in Task :
           Value[t] = IF NaN \in {Operand1(t), Operand2(t)}
                      THEN NaN
                      ELSE Compute(Operation[t], Operand1(t), Operand2(t))

\* What the client that submitted the expression must be told in the end.
AnswerOf(e) == Value[FinalOf(e)]
=============================================================================
