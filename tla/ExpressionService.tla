------------------------- MODULE ExpressionService --------------------------
(***************************************************************************)
(* What the service promises for an expression it has accepted: it is       *)
(* settled once, as Completed with the value of the expression, or as       *)
(* Failed when the expression has none (NaN), and stays so.  The promise is *)
(* written from the repository's completeExpression and failExpression and  *)
(* from what GetExpression shows a client; how a verdict comes about is     *)
(* module Calculation.                                                      *)
(***************************************************************************)
CONSTANTS Expr, NULL, NaN,
          Answer        \* the value of each expression, NaN if it has none

VARIABLES verdict,      \* "Absent", "Pending", "Completed" or "Failed"
          value         \* the result shown with the verdict

serviceVars == <<verdict, value>>

Init ==
    /\ verdict = [e \in Expr |-> "Absent"]
    /\ value = [e \in Expr |-> NULL]

Accept(e) ==
    /\ verdict[e] = "Absent"
    /\ verdict' = [verdict EXCEPT ![e] = "Pending"]
    /\ UNCHANGED value

Complete(e) ==
    /\ verdict[e] = "Pending"
    /\ Answer[e] # NaN
    /\ verdict' = [verdict EXCEPT ![e] = "Completed"]
    /\ value' = [value EXCEPT ![e] = Answer[e]]

Fail(e) ==
    /\ verdict[e] = "Pending"
    /\ Answer[e] = NaN
    /\ verdict' = [verdict EXCEPT ![e] = "Failed"]
    /\ UNCHANGED value

Settle(e) == Complete(e) \/ Fail(e)

Next == \E e \in Expr : Accept(e) \/ Settle(e)

Spec == Init /\ [][Next]_serviceVars

FairSpec == Spec /\ \A e \in Expr : WF_serviceVars(Settle(e))
=============================================================================
