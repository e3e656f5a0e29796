------------------------ MODULE MCStoreTransactions -------------------------
(***************************************************************************)
(* An instance of StoreTransactions for TLC.  The only number is 0: a       *)
(* column is NULL or has been written, which is all that the operations     *)
(* look at.  g is the left operand of i, which has a number on its right.   *)
(***************************************************************************)
EXTENDS StoreTransactions

CONSTANTS r1, r2

MCExpr == {"e"}
MCFloat == {0}
MCOperator(a, b) == 0

MCRequest == {r1, r2}

MCTask == {"g", "i"}
MCExprOf == [t \in MCTask |-> "e"]
MCParent1 == [g |-> "", i |-> "g"]
MCParent2 == [g |-> "", i |-> ""]
MCLiteral == [t \in MCTask |-> 0]
MCOperation == [t \in MCTask |-> "+"]
MCRemaining == [g |-> 1, i |-> 0]
=============================================================================
