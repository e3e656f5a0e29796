--------------------------- MODULE MCCalculation ----------------------------
(***************************************************************************)
(* Instances of Calculation for TLC: a small arithmetic and small plans.    *)
(***************************************************************************)
EXTENDS Calculation, TLC

CONSTANTS w1, w2

\* The numbers -2 .. 2 and, as -3 and 3, the infinities.
Infinite == {-3, 3}
MCFloat == -3 .. 3

Saturate(x) == IF x > 2 THEN 3 ELSE IF x < -2 THEN -3 ELSE x

MCAdd(a, b) ==
    CASE a \in Infinite /\ b = -a -> NaN
      [] a \in Infinite /\ b # -a -> a
      [] a \notin Infinite        -> IF b \in Infinite THEN b ELSE Saturate(a + b)

MCSubtract(a, b) == MCAdd(a, -b)

MCMultiply(a, b) ==
    IF 0 \in {a, b} /\ Infinite \cap {a, b} # {} THEN NaN ELSE Saturate(a * b)

MCDivide(a, b) ==
    CASE b = 0             -> IF a = 0 THEN NaN ELSE 3
      [] b \in Infinite    -> IF a \in Infinite THEN NaN ELSE 0
      [] b \in {-2,-1,1,2} -> IF b > 0 THEN Saturate(IF a \in Infinite THEN a ELSE a \div b)
                              ELSE Saturate(IF a \in Infinite THEN -a ELSE (-a) \div (-b))

-----------------------------------------------------------------------------
\* Two expressions.  (1 + 1) * 1 - 1 / 0 fails in d, at any moment of a and c; the value of
\* (1 + 1) / (1 - 2) tells its operands apart.
MCExpr == {"bad", "good"}
MCTask == {"a", "c", "d", "f", "g", "h", "i"}
MCExprOf ==
    [t \in MCTask |-> IF t \in {"a", "c", "d", "f"} THEN "bad" ELSE "good"]
MCParent1 == [a |-> "", c |-> "a", d |-> "", f |-> "c", g |-> "", h |-> "", i |-> "g"]
MCParent2 == [a |-> "", c |-> "", d |-> "", f |-> "d", g |-> "", h |-> "", i |-> "h"]
MCLiteral1 == [a |-> 1, c |-> 0, d |-> 1, f |-> 0, g |-> 1, h |-> 1, i |-> 0]
MCLiteral2 == [a |-> 1, c |-> 1, d |-> 0, f |-> 0, g |-> 1, h |-> 2, i |-> 0]
MCOperation ==
    [a |-> "+", c |-> "*", d |-> "/", f |-> "-", g |-> "+", h |-> "-", i |-> "/"]
MCRemaining == [a |-> 3, c |-> 2, d |-> 1, f |-> 0, g |-> 2, h |-> 1, i |-> 0]

MCValue ==
    LET val[t \in MCTask] ==
            LET a == IF MCParent1[t] = "" THEN MCLiteral1[t] ELSE val[MCParent1[t]]
                b == IF MCParent2[t] = "" THEN MCLiteral2[t] ELSE val[MCParent2[t]]
            IN  IF NaN \in {a, b} THEN NaN ELSE Compute(MCOperation[t], a, b)
    IN  val

MCTime == 1 .. 2
MCWorker == {w1, w2}
WorkerSymmetry == Permutations(MCWorker)
=============================================================================
