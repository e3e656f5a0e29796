--------------------------- MODULE CalcReference ----------------------------
(***************************************************************************)
(* The textbook grammar of infix expressions, as a reference for Calc: what *)
(* an expression means is its syntax tree, so a plan is right if it is that *)
(* tree.  Only TLC uses this module; it is recursive.                       *)
(***************************************************************************)
EXTENDS Calc

Leaf(n) == [number |-> n]
Node(o, l, r) == [operation |-> o, left |-> l, right |-> r]

Before(s, i) == SubSeq(s, 1, i - 1)
After(s, i) == SubSeq(s, i + 1, Len(s))

RECURSIVE SumTrees(_), ProductTrees(_), FactorTrees(_)

\* The trees of s as a sum, as a product and as a factor: at most one, the grammar is
\* unambiguous, and none if s is malformed.
SumTrees(s) ==
    ProductTrees(s) \cup
    UNION {{Node(s[i], l, r) : l \in SumTrees(Before(s, i)), r \in ProductTrees(After(s, i))} :
              i \in {j \in DOMAIN s : s[j] \in {"+", "-"}}}

ProductTrees(s) ==
    FactorTrees(s) \cup
    UNION {{Node(s[i], l, r) : l \in ProductTrees(Before(s, i)), r \in FactorTrees(After(s, i))} :
              i \in {j \in DOMAIN s : s[j] \in {"*", "/"}}}

FactorTrees(s) ==
    IF IsDecimal(s) /\ ToSet(s) \subseteq Digit \cup {"."} THEN {Leaf(s)}
    ELSE IF Len(s) > 2 /\ s[1] = "(" /\ s[Len(s)] = ")"
         THEN SumTrees(SubSeq(s, 2, Len(s) - 1))
         ELSE {}

\* The meaning of the input, in a set that is empty if it has none.  Blanks do not matter.
Meaning == SumTrees(SelectSeq(input, LAMBDA ch : ch # " "))

\* No operator, however many parentheses.
IsSingleNumber == Meaning = {Leaf(SelectSeq(input, LAMBDA ch : ch \notin {" ", "(", ")"}))}

-----------------------------------------------------------------------------
RECURSIVE TaskTree(_)
ItemTree(item) == IF item.task = 0 THEN Leaf(item.number) ELSE TaskTree(item.task)
TaskTree(i) == Node(plan[i].operation, ItemTree(plan[i].left), ItemTree(plan[i].right))

\* Every well-formed expression with an operator is accepted, and its plan computes what the
\* grammar says: precedence, associativity, parentheses and the order of the operands survive
\* toRPN and Schedule.  The code accepts a single number and refuses a sign, of both of which
\* calc_test.go, in cases that are skipped, expects the opposite: nothing is said of a single
\* number here, and the grammar has no signs.
CompilesWhatIsMeant ==
    phase \in {"scheduled", "rejected"} /\ Meaning # {} /\ ~IsSingleNumber =>
        /\ phase = "scheduled"
        /\ Meaning = {ItemTree(items[1])}

\* Documented, and not so: Parse "Returns types.ErrInvalidExpr if the expression is invalid".
RejectsWhatIsMalformed == phase = "scheduled" => Meaning # {}
=============================================================================
