---------------------------- MODULE ShuntingYard -----------------------------
(***************************************************************************)
(* What Calc computes, in closed form: no stack and no recursion, only the  *)
(* positions of the tokens.  toRPN emits a number where it stands and an    *)
(* operator where its right operand ends; Schedule makes of each operator a *)
(* task on what was complete when toRPN read it and when toRPN emitted it.  *)
(***************************************************************************)
EXTENDS Calc

\* The parentheses that are open after n tokens, less the ones closed without being opened.
Level(n) == Cardinality({i \in 1 .. n : tokens[i].symbol = "("})
            - Cardinality({i \in 1 .. n : tokens[i].symbol = ")"})

IsOperation(t) == ~t.isNumber /\ t.symbol \notin {"(", ")"}

\* Token p ends what began behind token q: it closes the parenthesis around, or is an operator
\* within the same parentheses that binds no tighter.  A symbol that is no operator binds like
\* a parenthesis, so it ends everything.
Ends(p, q) ==
    \/ /\ tokens[p].symbol = ")"
       /\ Level(p) = Level(q) - 1
    \/ /\ IsOperation(tokens[p])
       /\ Precedence(tokens[p].symbol) <= Precedence(tokens[q].symbol)
       /\ Level(p) = Level(q) \/ Precedence(tokens[p].symbol) = 0

End(q) == Min({p \in q + 1 .. Len(tokens) + 1 : p = Len(tokens) + 1 \/ Ends(p, q)})

\* The token at which q is emitted, and the tokens that are: not a pair of parentheses.
When == [q \in DOMAIN tokens |-> IF tokens[q].isNumber THEN q ELSE End(q)]

IsPaired(q) ==
    /\ tokens[q].symbol = "("
    /\ When[q] <= Len(tokens) /\ tokens[When[q]].symbol = ")"

Emitted == {q \in DOMAIN tokens : tokens[q].symbol # ")" /\ ~IsPaired(q)}

\* Of the tokens emitted at the same one, the innermost operator is the first.
Rank == LET when == When
            emitted == Emitted
        IN  [q \in emitted |-> Cardinality({r \in emitted : \/ when[r] < when[q]
                                                            \/ when[r] = when[q] /\ r >= q})]

\* toRPN is the shunting-yard algorithm, for every sequence of tokens: every token but paired
\* parentheses is in the result, once, in the order in which numbers are read and the right
\* operands of operators end.
RPNIsPostfix ==
    phase \in {"validate", "schedule", "scheduled"} =>
        LET rank == Rank IN
        /\ Len(rpn) = Cardinality(DOMAIN rank)
        /\ \A q \in DOMAIN rank : rpn[rank[q]] = tokens[q]

-----------------------------------------------------------------------------
OpensOperand(t) == t.isNumber \/ t.symbol = "("
ClosesOperand(t) == t.isNumber \/ t.symbol = ")"

\* Infix expressions: operands and operators alternate, and parentheses are balanced.
IsInfix ==
    /\ tokens # <<>> /\ OpensOperand(tokens[1]) /\ ClosesOperand(tokens[Len(tokens)])
    /\ \A i \in 1 .. Len(tokens) - 1 : ClosesOperand(tokens[i]) <=> ~OpensOperand(tokens[i + 1])
    /\ \A i \in DOMAIN tokens : IsOperation(tokens[i]) => tokens[i].symbol \in Operator
    /\ \A i \in DOMAIN tokens : Level(i) >= 0
    /\ Level(Len(tokens)) = 0

HasOperation == \E i \in DOMAIN tokens : IsOperation(tokens[i])

\* Parse does not refuse a well-formed expression with an operator (whose last number can be
\* read).  Operators are binary, as they are to Parse.  Of a sign and of a single number nothing is
\* said here: skipped tests (calc_test.go:128-146) disagree with Parse about both.
WellFormedIsAccepted ==
    IsInfix /\ HasOperation /\ (buf = <<>> \/ IsDecimal(buf)) => phase # "rejected"

\* The tasks of the first n symbols of the result of toRPN, and what these have computed: their
\* last number or task.
TasksOf(n) == Cardinality({i \in 1 .. n : ~rpn[i].isNumber})
Result(n) == IF rpn[n].isNumber THEN NumberItem(rpn[n].number) ELSE TaskItem(TasksOf(n))

\* Schedule gives each operator of a well-formed expression its own operands, left and right:
\* the operand that was complete when toRPN came to the operator, and the one that was complete
\* when toRPN came to the end of it.
PlanIsTheExpression ==
    phase = "scheduled" /\ IsInfix =>
        LET when == When
            rank == Rank
            Complete(q) == Cardinality({r \in DOMAIN rank : when[r] <= q})
        IN
        /\ Len(plan) = TasksOf(Len(rpn))
        /\ \A q \in {i \in DOMAIN tokens : IsOperation(tokens[i])} :
               plan[TasksOf(rank[q])] = [operation |-> tokens[q].symbol,
                                         left |-> Result(Complete(q)),
                                         right |-> Result(rank[q] - 1)]
=============================================================================
