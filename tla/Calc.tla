-------------------------------- MODULE Calc --------------------------------
(***************************************************************************)
(* The expression compiler: Parse (tokenize, toRPN, validateRPN) and        *)
(* Schedule, as CalculatorService.Calculate runs them on one string.  Each  *)
(* iteration of a loop is a step, and so is what follows the loop.          *)
(*                                                                          *)
(* A number is the sequence of characters it was written with; ParseFloat   *)
(* succeeds on what is a decimal literal (its range is left out).           *)
(***************************************************************************)
EXTENDS Integers, Sequences, SequencesExt, FiniteSetsExt

CONSTANTS Char,         \* the characters, as strings of length one
          Digit,        \* the characters "0" to "9", or some of them
          Inputs        \* the strings that may be submitted, as sequences of characters

Operator == {"+", "-", "*", "/"}

ASSUME CharAssumption == "" \notin Char

ASSUME InputsAssumption == "0" \in Char /\ \A s \in Inputs : s \in Seq(Char)

VARIABLES
    phase,      \* the loop that runs, or "scheduled" or "rejected"
    input,      \* the string
    pos,        \* index of the loop
    buf,        \* numberBuf of tokenize
    tokens,     \* result of tokenize
    ops,        \* stack of toRPN
    rpn,        \* result of toRPN
    depth,      \* Size() of the stack of validateRPN, whose contents do not matter
    items,      \* stack of Schedule
    plan        \* result of Schedule; the id of a task is its index

vars == <<phase, input, pos, buf, tokens, ops, rpn, depth, items, plan>>

\* types.Token: NewToken leaves the other field at its zero value.
Number(n) == [isNumber |-> TRUE, number |-> n, symbol |-> ""]
Symbol(s) == [isNumber |-> FALSE, number |-> <<>>, symbol |-> s]

IsDecimal(b) ==
    /\ \E i \in DOMAIN b : b[i] \in Digit
    /\ \A i, j \in DOMAIN b : b[i] = "." /\ b[j] = "." => i = j

Init ==
    /\ phase = "tokenize"
    /\ input \in Inputs
    /\ pos = 1
    /\ buf = <<>>
    /\ tokens = <<>>
    /\ ops = <<>>
    /\ rpn = <<>>
    /\ depth = 0
    /\ items = <<>>
    /\ plan = <<>>

Goto(p) == phase' = p /\ pos' = 1
Continue == pos' = pos + 1 /\ UNCHANGED phase

-----------------------------------------------------------------------------
Flushed == IF buf = <<>> THEN tokens ELSE Append(tokens, Number(buf))

\* A space neither is a token nor ends a number.
TokenizeChar ==
    /\ phase = "tokenize" /\ pos <= Len(input)
    /\ LET ch == input[pos] IN
       \/ /\ ch \in Digit \cup {"."}
          /\ buf' = Append(buf, ch)
          /\ Continue /\ UNCHANGED tokens
       \/ /\ ch = " "
          /\ Continue /\ UNCHANGED <<buf, tokens>>
       \/ /\ ch \notin Digit \cup {".", " "}
          /\ buf = <<>> \/ IsDecimal(buf)
          /\ tokens' = Append(Flushed, Symbol(ch))
          /\ buf' = <<>>
          /\ Continue
       \/ /\ ch \notin Digit \cup {".", " "}
          /\ buf # <<>> /\ ~IsDecimal(buf)
          /\ Goto("rejected") /\ UNCHANGED <<buf, tokens>>
    /\ UNCHANGED <<input, ops, rpn, depth, items, plan>>

TokenizeEnd ==
    /\ phase = "tokenize" /\ pos > Len(input)
    /\ \/ /\ buf = <<>> \/ IsDecimal(buf)
          /\ tokens' = Flushed
          /\ Goto("toRPN")
       \/ /\ buf # <<>> /\ ~IsDecimal(buf)
          /\ Goto("rejected") /\ UNCHANGED tokens
    /\ UNCHANGED <<input, buf, ops, rpn, depth, items, plan>>

-----------------------------------------------------------------------------
Precedence(s) ==
    CASE s \in {"+", "-"} -> 1
      [] s \in {"*", "/"} -> 2
      [] OTHER            -> 0

\* A mutant: the operator popped last is lost.
PoppedShort(k) == Reverse(SubSeq(ops, k + 2, Len(ops)))

\* What a loop "while the top of the stack satisfies P, pop it" leaves and takes: it stops
\* below the topmost item that is in stop.
Kept(stop) == Max({0} \cup {i \in DOMAIN ops : ops[i].symbol \in stop})
Popped(k) == Reverse(SubSeq(ops, k + 1, Len(ops)))

\* A mutant: operators of equal precedence associate to the right.
WeakerOrEqual(s) ==
    {o \in {ops[i].symbol : i \in DOMAIN ops} : Precedence(o) <= Precedence(s)}

\* The operators that bind less tightly than s.
Weaker(s) == {o \in {ops[i].symbol : i \in DOMAIN ops} : Precedence(o) < Precedence(s)}

ToRPN ==
    /\ phase = "toRPN" /\ pos <= Len(tokens)
    /\ LET t == tokens[pos] IN
       \/ /\ t.isNumber
          /\ rpn' = Append(rpn, t)
          /\ UNCHANGED ops
       \/ /\ t.symbol = "("
          /\ ops' = Append(ops, t)
          /\ UNCHANGED rpn
       \/ /\ t.symbol = ")"
          /\ LET k == Kept({"("}) IN
             /\ rpn' = rpn \o Popped(k)
             /\ ops' = SubSeq(ops, 1, k - 1)      \* the parenthesis too, if there is one
       \/ /\ ~t.isNumber /\ t.symbol \notin {"(", ")"}
          /\ LET k == Kept(Weaker(t.symbol)) IN
             /\ rpn' = rpn \o Popped(k)
             /\ ops' = Append(SubSeq(ops, 1, k), t)
    /\ Continue
    /\ UNCHANGED <<input, buf, tokens, depth, items, plan>>

\* A mutant: the last loop pops before it looks at the size, and SafePop of the empty stack
\* gives the zero Token.
ToRPNEndPopsFirst ==
    /\ phase = "toRPN" /\ pos > Len(tokens)
    /\ rpn' = rpn \o IF ops = <<>> THEN <<Symbol("")>> ELSE Popped(0)
    /\ ops' = <<>>
    /\ Goto("validate")
    /\ UNCHANGED <<input, buf, tokens, depth, items, plan>>

ToRPNEnd ==
    /\ phase = "toRPN" /\ pos > Len(tokens)
    /\ rpn' = rpn \o Popped(0)
    /\ ops' = <<>>
    /\ Goto("validate")
    /\ UNCHANGED <<input, buf, tokens, depth, items, plan>>

-----------------------------------------------------------------------------
\* SafePop of an empty stack leaves it empty.
Below(d) == IF d = 0 THEN 0 ELSE d - 1

\* Whatever is not one of the four operators counts as an operand.
Validate ==
    /\ phase = "validate" /\ pos <= Len(rpn)
    /\ \/ /\ rpn[pos].symbol \notin Operator
          /\ depth' = depth + 1 /\ Continue
       \/ /\ rpn[pos].symbol \in Operator /\ depth >= 2
          /\ depth' = Below(Below(depth)) + 1 /\ Continue
       \/ /\ rpn[pos].symbol \in Operator /\ depth < 2
          /\ Goto("rejected") /\ UNCHANGED depth
    /\ UNCHANGED <<input, buf, tokens, ops, rpn, items, plan>>

ValidateEnd ==
    /\ phase = "validate" /\ pos > Len(rpn)
    /\ IF depth = 1 THEN Goto("schedule") ELSE Goto("rejected")
    /\ UNCHANGED <<input, buf, tokens, ops, rpn, depth, items, plan>>

-----------------------------------------------------------------------------
\* An operand: a number, or the result of a task.  SafePop of an empty stack gives the first one.
ZeroItem == [task |-> 0, number |-> <<"0">>]
NumberItem(n) == [task |-> 0, number |-> n]
TaskItem(i) == [task |-> i, number |-> <<"0">>]

\* A mutant: SafePeek where SafePop is meant.
ItemFromTopPeeked(n) == IF items # <<>> THEN Last(items) ELSE ZeroItem

\* A mutant: the operand popped first is taken for the left one.
ItemFromTopSwapped(n) == IF 1 - n < Len(items) THEN items[Len(items) - (1 - n)] ELSE ZeroItem

ItemFromTop(n) == IF n < Len(items) THEN items[Len(items) - n] ELSE ZeroItem

\* A mutant: one of the two operands stays on the stack.
ItemsBelowPoppedOnce(n) == SubSeq(items, 1, Len(items) - 1)

ItemsBelow(n) == SubSeq(items, 1, Len(items) - n)

\* Whatever is not a number counts as an operator.
Schedule ==
    /\ phase = "schedule" /\ pos <= Len(rpn)
    /\ \/ /\ rpn[pos].isNumber
          /\ items' = Append(items, NumberItem(rpn[pos].number))
          /\ UNCHANGED plan
       \/ /\ ~rpn[pos].isNumber
          /\ plan' = Append(plan, [operation |-> rpn[pos].symbol,
                                   left |-> ItemFromTop(1), right |-> ItemFromTop(0)])
          /\ items' = Append(ItemsBelow(2), TaskItem(Len(plan) + 1))
    /\ Continue
    /\ UNCHANGED <<input, buf, tokens, ops, rpn, depth>>

ScheduleEnd ==
    /\ phase = "schedule" /\ pos > Len(rpn)
    /\ Goto("scheduled")
    /\ UNCHANGED <<input, buf, tokens, ops, rpn, depth, items, plan>>

Returned ==
    /\ phase \in {"scheduled", "rejected"}
    /\ UNCHANGED vars

Next ==
    \/ TokenizeChar \/ TokenizeEnd
    \/ ToRPN \/ ToRPNEnd
    \/ Validate \/ ValidateEnd
    \/ Schedule \/ ScheduleEnd
    \/ Returned

Spec == Init /\ [][Next]_vars

-----------------------------------------------------------------------------
Item == [task : Nat, number : Seq(Char)]
PlannedTask == [operation : Char, left : Item, right : Item]
\* A number, or a symbol that has been read: never the zero Token, which SafePop gives when
\* the stack is empty.
Token == {t \in [isNumber : BOOLEAN, number : Seq(Char), symbol : Char \cup {""}] :
             t.isNumber <=> t.symbol = ""}

TypeOK ==
    /\ phase \in {"tokenize", "toRPN", "validate", "schedule", "scheduled", "rejected"}
    /\ input \in Inputs
    /\ pos \in Nat \ {0}
    /\ buf \in Seq(Char)
    /\ tokens \in Seq(Token)
    /\ ops \in Seq(Token)
    /\ rpn \in Seq(Token)
    /\ depth \in Nat
    /\ items \in Seq(Item)
    /\ plan \in Seq(PlannedTask)

\* The tasks whose result task i takes, and the tasks that take the result of i.
ParentsOf(i) == {plan[i].left.task, plan[i].right.task} \ {0}
TakersOf(i) == {d \in DOMAIN plan : i \in ParentsOf(d)}

OperandsComeEarlier ==
    \A i \in DOMAIN plan :
        /\ \A p \in ParentsOf(i) : p < i
        /\ plan[i].left.task = plan[i].right.task => plan[i].left.task = 0

\* The plan as Calculate stores it: a task's id stands for its index.
Compiled == INSTANCE Trees WITH
                Expr <- {input},
                Task <- DOMAIN plan,
                NoTask <- 0,
                ExprOf <- [i \in DOMAIN plan |-> input],
                Parent1 <- [i \in DOMAIN plan |-> plan[i].left.task],
                Parent2 <- [i \in DOMAIN plan |-> plan[i].right.task],
                Remaining <- [i \in DOMAIN plan |-> Len(plan) - i]

\* What CreateExpression and FinishTask rely on, for every string that Parse accepts, malformed
\* ones included: a plan is a tree (the empty one, of a single number, cannot be stored).
\* Schedule pops without looking, and what it counts as operator is not what validateRPN does.
PlanIsATree == phase = "scheduled" /\ plan # <<>> => Compiled!PlansAreTrees

(***************************************************************************)
(* The inductive invariant behind PlanIsATree.  A task is on the stack of   *)
(* Schedule until it is taken, once; and that stack is never higher than    *)
(* the one validateRPN counted at the same token, which ends with 1.        *)
(***************************************************************************)
\* What validateRPN has counted after n tokens.
Counted(n) == Cardinality({i \in 1 .. n : rpn[i].symbol \notin Operator})
              - Cardinality({i \in 1 .. n : rpn[i].symbol \in Operator})

OperatorsHaveTwo(n) == \A i \in 1 .. n : rpn[i].symbol \in Operator => Counted(i - 1) >= 2

StackIsCounted ==
    /\ phase \in {"tokenize", "toRPN"} => depth = 0
    /\ phase = "validate" =>
           /\ pos <= Len(rpn) + 1
           /\ depth = Counted(pos - 1)
           /\ OperatorsHaveTwo(pos - 1)
    /\ phase = "schedule" =>
           /\ pos <= Len(rpn) + 1
           /\ Counted(Len(rpn)) = 1
           /\ OperatorsHaveTwo(Len(rpn))
           /\ Len(items) <= Counted(pos - 1)
    /\ phase = "scheduled" => Len(items) <= 1
    /\ phase \notin {"schedule", "scheduled"} => items = <<>> /\ plan = <<>>

OnStack(i) == \E k \in DOMAIN items : items[k].task = i

TakenOnce ==
    /\ \A k \in DOMAIN items : items[k].task <= Len(plan)
    /\ \A j, k \in DOMAIN items : items[j].task = items[k].task /\ items[j].task # 0 => j = k
    /\ \A i \in DOMAIN plan : IF OnStack(i) THEN TakersOf(i) = {}
                                            ELSE \E c \in DOMAIN plan : TakersOf(i) = {c}

IInv ==
    /\ TypeOK
    /\ StackIsCounted
    /\ OperandsComeEarlier
    /\ TakenOnce
=============================================================================
