---------------------------- MODULE CalcTheorems ----------------------------
(***************************************************************************)
(* What Parse and Schedule guarantee for every string: types, and that a    *)
(* plan is a tree, which the repository relies on (Plan!PlanAssumption).    *)
(***************************************************************************)
EXTENDS Calc, FiniteSetTheorems, Extrema

(***************************************************************************)
(* Stacks and slices.                                                       *)
(***************************************************************************)
LEMMA PrefixFacts ==
    ASSUME NEW S, NEW s \in Seq(S), NEW n \in Int, n <= Len(s)
    PROVE  /\ SubSeq(s, 1, n) \in Seq(S)
           /\ Len(SubSeq(s, 1, n)) = IF n < 0 THEN 0 ELSE n
           /\ \A i \in 1 .. Len(SubSeq(s, 1, n)) : SubSeq(s, 1, n)[i] = s[i]
OBVIOUS

LEMMA AppendFacts ==
    ASSUME NEW S, NEW s \in Seq(S), NEW e \in S
    PROVE  /\ Append(s, e) \in Seq(S)
           /\ Len(Append(s, e)) = Len(s) + 1
           /\ \A i \in 1 .. Len(s) + 1 :
                  Append(s, e)[i] = IF i = Len(s) + 1 THEN e ELSE s[i]
OBVIOUS

LEMMA SuffixReversed ==
    ASSUME NEW S, NEW s \in Seq(S), NEW n \in Nat, n <= Len(s)
    PROVE  Reverse(SubSeq(s, n + 1, Len(s))) \in Seq(S)
<1>. DEFINE r == SubSeq(s, n + 1, Len(s))
<1>1. r \in Seq(S)
  OBVIOUS
<1>. HIDE DEF r
<1>2. \A i \in 1 .. Len(r) : r[(Len(r) - i) + 1] \in S
  BY <1>1
<1>3. Reverse(r) \in Seq(S)
  BY <1>1, <1>2 DEF Reverse
<1>. QED
  BY <1>3 DEF r

\* Where a popping loop of toRPN stops: at an item of the stack or at its bottom.
LEMMA KeptFacts ==
    ASSUME ops \in Seq(Token), NEW stop
    PROVE  /\ Kept(stop) \in 0 .. Len(ops)
           /\ Kept(stop) > 0 => ops[Kept(stop)].symbol \in stop
           /\ \A i \in Kept(stop) + 1 .. Len(ops) : ops[i].symbol \notin stop
<1>. DEFINE T == {0} \cup {i \in DOMAIN ops : ops[i].symbol \in stop}
<1>1. T \subseteq 0 .. Len(ops) /\ T # {} /\ Len(ops) \in Nat /\ DOMAIN ops = 1 .. Len(ops)
  OBVIOUS
<1>2. \E g \in T : \A m \in T : g >= m
  <2>. HIDE DEF T
  <2>. QED
    BY <1>1, GreatestNatural, Zenon
<1>3. Max(T) \in T /\ \A m \in T : Max(T) >= m
  <2>. HIDE DEF T
  <2>. QED
    BY <1>2 DEF Max
<1>4. Kept(stop) = Max(T)
  BY DEF Kept
<1>5. Kept(stop) \in T /\ \A m \in T : Kept(stop) >= m
  BY <1>3, <1>4
<1>6. ASSUME NEW i \in Kept(stop) + 1 .. Len(ops), ops[i].symbol \in stop
      PROVE  FALSE
  <2>1. i \in T /\ i > Kept(stop)
    BY <1>1, <1>5, <1>6
  <2>. QED
    BY <1>1, <1>5, <2>1
<1>. QED
  BY <1>1, <1>5, <1>6

LEMMA PoppedType ==
    ASSUME ops \in Seq(Token), NEW k \in 0 .. Len(ops)
    PROVE  Popped(k) \in Seq(Token)
<1>1. k \in Nat /\ k <= Len(ops)
  OBVIOUS
<1>. QED
  BY <1>1, SuffixReversed, Zenon DEF Popped

LEMMA TokenTypes ==
    /\ \A n \in Seq(Char) : Number(n) \in Token
    /\ \A s \in Char : Symbol(s) \in Token
<1>1. ASSUME NEW n \in Seq(Char)
      PROVE  Number(n) \in Token
  BY DEF Token, Number
<1>2. ASSUME NEW s \in Char
      PROVE  Symbol(s) \in Token
  <2>1. <<>> \in Seq(Char)
    OBVIOUS
  <2>. QED
    BY <2>1, CharAssumption DEF Token, Symbol
<1>. QED
  BY <1>1, <1>2

\* SafePop of a stack of operands is an operand, whatever the stack holds.
LEMMA ItemFromTopType ==
    ASSUME items \in Seq(Item), NEW n \in 0 .. 1
    PROVE  ItemFromTop(n) \in Item
<1>1. ZeroItem \in Item
  <2>1. "0" \in Char
    BY InputsAssumption
  <2>2. <<"0">> \in Seq(Char)
    BY <2>1
  <2>. QED
    BY <2>2 DEF ZeroItem, Item
<1>2. n < Len(items) => items[Len(items) - n] \in Item
  OBVIOUS
<1>. QED
  BY <1>1, <1>2 DEF ItemFromTop

-----------------------------------------------------------------------------
(***************************************************************************)
(* Types.                                                                   *)
(***************************************************************************)
LEMMA InitType == Init => TypeOK
BY DEF Init, TypeOK

LEMMA FlushedType == TypeOK => Flushed \in Seq(Token)
<1>1. TypeOK => buf \in Seq(Char) /\ tokens \in Seq(Token)
  BY DEF TypeOK
<1>2. TypeOK => Number(buf) \in Token
  BY <1>1, TokenTypes, Zenon
<1>. QED
  BY <1>1, <1>2 DEF Flushed

LEMMA TokenizeCharType == TypeOK /\ TokenizeChar => TypeOK'
<1>. SUFFICES ASSUME TypeOK, TokenizeChar
              PROVE  TypeOK'
  OBVIOUS
<1>. DEFINE ch == input[pos]
<1>1. ch \in Char
  <2>1. input \in Seq(Char) /\ pos \in Nat \ {0} /\ pos <= Len(input)
    BY InputsAssumption DEF TypeOK, TokenizeChar
  <2>. QED
    BY <2>1
<1>2. Append(buf, ch) \in Seq(Char)
  BY <1>1, AppendFacts DEF TypeOK
<1>3. Flushed \in Seq(Token)
  BY FlushedType
<1>4. Append(Flushed, Symbol(ch)) \in Seq(Token)
  <2>1. Symbol(ch) \in Token
    BY <1>1, TokenTypes
  <2>. QED
    BY <1>3, <2>1
<1>5. \/ buf' = Append(buf, ch) /\ Continue /\ UNCHANGED tokens
      \/ UNCHANGED <<buf, tokens>> /\ (Continue \/ Goto("rejected"))
      \/ tokens' = Append(Flushed, Symbol(ch)) /\ buf' = <<>> /\ Continue
  BY Zenon DEF TokenizeChar
<1>6. buf' \in Seq(Char) /\ tokens' \in Seq(Token)
  <2>1. buf \in Seq(Char) /\ tokens \in Seq(Token) /\ <<>> \in Seq(Char)
    BY DEF TypeOK
  <2>. QED
    BY <1>2, <1>4, <1>5, <2>1, Zenon
<1>7. phase' \in {"tokenize", "rejected"} /\ pos' \in Nat \ {0}
  <2>1. phase = "tokenize"
    BY DEF TokenizeChar
  <2>. QED
    BY <1>5, <2>1 DEF TypeOK, Continue, Goto
<1>. QED
  BY <1>6, <1>7 DEF TypeOK, TokenizeChar

LEMMA TokenizeEndType == TypeOK /\ TokenizeEnd => TypeOK'
<1>. SUFFICES ASSUME TypeOK, TokenizeEnd
              PROVE  TypeOK'
  OBVIOUS
<1>1. Flushed \in Seq(Token)
  BY FlushedType
<1>. QED
  BY <1>1 DEF TypeOK, TokenizeEnd, Goto

LEMMA ToRPNType == TypeOK /\ ToRPN => TypeOK'
<1>. SUFFICES ASSUME TypeOK, ToRPN
              PROVE  TypeOK'
  OBVIOUS
<1>. DEFINE t == tokens[pos]
<1>1. t \in Token /\ ops \in Seq(Token) /\ rpn \in Seq(Token)
  BY DEF TypeOK, ToRPN
<1>2. Append(rpn, t) \in Seq(Token) /\ Append(ops, t) \in Seq(Token)
  BY <1>1
<1>3. ASSUME NEW stop
      PROVE  LET k == Kept(stop) IN
             /\ rpn \o Popped(k) \in Seq(Token)
             /\ SubSeq(ops, 1, k - 1) \in Seq(Token)
             /\ Append(SubSeq(ops, 1, k), t) \in Seq(Token)
  <2>. DEFINE k == Kept(stop)
  <2>1. k \in 0 .. Len(ops)
    BY <1>1, KeptFacts
  <2>. HIDE DEF k
  <2>2. Popped(k) \in Seq(Token)
    BY <1>1, <2>1, PoppedType
  <2>3. SubSeq(ops, 1, k - 1) \in Seq(Token) /\ SubSeq(ops, 1, k) \in Seq(Token)
    BY <1>1, <2>1, PrefixFacts
  <2>4. rpn \o Popped(k) \in Seq(Token) /\ Append(SubSeq(ops, 1, k), t) \in Seq(Token)
    BY <1>1, <2>2, <2>3
  <2>. QED
    BY <2>3, <2>4 DEF k
<1>4. rpn' \in Seq(Token) /\ ops' \in Seq(Token)
  BY <1>1, <1>2, <1>3 DEF ToRPN
<1>. QED
  BY <1>4 DEF TypeOK, ToRPN, Continue

LEMMA ToRPNEndType == TypeOK /\ ToRPNEnd => TypeOK'
<1>. SUFFICES ASSUME TypeOK, ToRPNEnd
              PROVE  TypeOK'
  OBVIOUS
<1>1. Popped(0) \in Seq(Token)
  BY PoppedType DEF TypeOK
<1>2. rpn' \in Seq(Token) /\ ops' \in Seq(Token)
  BY <1>1 DEF TypeOK, ToRPNEnd
<1>. QED
  BY <1>2 DEF TypeOK, ToRPNEnd, Goto

\* What is left of d items after two of them have been popped, and one is pushed.
LEMMA BelowType ==
    ASSUME NEW d \in Nat
    PROVE  /\ Below(Below(d)) + 1 \in Nat
           /\ d >= 2 => Below(Below(d)) + 1 = d - 1
BY DEF Below

LEMMA ValidateType == TypeOK /\ (Validate \/ ValidateEnd) => TypeOK'
<1>. SUFFICES ASSUME TypeOK, Validate \/ ValidateEnd
              PROVE  TypeOK'
  OBVIOUS
<1>1. depth \in Nat /\ pos \in Nat \ {0}
  BY DEF TypeOK
<1>2. Below(Below(depth)) + 1 \in Nat
  BY <1>1, BelowType
<1>3. depth' \in {depth, depth + 1, Below(Below(depth)) + 1}
  BY DEF Validate, ValidateEnd
<1>4. depth' \in Nat
  BY <1>1, <1>2, <1>3
<1>. QED
  BY <1>1, <1>4 DEF TypeOK, Validate, ValidateEnd, Goto, Continue

\* What one iteration of Schedule does with an operation: the new task takes the two topmost
\* operands, as far as there are any, and replaces them.
LEMMA ScheduleTask ==
    ASSUME TypeOK, Schedule, ~rpn[pos].isNumber
    PROVE  /\ plan' \in Seq(PlannedTask) /\ Len(plan') = Len(plan) + 1
           /\ \A i \in 1 .. Len(plan) : plan'[i] = plan[i]
           /\ plan'[Len(plan) + 1].left = ItemFromTop(1)
           /\ plan'[Len(plan) + 1].right = ItemFromTop(0)
           /\ items' \in Seq(Item)
           /\ Len(items') = IF Len(items) < 2 THEN 1 ELSE Len(items) - 1
           /\ \A k \in 1 .. Len(items') - 1 : items'[k] = items[k]
           /\ items'[Len(items')].task = Len(plan) + 1
<1>. DEFINE n == Len(plan) + 1
            task == [operation |-> rpn[pos].symbol,
                     left |-> ItemFromTop(1), right |-> ItemFromTop(0)]
            below == ItemsBelow(2)
            top == TaskItem(n)
<1>1. plan' = Append(plan, task) /\ items' = Append(below, top)
  BY DEF Schedule
<1>2. plan \in Seq(PlannedTask) /\ items \in Seq(Item) /\ Len(items) \in Nat /\ n \in Nat
  BY DEF TypeOK
<1>3. task \in PlannedTask
  <2>1. rpn[pos] \in Token /\ ~rpn[pos].isNumber
    BY DEF TypeOK, Schedule
  <2>2. rpn[pos].symbol \in Char
    BY <2>1 DEF Token
  <2>3. ItemFromTop(0) \in Item /\ ItemFromTop(1) \in Item
    BY <1>2, ItemFromTopType
  <2>. QED
    BY <2>2, <2>3 DEF PlannedTask
<1>4. top \in Item /\ top.task = n
  <2>1. <<"0">> \in Seq(Char)
    BY InputsAssumption
  <2>. QED
    BY <1>2, <2>1 DEF TaskItem, Item
<1>5. /\ below \in Seq(Item)
      /\ Len(below) = IF Len(items) < 2 THEN 0 ELSE Len(items) - 2
      /\ \A k \in 1 .. Len(below) : below[k] = items[k]
  BY <1>2, PrefixFacts DEF ItemsBelow
<1>6. task.left = ItemFromTop(1) /\ task.right = ItemFromTop(0)
  OBVIOUS
<1>. HIDE DEF task, below, top
<1>7. /\ plan' \in Seq(PlannedTask) /\ Len(plan') = n
      /\ \A i \in 1 .. Len(plan) : plan'[i] = plan[i]
      /\ plan'[n] = task
  BY <1>1, <1>2, <1>3, AppendFacts
<1>8. /\ items' \in Seq(Item) /\ Len(items') = Len(below) + 1
      /\ \A k \in 1 .. Len(below) : items'[k] = below[k]
      /\ items'[Len(below) + 1] = top
  BY <1>1, <1>4, <1>5, AppendFacts
<1>9. Len(items') = Len(below) + 1 /\ Len(items') - 1 = Len(below)
  BY <1>2, <1>5, <1>8
<1>10. \A k \in 1 .. Len(items') - 1 : items'[k] = items[k]
  BY <1>5, <1>8, <1>9
<1>11. Len(items') = IF Len(items) < 2 THEN 1 ELSE Len(items) - 1
  BY <1>2, <1>5, <1>9
<1>12. items'[Len(items')].task = n
  BY <1>4, <1>8, <1>9
<1>. QED
  BY <1>6, <1>7, <1>8, <1>10, <1>11, <1>12

\* A number is pushed.
LEMMA ScheduleNumber ==
    ASSUME TypeOK, Schedule, rpn[pos].isNumber
    PROVE  /\ plan' = plan
           /\ items' \in Seq(Item) /\ Len(items') = Len(items) + 1
           /\ \A k \in 1 .. Len(items) : items'[k] = items[k]
           /\ items'[Len(items) + 1].task = 0
<1>. DEFINE top == NumberItem(rpn[pos].number)
<1>1. plan' = plan /\ items' = Append(items, top) /\ items \in Seq(Item)
  BY DEF Schedule, TypeOK
<1>2. rpn[pos] \in Token
  BY DEF TypeOK, Schedule
<1>3. top \in Item /\ top.task = 0
  BY <1>2 DEF Token, NumberItem, Item
<1>. HIDE DEF top
<1>. QED
  BY <1>1, <1>3, AppendFacts

LEMMA ScheduleType == TypeOK /\ (Schedule \/ ScheduleEnd) => TypeOK'
<1>. SUFFICES ASSUME TypeOK, Schedule \/ ScheduleEnd
              PROVE  TypeOK'
  OBVIOUS
<1>1. CASE ScheduleEnd
  BY <1>1 DEF TypeOK, ScheduleEnd, Goto
<1>2. CASE Schedule
  <2>1. plan' \in Seq(PlannedTask) /\ items' \in Seq(Item)
    BY <1>2, ScheduleNumber, ScheduleTask DEF TypeOK
  <2>. QED
    BY <1>2, <2>1 DEF TypeOK, Schedule, Continue
<1>. QED
  BY <1>1, <1>2

LEMMA NextType == TypeOK /\ [Next]_vars => TypeOK'
<1>. SUFFICES ASSUME TypeOK, [Next]_vars
              PROVE  TypeOK'
  OBVIOUS
<1>1. CASE Next
  BY <1>1, TokenizeCharType, TokenizeEndType, ToRPNType, ToRPNEndType, ValidateType,
     ScheduleType DEF Next, Returned, TypeOK, vars
<1>2. CASE UNCHANGED vars
  BY <1>2 DEF TypeOK, vars
<1>. QED
  BY <1>1, <1>2

-----------------------------------------------------------------------------
(***************************************************************************)
(* The invariant.                                                           *)
(***************************************************************************)
\* One more token counts one up, or one down if it is an operator.
LEMMA Counting ==
    /\ Counted(0) = 0
    /\ \A n \in Nat :
           /\ Counted(n) \in Int
           /\ Counted(n + 1) = IF rpn[n + 1].symbol \in Operator THEN Counted(n) - 1
                                                                 ELSE Counted(n) + 1
<1>. DEFINE Operators(n) == {i \in 1 .. n : rpn[i].symbol \in Operator}
            Operands(n) == {i \in 1 .. n : rpn[i].symbol \notin Operator}
<1>0. \A n : Counted(n) = Cardinality(Operands(n)) - Cardinality(Operators(n))
  BY DEF Counted
<1>1. ASSUME NEW n \in Nat
      PROVE  /\ IsFiniteSet(Operators(n)) /\ Cardinality(Operators(n)) \in Nat
             /\ IsFiniteSet(Operands(n)) /\ Cardinality(Operands(n)) \in Nat
  <2>1. IsFiniteSet(1 .. n)
    BY FS_Interval
  <2>2. Operators(n) \subseteq 1 .. n /\ Operands(n) \subseteq 1 .. n
    OBVIOUS
  <2>3. IsFiniteSet(Operators(n)) /\ IsFiniteSet(Operands(n))
    BY <2>1, <2>2, FS_Subset, Zenon
  <2>. QED
    BY <2>3, FS_CardinalityType
<1>2. Counted(0) = 0
  <2>1. Operators(0) = {} /\ Operands(0) = {}
    OBVIOUS
  <2>. QED
    BY <2>1, FS_EmptySet DEF Counted
<1>3. ASSUME NEW n \in Nat, rpn[n + 1].symbol \in Operator
      PROVE  Counted(n + 1) = Counted(n) - 1
  <2>1. Operators(n + 1) = Operators(n) \cup {n + 1} /\ n + 1 \notin Operators(n)
    BY <1>3
  <2>2. Operands(n + 1) = Operands(n)
    BY <1>3
  <2>3. Cardinality(Operators(n + 1)) = Cardinality(Operators(n)) + 1
    BY <1>1, <2>1, FS_AddElement
  <2>. HIDE DEF Operators, Operands
  <2>. QED
    BY <1>0, <1>1, <2>2, <2>3
<1>4. ASSUME NEW n \in Nat, rpn[n + 1].symbol \notin Operator
      PROVE  Counted(n + 1) = Counted(n) + 1
  <2>1. Operands(n + 1) = Operands(n) \cup {n + 1} /\ n + 1 \notin Operands(n)
    BY <1>4
  <2>2. Operators(n + 1) = Operators(n)
    BY <1>4
  <2>3. Cardinality(Operands(n + 1)) = Cardinality(Operands(n)) + 1
    BY <1>1, <2>1, FS_AddElement
  <2>. HIDE DEF Operators, Operands
  <2>. QED
    BY <1>0, <1>1, <2>2, <2>3
<1>. HIDE DEF Operators, Operands
<1>5. \A n \in Nat : Counted(n) \in Int
  BY <1>0, <1>1
<1>. QED
  BY <1>2, <1>3, <1>4, <1>5

\* validateRPN counts the stack of an evaluation.
LEMMA ValidateCounts ==
    TypeOK /\ StackIsCounted /\ (Validate \/ ValidateEnd) => StackIsCounted'
<1>. SUFFICES ASSUME TypeOK, StackIsCounted, Validate \/ ValidateEnd
              PROVE  StackIsCounted'
  OBVIOUS
<1>0. /\ phase = "validate" /\ rpn' = rpn /\ items' = items /\ plan' = plan
      /\ items = <<>> /\ plan = <<>>
      /\ pos \in Nat \ {0} /\ rpn \in Seq(Token) /\ depth \in Nat
      /\ pos <= Len(rpn) + 1 /\ depth = Counted(pos - 1) /\ OperatorsHaveTwo(pos - 1)
  BY DEF TypeOK, StackIsCounted, Validate, ValidateEnd
<1>1. CASE phase' = "rejected"
  BY <1>0, <1>1 DEF StackIsCounted
<1>2. CASE Validate /\ phase' # "rejected"
  <2>0. depth >= 2 => Below(Below(depth)) + 1 = depth - 1
    BY <1>0, BelowType
  <2>1. /\ phase' = "validate" /\ pos' = pos + 1 /\ pos <= Len(rpn)
        /\ depth' = IF rpn[pos].symbol \in Operator THEN depth - 1 ELSE depth + 1
        /\ rpn[pos].symbol \in Operator => depth >= 2
    BY <1>0, <1>2, <2>0 DEF Validate, Continue, Goto
  <2>2. Counted(pos) = IF rpn[pos].symbol \in Operator THEN Counted(pos - 1) - 1
                                                     ELSE Counted(pos - 1) + 1
    <3>1. pos - 1 \in Nat /\ (pos - 1) + 1 = pos
      BY <1>0
    <3>. QED
      BY <3>1, Counting
  <2>3. OperatorsHaveTwo(pos)
    BY <1>0, <2>1 DEF OperatorsHaveTwo
  <2>4. pos' - 1 = pos /\ pos' <= Len(rpn) + 1 /\ depth' = Counted(pos)
    BY <1>0, <2>1, <2>2
  <2>5. Counted(pos - 1)' = Counted(pos) /\ OperatorsHaveTwo(pos - 1)' = OperatorsHaveTwo(pos)
    BY <1>0, <2>4 DEF Counted, OperatorsHaveTwo
  <2>. QED
    BY <1>0, <2>1, <2>3, <2>4, <2>5 DEF StackIsCounted
<1>3. CASE ValidateEnd /\ phase' # "rejected"
  <2>1. phase' = "schedule" /\ pos' = 1 /\ depth = 1 /\ pos = Len(rpn) + 1
    BY <1>0, <1>3 DEF ValidateEnd, Goto
  <2>2. Counted(Len(rpn)) = 1 /\ OperatorsHaveTwo(Len(rpn)) /\ Len(items) = 0
    <3>1. pos - 1 = Len(rpn)
      BY <1>0, <2>1
    <3>. QED
      BY <1>0, <2>1, <3>1
  <2>3. /\ Counted(Len(rpn))' = Counted(Len(rpn))
        /\ OperatorsHaveTwo(Len(rpn))'
    BY <1>0, <2>2 DEF Counted, OperatorsHaveTwo
  <2>4. Counted(pos - 1)' = Counted(0)
    <3>1. (pos - 1)' = 0
      BY <2>1
    <3>. QED
      BY <1>0, <3>1 DEF Counted
  <2>. QED
    <3>1. pos' <= Len(rpn') + 1 /\ Counted(Len(rpn))' = 1
      BY <1>0, <2>1, <2>2, <2>3
    <3>2. Len(items') <= Counted(pos - 1)'
      BY <1>0, <2>2, <2>4, Counting
    <3>. QED
      BY <2>1, <2>3, <3>1, <3>2 DEF StackIsCounted
<1>. QED
  BY <1>1, <1>2, <1>3

\* Nothing is scheduled, and nothing counted, before validateRPN.
LEMMA EarlierStepsCount ==
    TypeOK /\ StackIsCounted /\ (TokenizeChar \/ TokenizeEnd \/ ToRPN \/ ToRPNEnd)
        => StackIsCounted'
<1>. SUFFICES ASSUME TypeOK, StackIsCounted, TokenizeChar \/ TokenizeEnd \/ ToRPN \/ ToRPNEnd
              PROVE  StackIsCounted'
  OBVIOUS
<1>1. /\ depth = 0 /\ items = <<>> /\ plan = <<>>
      /\ depth' = depth /\ items' = items /\ plan' = plan
  BY DEF StackIsCounted, TokenizeChar, TokenizeEnd, ToRPN, ToRPNEnd
<1>2. CASE phase' \in {"tokenize", "toRPN", "rejected"}
  BY <1>1, <1>2 DEF StackIsCounted
<1>3. CASE phase' \notin {"tokenize", "toRPN", "rejected"}
  <2>1. phase' = "validate" /\ pos' = 1 /\ rpn' \in Seq(Token)
    <3>1. ToRPNEnd
      BY <1>3 DEF TokenizeChar, TokenizeEnd, ToRPN, Goto, Continue
    <3>. QED
      BY <3>1, ToRPNEndType DEF TypeOK, ToRPNEnd, Goto
  <2>2. (pos - 1)' = 0
    BY <2>1
  <2>3. Counted(pos - 1)' = 0
    <3>1. /\ {i \in 1 .. 0 : rpn'[i].symbol \notin Operator} = {}
          /\ {i \in 1 .. 0 : rpn'[i].symbol \in Operator} = {}
      OBVIOUS
    <3>. QED
      BY <2>2, <3>1, FS_EmptySet DEF Counted
  <2>4. OperatorsHaveTwo(pos - 1)'
    BY <2>2 DEF OperatorsHaveTwo
  <2>5. pos' <= Len(rpn') + 1
    BY <2>1
  <2>. QED
    BY <1>1, <2>1, <2>3, <2>4, <2>5 DEF StackIsCounted
<1>. QED
  BY <1>2, <1>3

\* The stack of Schedule stays below what validateRPN counted: an operator takes two from both
\* if there are two, and any other symbol takes operands from the one and adds to the other.
LEMMA ScheduleCounts ==
    TypeOK /\ StackIsCounted /\ (Schedule \/ ScheduleEnd) => StackIsCounted'
<1>. SUFFICES ASSUME TypeOK, StackIsCounted, Schedule \/ ScheduleEnd
              PROVE  StackIsCounted'
  OBVIOUS
<1>0. /\ phase = "schedule" /\ rpn' = rpn /\ depth' = depth
      /\ pos \in Nat \ {0} /\ rpn \in Seq(Token) /\ items \in Seq(Item)
      /\ pos <= Len(rpn) + 1 /\ Counted(Len(rpn)) = 1 /\ OperatorsHaveTwo(Len(rpn))
      /\ Len(items) <= Counted(pos - 1)
  BY DEF TypeOK, StackIsCounted, Schedule, ScheduleEnd
<1>1. CASE Schedule
  <2>1. phase' = "schedule" /\ pos' = pos + 1 /\ pos <= Len(rpn)
    BY <1>0, <1>1 DEF Schedule, Continue
  <2>2. /\ Counted(pos - 1) \in Int
        /\ Counted(pos) = IF rpn[pos].symbol \in Operator THEN Counted(pos - 1) - 1
                                                        ELSE Counted(pos - 1) + 1
    <3>1. pos - 1 \in Nat /\ (pos - 1) + 1 = pos
      BY <1>0
    <3>. QED
      BY <3>1, Counting
  <2>3. rpn[pos].symbol \in Operator => Counted(pos - 1) >= 2 /\ ~rpn[pos].isNumber
    <3>1. rpn[pos] \in Token /\ pos \in 1 .. Len(rpn)
      BY <1>0, <2>1
    <3>2. rpn[pos].isNumber => rpn[pos].symbol \notin Operator
      BY <3>1 DEF Token, Operator
    <3>. QED
      BY <1>0, <3>1, <3>2 DEF OperatorsHaveTwo
  <2>4. Len(items') <= Counted(pos)
    <3>1. CASE rpn[pos].isNumber
      <4>1. Len(items') = Len(items) + 1
        BY <1>1, <3>1, ScheduleNumber
      <4>. QED
        BY <1>0, <2>2, <2>3, <3>1, <4>1
    <3>2. CASE ~rpn[pos].isNumber
      <4>1. Len(items') = IF Len(items) < 2 THEN 1 ELSE Len(items) - 1
        BY <1>1, <3>2, ScheduleTask
      <4>2. Len(items) \in Nat
        BY <1>0
      <4>. QED
        BY <1>0, <2>2, <2>3, <4>1, <4>2
    <3>. QED
      BY <3>1, <3>2
  <2>5. /\ Counted(pos - 1)' = Counted(pos)
        /\ Counted(Len(rpn))' = Counted(Len(rpn))
        /\ OperatorsHaveTwo(Len(rpn))'
    <3>1. (pos - 1)' = pos
      BY <1>0, <2>1
    <3>. QED
      BY <1>0, <3>1 DEF Counted, OperatorsHaveTwo
  <2>6. pos' <= Len(rpn') + 1
    BY <1>0, <2>1
  <2>. QED
    BY <1>0, <2>1, <2>4, <2>5, <2>6 DEF StackIsCounted
<1>2. CASE ScheduleEnd
  <2>1. phase' = "scheduled" /\ items' = items /\ pos - 1 = Len(rpn)
    BY <1>0, <1>2 DEF ScheduleEnd, Goto
  <2>2. Len(items') <= 1
    BY <1>0, <2>1
  <2>. QED
    BY <2>1, <2>2 DEF StackIsCounted
<1>. QED
  BY <1>1, <1>2

\* Everything but Schedule leaves the plan and its stack alone, so the tree grows only there.
LEMMA TreeUnchanged ==
    OperandsComeEarlier /\ TakenOnce /\ UNCHANGED <<items, plan>>
        => OperandsComeEarlier' /\ TakenOnce'
<1>. SUFFICES ASSUME OperandsComeEarlier, TakenOnce, UNCHANGED <<items, plan>>
              PROVE  OperandsComeEarlier' /\ TakenOnce'
  OBVIOUS
<1>1. OperandsComeEarlier'
  BY DEF OperandsComeEarlier, ParentsOf
<1>2. \A i : TakersOf(i)' = TakersOf(i) /\ (OnStack(i)' <=> OnStack(i))
  BY DEF TakersOf, ParentsOf, OnStack
<1>. QED
  BY <1>1, <1>2 DEF TakenOnce

\* A pushed number is no task.
LEMMA NumberKeepsTree ==
    ASSUME TypeOK, OperandsComeEarlier, TakenOnce, Schedule, rpn[pos].isNumber
    PROVE  OperandsComeEarlier' /\ TakenOnce'
<1>1. /\ plan' = plan
      /\ items' \in Seq(Item) /\ Len(items') = Len(items) + 1
      /\ \A k \in 1 .. Len(items) : items'[k] = items[k]
      /\ items'[Len(items) + 1].task = 0
  BY ScheduleNumber
<1>2. plan \in Seq(PlannedTask) /\ items \in Seq(Item) /\ Len(items) \in Nat
  BY DEF TypeOK
<1>3. OperandsComeEarlier'
  BY <1>1 DEF OperandsComeEarlier, ParentsOf
<1>4. \A i \in DOMAIN plan : TakersOf(i)' = TakersOf(i)
  BY <1>1 DEF TakersOf, ParentsOf
<1>5. \A i \in DOMAIN plan : OnStack(i)' <=> OnStack(i)
  BY <1>1, <1>2 DEF OnStack
<1>6. \A k \in DOMAIN items' : items'[k].task <= Len(plan')
  BY <1>1, <1>2 DEF TakenOnce
<1>7. \A j, k \in DOMAIN items' :
          items'[j].task = items'[k].task /\ items'[j].task # 0 => j = k
  BY <1>1, <1>2 DEF TakenOnce
<1>8. \A i \in DOMAIN plan' : IF OnStack(i)' THEN TakersOf(i)' = {}
                                            ELSE \E c \in DOMAIN plan' : TakersOf(i)' = {c}
  BY <1>1, <1>4, <1>5 DEF TakenOnce
<1>. QED
  BY <1>3, <1>6, <1>7, <1>8 DEF TakenOnce

\* A new task takes what is on top of the stack, which nothing has taken, and nothing takes it.
LEMMA TaskKeepsTree ==
    ASSUME TypeOK, OperandsComeEarlier, TakenOnce, Schedule, ~rpn[pos].isNumber
    PROVE  OperandsComeEarlier' /\ TakenOnce'
<1>0. PICK n, h, l, r : /\ n = Len(plan) + 1 /\ h = Len(items)
                        /\ l = ItemFromTop(1).task /\ r = ItemFromTop(0).task
  OBVIOUS
<1>1. /\ plan' \in Seq(PlannedTask) /\ Len(plan') = n
      /\ \A i \in 1 .. Len(plan) : plan'[i] = plan[i]
      /\ plan'[n].left.task = l /\ plan'[n].right.task = r
      /\ items' \in Seq(Item)
      /\ Len(items') = IF h < 2 THEN 1 ELSE h - 1
      /\ \A k \in 1 .. Len(items') - 1 : items'[k] = items[k]
      /\ items'[Len(items')].task = n
  BY <1>0, ScheduleTask
<1>2. /\ plan \in Seq(PlannedTask) /\ items \in Seq(Item) /\ h \in Nat /\ Len(plan) \in Nat
      /\ n \in Nat /\ Len(plan) = n - 1
      /\ DOMAIN plan = 1 .. n - 1 /\ DOMAIN items = 1 .. h
      /\ DOMAIN plan' = 1 .. n /\ DOMAIN items' = 1 .. Len(items')
      /\ \A k \in 1 .. h : items[k].task \in Nat
  <2>1. plan \in Seq(PlannedTask) /\ items \in Seq(Item)
    BY DEF TypeOK
  <2>2. \A k \in 1 .. Len(items) : items[k] \in Item
    BY <2>1
  <2>3. \A k \in 1 .. Len(items) : items[k].task \in Nat
    BY <2>2 DEF Item
  <2>4. Len(plan) \in Nat /\ Len(items) \in Nat /\ Len(plan) = n - 1 /\ n \in Nat
    BY <1>0, <2>1
  <2>5. DOMAIN plan = 1 .. n - 1 /\ DOMAIN items = 1 .. h
    BY <1>0, <2>1, <2>4
  <2>6. DOMAIN plan' = 1 .. n /\ DOMAIN items' = 1 .. Len(items')
    <3>1. plan' \in Seq(PlannedTask) /\ Len(plan') = n /\ items' \in Seq(Item)
      BY <1>1
    <3>. QED
      BY <3>1
  <2>. QED
    BY <1>0, <2>1, <2>3, <2>4, <2>5, <2>6
<1>3. /\ r = IF h >= 1 THEN items[h].task ELSE 0
      /\ l = IF h >= 2 THEN items[h - 1].task ELSE 0
  BY <1>0, <1>2 DEF ItemFromTop, ZeroItem
<1>4. l \in 0 .. n - 1 /\ r \in 0 .. n - 1 /\ (l = r => l = 0)
  <2>1. ASSUME NEW k \in 1 .. h
        PROVE  items[k].task \in 0 .. n - 1
    <3>1. items[k].task <= Len(plan)
      BY <1>2 DEF TakenOnce
    <3>2. items[k].task \in Nat /\ Len(plan) = n - 1 /\ n \in Nat
      BY <1>2
    <3>. QED
      BY <3>1, <3>2
  <2>2. h >= 2 => (items[h - 1].task = items[h].task => items[h].task = 0)
    <3>1. h >= 2 => h \in DOMAIN items /\ h - 1 \in DOMAIN items /\ h # h - 1
      BY <1>2
    <3>. QED
      BY <3>1 DEF TakenOnce
  <2>. QED
    BY <1>2, <1>3, <2>1, <2>2
<1>. PICK m \in Nat : m = IF h < 2 THEN 0 ELSE h - 2
  BY <1>2
<1>m. /\ m <= h
      /\ Len(items') = m + 1 /\ DOMAIN items' = 1 .. m + 1
      /\ \A k \in 1 .. m : items'[k].task = items[k].task
      /\ items'[m + 1].task = n
  <2>1. m <= h /\ Len(items') = m + 1
    BY <1>1, <1>2
  <2>2. m + 1 - 1 = m
    OBVIOUS
  <2>. QED
    BY <1>1, <1>2, <2>1, <2>2
<1>5. \A i \in 1 .. n - 1 : ParentsOf(i)' = ParentsOf(i) /\ ParentsOf(i) \subseteq 1 .. i - 1
  <2>1. ASSUME NEW i \in 1 .. n - 1
        PROVE  /\ plan'[i] = plan[i]
               /\ plan[i].left.task \in Nat /\ plan[i].right.task \in Nat
    <3>1. plan[i] \in PlannedTask /\ plan'[i] = plan[i]
      BY <1>1, <1>2
    <3>. QED
      BY <3>1 DEF PlannedTask, Item
  <2>2. ASSUME NEW i \in 1 .. n - 1, NEW p \in ParentsOf(i)
        PROVE  p \in 1 .. i - 1
    <3>1. p < i
      BY <1>2, <2>2 DEF OperandsComeEarlier
    <3>2. p \in Nat /\ p # 0
      BY <2>1 DEF ParentsOf
    <3>. QED
      BY <3>1, <3>2
  <2>. QED
    BY <2>1, <2>2 DEF ParentsOf
<1>6. ParentsOf(n)' = {l, r} \ {0}
  BY <1>1 DEF ParentsOf
<1>7. OperandsComeEarlier'
  <2>1. ASSUME NEW i \in 1 .. n
        PROVE  /\ \A p \in ParentsOf(i)' : p < i
               /\ plan'[i].left.task = plan'[i].right.task => plan'[i].left.task = 0
    <3>1. CASE i = n
      <4>1. ParentsOf(i)' = {l, r} \ {0} /\ plan'[i].left.task = l /\ plan'[i].right.task = r
        BY <1>1, <1>6, <3>1
      <4>. QED
        BY <1>2, <1>4, <3>1, <4>1
    <3>2. CASE i \in 1 .. n - 1
      <4>1. plan'[i] = plan[i] /\ ParentsOf(i)' = ParentsOf(i) /\ i \in DOMAIN plan
        BY <1>1, <1>2, <1>5, <3>2
      <4>. QED
        BY <4>1 DEF OperandsComeEarlier
    <3>. QED
      BY <1>2, <3>1, <3>2
  <2>. QED
    BY <1>2, <2>1 DEF OperandsComeEarlier
<1>8. \A i \in 1 .. n :
          TakersOf(i)' = IF i \in {l, r} THEN TakersOf(i) \cup {n} ELSE TakersOf(i)
  <2>1. ASSUME NEW i \in 1 .. n, NEW d \in 1 .. n
        PROVE  d \in TakersOf(i)' <=> d \in TakersOf(i) \/ (d = n /\ i \in {l, r})
    <3>1. CASE d = n
      BY <1>2, <1>6, <3>1 DEF TakersOf
    <3>2. CASE d \in 1 .. n - 1
      BY <1>2, <1>5, <3>2 DEF TakersOf
    <3>. QED
      BY <1>2, <3>1, <3>2
  <2>2. \A i : TakersOf(i)' \subseteq 1 .. n /\ TakersOf(i) \subseteq 1 .. n - 1
    BY <1>2 DEF TakersOf
  <2>3. ASSUME NEW i \in 1 .. n
        PROVE  TakersOf(i)' = {d \in 1 .. n : d \in TakersOf(i) \/ (d = n /\ i \in {l, r})}
    BY <2>1, <2>2
  <2>4. n \in 1 .. n /\ 1 .. n - 1 \subseteq 1 .. n
    BY <1>2
  <2>5. \A i : TakersOf(i) \subseteq 1 .. n
    BY <1>2, <2>2, <2>4
  <2>. QED
    BY <2>3, <2>4, <2>5
<1>9. TakersOf(n) = {}
  BY <1>2, <1>5 DEF TakersOf
<1>10. /\ \A k \in 1 .. Len(items') : items'[k].task <= n
       /\ \A j, k \in 1 .. Len(items') :
              items'[j].task = items'[k].task /\ items'[j].task # 0 => j = k
  <2>1. /\ \A k \in 1 .. h : items[k].task \in 0 .. n - 1
        /\ \A j, k \in 1 .. h :
               items[j].task = items[k].task /\ items[j].task # 0 => j = k
    <3>1. \A k \in 1 .. h : items[k].task <= n - 1
      BY <1>2 DEF TakenOnce
    <3>2. \A j, k \in 1 .. h :
              items[j].task = items[k].task /\ items[j].task # 0 => j = k
      BY <1>2 DEF TakenOnce
    <3>. QED
      BY <1>2, <3>1, <3>2
  <2>4. \A k \in 1 .. m : k \in 1 .. h /\ items'[k].task \in 0 .. n - 1
    BY <1>2, <1>m, <2>1
  <2>5. \A k \in 1 .. m + 1 : items'[k].task <= n
    <3>1. \A k \in 1 .. m + 1 : k \in 1 .. m \/ k = m + 1
      OBVIOUS
    <3>. QED
      BY <1>2, <1>m, <2>4, <3>1
  <2>6. ASSUME NEW j \in 1 .. m + 1, NEW k \in 1 .. m + 1,
               items'[j].task = items'[k].task, items'[j].task # 0
        PROVE  j = k
    <3>1. \A q \in 1 .. m : items'[q].task # items'[m + 1].task
      BY <1>2, <1>m, <2>4
    <3>2. CASE j = m + 1 \/ k = m + 1
      BY <2>6, <3>1, <3>2
    <3>3. CASE j \in 1 .. m /\ k \in 1 .. m
      <4>1. j \in 1 .. h /\ k \in 1 .. h
        BY <2>4, <3>3
      <4>2. items[j].task = items[k].task /\ items[j].task # 0
        BY <1>m, <2>6, <3>3
      <4>. QED
        BY <2>1, <4>1, <4>2
    <3>. QED
      BY <3>2, <3>3
  <2>. QED
    BY <1>m, <2>5, <2>6
<1>11. ASSUME NEW i \in 1 .. n - 1
       PROVE  OnStack(i)' <=> OnStack(i) /\ i \notin {l, r}
  <2>2. OnStack(i)' <=> \E k \in 1 .. m : items[k].task = i
    <3>1. OnStack(i)' <=> \E k \in 1 .. m + 1 : items'[k].task = i
      BY <1>m DEF OnStack
    <3>2. items'[m + 1].task # i
      BY <1>2, <1>m
    <3>3. \A k : k \in 1 .. m + 1 <=> k \in 1 .. m \/ k = m + 1
      OBVIOUS
    <3>. QED
      BY <1>m, <3>1, <3>2, <3>3
  <2>3. OnStack(i) <=> \E k \in 1 .. h : items[k].task = i
    BY <1>2 DEF OnStack
  <2>4. \A j, k \in 1 .. h : items[j].task = items[k].task /\ items[j].task # 0 => j = k
    BY <1>2 DEF TakenOnce
  <2>5. ASSUME NEW k \in 1 .. m, items[k].task = i
        PROVE  i \notin {l, r}
    <3>1. h >= 2 /\ k \in 1 .. h /\ k # h /\ k # h - 1 /\ h \in 1 .. h /\ h - 1 \in 1 .. h
      BY <1>2
    <3>2. i # 0
      BY <1>2
    <3>. QED
      BY <1>3, <2>4, <2>5, <3>1, <3>2
  <2>6. ASSUME NEW k \in 1 .. h, items[k].task = i, i \notin {l, r}
        PROVE  k \in 1 .. m
    <3>1. (h >= 1 => k # h) /\ (h >= 2 => k # h - 1)
      BY <1>3, <2>6
    <3>. QED
      BY <1>2, <3>1
  <2>7. 1 .. m \subseteq 1 .. h
    BY <1>2, <1>m
  <2>. QED
    BY <2>2, <2>3, <2>5, <2>6, <2>7
<1>12. ASSUME NEW i \in 1 .. n - 1, i \in {l, r}
       PROVE  OnStack(i)
  <2>1. (h >= 1 /\ items[h].task = i) \/ (h >= 2 /\ items[h - 1].task = i)
    BY <1>2, <1>3, <1>12
  <2>2. h >= 1 => h \in DOMAIN items
    BY <1>2
  <2>3. h >= 2 => h - 1 \in DOMAIN items
    BY <1>2
  <2>. QED
    BY <2>1, <2>2, <2>3 DEF OnStack
<1>13. ASSUME NEW i \in 1 .. n
       PROVE  IF OnStack(i)' THEN TakersOf(i)' = {}
                             ELSE \E c \in DOMAIN plan' : TakersOf(i)' = {c}
  <2>1. CASE i = n
    <3>1. OnStack(n)'
      <4>1. Len(items') \in DOMAIN items'
        BY <1>1, <1>2
      <4>. QED
        BY <1>1, <4>1 DEF OnStack
    <3>2. TakersOf(n)' = {}
      BY <1>2, <1>4, <1>8, <1>9
    <3>. QED
      BY <2>1, <3>1, <3>2
  <2>2. CASE i \in 1 .. n - 1 /\ i \in {l, r}
    <3>1. TakersOf(i) = {}
      BY <1>2, <1>12, <2>2 DEF TakenOnce
    <3>2. TakersOf(i)' = {n} /\ ~OnStack(i)'
      BY <1>8, <1>11, <2>2, <3>1
    <3>3. n \in DOMAIN plan'
      BY <1>2
    <3>. QED
      BY <3>2, <3>3
  <2>3. CASE i \in 1 .. n - 1 /\ i \notin {l, r}
    <3>1. TakersOf(i)' = TakersOf(i) /\ (OnStack(i)' <=> OnStack(i))
      BY <1>8, <1>11, <2>3
    <3>2. DOMAIN plan \subseteq DOMAIN plan'
      BY <1>2
    <3>3. IF OnStack(i) THEN TakersOf(i) = {} ELSE \E c \in DOMAIN plan : TakersOf(i) = {c}
      BY <1>2, <2>3 DEF TakenOnce
    <3>4. CASE OnStack(i)
      BY <3>1, <3>3, <3>4
    <3>5. CASE ~OnStack(i)
      <4>1. PICK c \in DOMAIN plan : TakersOf(i) = {c}
        BY <3>3, <3>5
      <4>. QED
        BY <3>1, <3>2, <3>5, <4>1
    <3>. QED
      BY <3>4, <3>5
  <2>. QED
    BY <1>2, <2>1, <2>2, <2>3
<1>. QED
  BY <1>1, <1>2, <1>7, <1>10, <1>13 DEF TakenOnce

-----------------------------------------------------------------------------
LEMMA InitInv == Init => IInv
<1>. SUFFICES ASSUME Init
              PROVE  IInv
  OBVIOUS
<1>1. TypeOK
  BY InitType
<1>2. StackIsCounted
  BY DEF Init, StackIsCounted
<1>3. OperandsComeEarlier /\ TakenOnce
  BY DEF Init, OperandsComeEarlier, TakenOnce
<1>. QED
  BY <1>1, <1>2, <1>3 DEF IInv

LEMMA NextInv == IInv /\ [Next]_vars => IInv'
<1>. SUFFICES ASSUME IInv, [Next]_vars
              PROVE  IInv'
  OBVIOUS
<1>1. TypeOK /\ StackIsCounted /\ OperandsComeEarlier /\ TakenOnce
  BY DEF IInv
<1>2. TypeOK'
  BY <1>1, NextType
<1>3. CASE TokenizeChar \/ TokenizeEnd \/ ToRPN \/ ToRPNEnd
  <2>1. UNCHANGED <<items, plan>>
    BY <1>3 DEF TokenizeChar, TokenizeEnd, ToRPN, ToRPNEnd
  <2>. QED
    BY <1>1, <1>2, <1>3, <2>1, EarlierStepsCount, TreeUnchanged DEF IInv
<1>4. CASE Validate \/ ValidateEnd
  <2>1. UNCHANGED <<items, plan>>
    BY <1>4 DEF Validate, ValidateEnd
  <2>. QED
    BY <1>1, <1>2, <1>4, <2>1, ValidateCounts, TreeUnchanged DEF IInv
<1>5. CASE Schedule
  <2>1. OperandsComeEarlier' /\ TakenOnce'
    BY <1>1, <1>5, NumberKeepsTree, TaskKeepsTree
  <2>. QED
    BY <1>1, <1>2, <1>5, <2>1, ScheduleCounts DEF IInv
<1>6. CASE ScheduleEnd
  <2>1. UNCHANGED <<items, plan>>
    BY <1>6 DEF ScheduleEnd
  <2>. QED
    BY <1>1, <1>2, <1>6, <2>1, ScheduleCounts, TreeUnchanged DEF IInv
<1>7. CASE UNCHANGED vars
  <2>1. UNCHANGED <<items, plan>>
    BY <1>7 DEF vars
  <2>2. StackIsCounted'
    BY <1>1, <1>7 DEF StackIsCounted, Counted, OperatorsHaveTwo, vars
  <2>. QED
    BY <1>1, <1>2, <2>1, <2>2, TreeUnchanged DEF IInv
<1>. QED
  BY <1>3, <1>4, <1>5, <1>6, <1>7 DEF Next, Returned

\* The inductive invariant of the compiler: validateRPN counts an evaluation, the stack of
\* Schedule is never higher, and a task is on it until it is taken, once.
THEOREM Invariance == Spec => []IInv
<1>1. Init => IInv
  BY InitInv
<1>2. IInv /\ [Next]_vars => IInv'
  BY NextInv
<1>. QED
  BY <1>1, <1>2, PTL DEF Spec

\* Every variable of Parse and Schedule keeps its type.  In particular the zero Token, which
\* SafePop of an empty stack gives, is nowhere, and no task has it for an operation.
THEOREM TypeCorrectness == Spec => []TypeOK
<1>1. IInv => TypeOK
  BY DEF IInv
<1>. QED
  BY <1>1, Invariance, PTL

\* When Schedule returns there is at most one operand on its stack, and that is the last task:
\* every other task has been taken, by exactly one.
LEMMA TakenByOne ==
    IInv /\ phase = "scheduled" =>
        /\ OperandsComeEarlier
        /\ \A i \in DOMAIN plan : i < Len(plan) => \E c \in DOMAIN plan : TakersOf(i) = {c}
<1>. SUFFICES ASSUME IInv, phase = "scheduled"
              PROVE  /\ OperandsComeEarlier
                     /\ \A i \in DOMAIN plan :
                            i < Len(plan) => \E c \in DOMAIN plan : TakersOf(i) = {c}
  OBVIOUS
<1>1. /\ OperandsComeEarlier /\ TakenOnce /\ Len(items) <= 1
      /\ plan \in Seq(PlannedTask) /\ items \in Seq(Item)
  BY DEF IInv, StackIsCounted, TypeOK
<1>2. ASSUME NEW i \in DOMAIN plan, i < Len(plan), OnStack(i)
      PROVE  FALSE
  <2>. DEFINE n == Len(plan)
  <2>1. n \in DOMAIN plan /\ n \in Nat /\ DOMAIN plan = 1 .. n
    BY <1>1, <1>2
  <2>2. TakersOf(n) = {}
    <3>1. ASSUME NEW d \in TakersOf(n)
          PROVE  FALSE
      <4>1. d \in 1 .. n /\ n < d
        BY <1>1, <2>1, <3>1 DEF TakersOf, OperandsComeEarlier
      <4>. QED
        BY <2>1, <4>1
    <3>. QED
      BY <3>1
  <2>3. OnStack(n)
    BY <1>1, <2>1, <2>2 DEF TakenOnce
  <2>4. PICK j, k \in DOMAIN items : items[j].task = i /\ items[k].task = n
    BY <1>2, <2>3 DEF OnStack
  <2>5. j = k
    BY <1>1
  <2>. QED
    BY <1>1, <1>2, <2>1, <2>4, <2>5
<1>. QED
  BY <1>1, <1>2 DEF TakenOnce

\* So the columns that Calculate stores are those of a tree, which the last task is the root of.
LEMMA InvTree == IInv => PlanIsATree
<1>. SUFFICES ASSUME IInv, phase = "scheduled", plan # <<>>
              PROVE  Compiled!PlansAreTrees
  BY DEF PlanIsATree
<1>. DEFINE n == Len(plan)
            T == DOMAIN plan
            left == [i \in T |-> plan[i].left.task]
            right == [i \in T |-> plan[i].right.task]
            remaining == [i \in T |-> n - i]
            children(t) == {c \in T : left[c] = t \/ right[c] = t}
<1>1. /\ plan \in Seq(PlannedTask) /\ n \in Nat \ {0} /\ T = 1 .. n
  BY DEF IInv, TypeOK
<1>2. ASSUME NEW i \in T
      PROVE  /\ i \in 1 .. n
             /\ plan[i].left.task \in Nat /\ plan[i].right.task \in Nat
             /\ left[i] = plan[i].left.task /\ right[i] = plan[i].right.task
             /\ i < n => \E c \in T : TakersOf(i) = {c}
             /\ \A p \in ParentsOf(i) : p < i
             /\ left[i] = right[i] => left[i] = 0
  <2>1. plan[i] \in PlannedTask
    BY <1>1
  <2>2. plan[i].left \in Item /\ plan[i].right \in Item
    BY <2>1 DEF PlannedTask
  <2>. QED
    BY <1>1, <2>2, TakenByOne DEF OperandsComeEarlier, Item
<1>3. ASSUME NEW t \in T
      PROVE  /\ children(t) = TakersOf(t)
             /\ \A c \in children(t) : t < c
  <2>1. t # 0
    BY <1>2
  <2>2. children(t) = TakersOf(t)
    BY <1>2, <2>1 DEF TakersOf, ParentsOf
  <2>. QED
    BY <1>2, <2>2 DEF TakersOf
<1>4. ASSUME NEW t \in T
      PROVE  IF t = n THEN children(t) = {} ELSE \E c \in T : children(t) = {c}
  <2>. HIDE DEF children, left, right
  <2>1. CASE t = n
    <3>1. ASSUME NEW c \in children(t)
          PROVE  FALSE
      <4>1. c \in T
        BY DEF children
      <4>. QED
        BY <1>1, <1>2, <1>3, <2>1, <4>1
    <3>. QED
      BY <2>1, <3>1
  <2>2. CASE t # n
    <3>1. t < n
      BY <1>1, <1>2, <2>2
    <3>2. PICK c \in T : TakersOf(t) = {c}
      BY <1>2, <3>1
    <3>. QED
      BY <1>3, <2>2, <3>2
  <2>. QED
    BY <2>1, <2>2
<1>5. left \in [T -> T \cup {0}] /\ right \in [T -> T \cup {0}]
  <2>1. ASSUME NEW i \in T
        PROVE  left[i] \in T \cup {0} /\ right[i] \in T \cup {0}
    <3>1. /\ left[i] # 0 => left[i] < i
          /\ right[i] # 0 => right[i] < i
      BY <1>2 DEF ParentsOf
    <3>2. left[i] \in Nat /\ right[i] \in Nat /\ i \in 1 .. n
      BY <1>2
    <3>. HIDE DEF left, right, T, n
    <3>. QED
      BY <1>1, <3>1, <3>2
  <2>. QED
    BY <2>1
<1>6. /\ 0 \notin T
      /\ remaining \in [T -> Nat]
      /\ \A t \in T : \A c \in children(t) : remaining[c] < remaining[t]
  <2>1. \A t \in T : remaining[t] = n - t
    OBVIOUS
  <2>2. \A t \in T : t \in 1 .. n
    BY <1>2
  <2>3. ASSUME NEW t \in T, NEW c \in children(t)
        PROVE  remaining[c] < remaining[t]
    <3>1. c \in T /\ t < c
      BY <1>3
    <3>. HIDE DEF remaining, children, n, T
    <3>. QED
      BY <1>1, <2>1, <2>2, <3>1
  <2>. QED
    BY <1>1, <2>1, <2>2, <2>3
<1>7. /\ IsFiniteSet(T)
      /\ \A t \in T : remaining[t] < Cardinality(T)
  <2>1. IsFiniteSet(1 .. n) /\ Cardinality(1 .. n) = n
    BY <1>1, FS_Interval
  <2>2. \A t \in T : remaining[t] = n - t /\ t \in 1 .. n
    BY <1>2
  <2>. HIDE DEF remaining, n, T
  <2>. QED
    BY <1>1, <2>1, <2>2
<1>8. \A t \in T : {u \in T : [i \in T |-> input][u] = [i \in T |-> input][t]} = T
  OBVIOUS
<1>9. \A S : /\ Compiled!IsFiniteSet(S) <=> IsFiniteSet(S)
             /\ Compiled!Cardinality(S) = Cardinality(S)
  BY DEF Compiled!IsFiniteSet, IsFiniteSet, Compiled!Cardinality, Cardinality
<1>10. \A t \in T :
          LET tree == {u \in T : [i \in T |-> input][u] = [i \in T |-> input][t]}
          IN  Compiled!IsFiniteSet(tree) /\ remaining[t] < Compiled!Cardinality(tree)
  BY <1>7, <1>8, <1>9
<1>11. /\ \A t \in T : \A c, d \in children(t) : c = d
       /\ n \in T
       /\ \A s \in T : children(s) = {} => s = n
  <2>. HIDE DEF children, n
  <2>1. n \in T
    BY <1>1
  <2>2. \A s \in T : children(s) = {} => s = n
    BY <1>4
  <2>3. \A t \in T : \A c, d \in children(t) : c = d
    BY <1>4
  <2>. QED
    BY <2>1, <2>2, <2>3
<1>. QED
  BY <1>2, <1>4, <1>5, <1>6, <1>10, <1>11
  DEF Compiled!PlansAreTrees, Compiled!ChildrenOf, Compiled!IsFinal

\* For every string that Parse accepts, the plan that Schedule returns is what PlanAssumption says
\* of the plans that are stored.  CreateExpression and FinishTask rely on it without a check.
THEOREM PlansAreTrees == Spec => []PlanIsATree
<1>1. IInv => PlanIsATree
  BY InvTree
<1>. QED
  BY <1>1, Invariance, PTL
=============================================================================
