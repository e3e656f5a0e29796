------------------------ MODULE ShuntingYardTheorems -------------------------
(***************************************************************************)
(* That the two stacks of the compiler compute what ShuntingYard states in  *)
(* closed form, for every string.                                           *)
(***************************************************************************)
EXTENDS ShuntingYard, CalcTheorems

(***************************************************************************)
(* Positions of tokens: levels of parentheses and ends of operands.         *)
(***************************************************************************)
\* Counting the positions up to n, one at a time.
LEMMA CountingUp ==
    ASSUME NEW S, NEW n \in Nat
    PROVE  /\ IsFiniteSet((1 .. n) \cap S) /\ Cardinality((1 .. n) \cap S) \in Nat
           /\ Cardinality((1 .. 0) \cap S) = 0
           /\ Cardinality((1 .. n + 1) \cap S) =
                  IF n + 1 \in S THEN Cardinality((1 .. n) \cap S) + 1
                                 ELSE Cardinality((1 .. n) \cap S)
<1>1. IsFiniteSet((1 .. n) \cap S)
  <2>1. IsFiniteSet(1 .. n) /\ (1 .. n) \cap S \subseteq 1 .. n
    BY FS_Interval
  <2>. QED
    BY <2>1, FS_Subset, Zenon
<1>2. (1 .. 0) \cap S = {}
  OBVIOUS
<1>3. n + 1 \in S => /\ (1 .. n + 1) \cap S = ((1 .. n) \cap S) \cup {n + 1}
                     /\ n + 1 \notin (1 .. n) \cap S
  OBVIOUS
<1>4. n + 1 \notin S => (1 .. n + 1) \cap S = (1 .. n) \cap S
  OBVIOUS
<1>. QED
  BY <1>1, <1>2, <1>3, <1>4, FS_CardinalityType, FS_EmptySet, FS_AddElement

\* A parenthesis opens a level or closes one, and no other token does.
LEMMA Levels ==
    /\ Level(0) = 0
    /\ \A n \in Nat : Level(n) \in Int
    /\ \A n \in Nat \ {0} :
           Level(n) = IF tokens[n].symbol = "(" THEN Level(n - 1) + 1
                      ELSE IF tokens[n].symbol = ")" THEN Level(n - 1) - 1
                      ELSE Level(n - 1)
<1>. DEFINE Opening == {i \in Nat : tokens[i].symbol = "("}
            Closing == {i \in Nat : tokens[i].symbol = ")"}
            Opened(n) == Cardinality((1 .. n) \cap Opening)
            Closed(n) == Cardinality((1 .. n) \cap Closing)
<1>1. ASSUME NEW n \in Nat
      PROVE  Level(n) = Opened(n) - Closed(n)
  <2>1. /\ {i \in 1 .. n : tokens[i].symbol = "("} = (1 .. n) \cap Opening
        /\ {i \in 1 .. n : tokens[i].symbol = ")"} = (1 .. n) \cap Closing
    OBVIOUS
  <2>. QED
    BY <2>1 DEF Level
<1>2. ASSUME NEW n \in Nat
      PROVE  /\ Opened(n) \in Nat /\ Opened(0) = 0
             /\ Opened(n + 1) = IF tokens[n + 1].symbol = "(" THEN Opened(n) + 1 ELSE Opened(n)
  <2>1. n + 1 \in Opening <=> tokens[n + 1].symbol = "("
    OBVIOUS
  <2>. HIDE DEF Opening
  <2>. QED
    BY <2>1, CountingUp, Zenon
<1>3. ASSUME NEW n \in Nat
      PROVE  /\ Closed(n) \in Nat /\ Closed(0) = 0
             /\ Closed(n + 1) = IF tokens[n + 1].symbol = ")" THEN Closed(n) + 1 ELSE Closed(n)
  <2>1. n + 1 \in Closing <=> tokens[n + 1].symbol = ")"
    OBVIOUS
  <2>. HIDE DEF Closing
  <2>. QED
    BY <2>1, CountingUp, Zenon
<1>. HIDE DEF Opened, Closed
<1>4. ASSUME NEW n \in Nat
      PROVE  /\ Level(0) = 0 /\ Level(n) \in Int
             /\ Level(n + 1) = IF tokens[n + 1].symbol = "(" THEN Level(n) + 1
                               ELSE IF tokens[n + 1].symbol = ")" THEN Level(n) - 1
                               ELSE Level(n)
  <2>1. Level(n + 1) = Opened(n + 1) - Closed(n + 1) /\ Level(0) = Opened(0) - Closed(0)
    BY <1>1
  <2>2. Opened(0) = 0 /\ Closed(0) = 0 /\ Opened(n) \in Nat /\ Closed(n) \in Nat
    BY <1>2, <1>3
  <2>3. Level(0) = 0 /\ Level(n) = Opened(n) - Closed(n) /\ Level(n) \in Int
    BY <1>1, <2>1, <2>2
  <2>4. CASE tokens[n + 1].symbol = "("
    <3>1. tokens[n + 1].symbol # ")"
      BY <2>4
    <3>2. Opened(n + 1) = Opened(n) + 1 /\ Closed(n + 1) = Closed(n)
      BY <1>2, <1>3, <2>4, <3>1
    <3>. QED
      BY <2>1, <2>2, <2>3, <2>4, <3>2
  <2>5. CASE tokens[n + 1].symbol # "("
    <3>1. Opened(n + 1) = Opened(n)
      BY <1>2, <2>5
    <3>. QED
      BY <1>3, <2>1, <2>2, <2>3, <2>5, <3>1
  <2>. QED
    BY <2>4, <2>5
<1>5. ASSUME NEW n \in Nat \ {0}
      PROVE  n - 1 \in Nat /\ (n - 1) + 1 = n
  OBVIOUS
<1>. QED
  BY <1>4, <1>5

LEMMA Precedences ==
    /\ \A s : Precedence(s) \in Nat /\ (Precedence(s) = 0 <=> s \notin Operator)
    /\ {"(", ")", ""} \cap Operator = {}
BY DEF Precedence, Operator

\* The end of an operand is the first token that ends it, or lies behind the last one.
LEMMA EndFacts ==
    ASSUME tokens \in Seq(Token), NEW q \in DOMAIN tokens
    PROVE  /\ End(q) \in q + 1 .. Len(tokens) + 1
           /\ End(q) <= Len(tokens) => Ends(End(q), q)
           /\ \A p \in q + 1 .. Len(tokens) : Ends(p, q) => End(q) <= p
<1>. DEFINE L == Len(tokens)
            T == {p \in q + 1 .. L + 1 : p = L + 1 \/ Ends(p, q)}
<1>1. L \in Nat /\ q \in 1 .. L /\ T \subseteq Nat /\ L + 1 \in T
  OBVIOUS
<1>2. \E x \in T : \A y \in T : x <= y
  <2>1. PICK x \in T : \A y \in T : ~(y < x)
    <3>. HIDE DEF T
    <3>. QED
      BY <1>1, LeastNatural, Zenon
  <2>2. \A y \in T : x <= y
    BY <1>1, <2>1
  <2>. QED
    BY <2>2
<1>3. Min(T) \in T /\ \A y \in T : Min(T) <= y
  <2>. HIDE DEF T
  <2>. QED
    BY <1>2 DEF Min
<1>4. End(q) = Min(T)
  BY DEF End
<1>. HIDE DEF L
<1>5. End(q) \in T /\ \A y \in T : End(q) <= y
  BY <1>3, <1>4
<1>6. End(q) \in q + 1 .. L + 1 /\ (End(q) = L + 1 \/ Ends(End(q), q))
  BY <1>5
<1>7. \A p \in q + 1 .. L : Ends(p, q) => p \in T
  BY <1>1
<1>. QED
  BY <1>1, <1>5, <1>6, <1>7 DEF L

LEMMA TokenFacts ==
    ASSUME tokens \in Seq(Token), NEW q \in DOMAIN tokens
    PROVE  /\ tokens[q] \in Token /\ tokens[q].isNumber \in BOOLEAN
           /\ tokens[q].isNumber => tokens[q].symbol = ""
<1>1. tokens[q] \in Token
  OBVIOUS
<1>. QED
  BY <1>1 DEF Token

\* A number is emitted where it stands, and anything else behind it.
LEMMA WhenFacts ==
    ASSUME tokens \in Seq(Token), NEW q \in DOMAIN tokens
    PROVE  /\ tokens[q].isNumber => When[q] = q /\ q \in Emitted
           /\ ~tokens[q].isNumber => When[q] \in q + 1 .. Len(tokens) + 1
           /\ When[q] \in q .. Len(tokens) + 1
<1>1. Len(tokens) \in Nat /\ q \in 1 .. Len(tokens)
  OBVIOUS
<1>2. When[q] = IF tokens[q].isNumber THEN q ELSE End(q)
  BY DEF When
<1>3. End(q) \in q + 1 .. Len(tokens) + 1
  BY EndFacts
<1>4. tokens[q].isNumber => q \in Emitted
  BY TokenFacts DEF Emitted, IsPaired
<1>. QED
  BY <1>1, <1>2, <1>3, <1>4

\* What has not been emitted before token p is emitted there if that ends it.
LEMMA EmittedAtEnd ==
    ASSUME tokens \in Seq(Token), NEW q \in DOMAIN tokens, ~tokens[q].isNumber,
           NEW p \in q + 1 .. Len(tokens), When[q] >= p
    PROVE  When[q] = p <=> Ends(p, q)
<1>1. When[q] = End(q)
  BY DEF When
<1>2. Len(tokens) \in Nat /\ q \in 1 .. Len(tokens) /\ End(q) \in Int
  BY EndFacts
<1>3. Ends(p, q) => End(q) <= p
  BY EndFacts
<1>4. End(q) = p => Ends(p, q)
  <2>1. End(q) <= Len(tokens) => Ends(End(q), q)
    BY EndFacts
  <2>. QED
    BY <1>2, <2>1
<1>. QED
  BY <1>1, <1>2, <1>3, <1>4

-----------------------------------------------------------------------------
(***************************************************************************)
(* The invariant of toRPN.  Before token p, the result lists what ends      *)
(* before p, in order, and the stack holds what does not, in the order of   *)
(* the string; there, an item is weaker than what lies above it within the  *)
(* same parentheses.                                                        *)
(***************************************************************************)
Earlier(q, r) == When[q] < When[r] \/ (When[q] = When[r] /\ q > r)

Listed(list, p, src) ==
    /\ src \in [1 .. Len(list) -> DOMAIN tokens]
    /\ \A k \in 1 .. Len(list) : list[k] = tokens[src[k]]
    /\ \A j, k \in 1 .. Len(list) : j < k => Earlier(src[j], src[k])
    /\ \A q \in DOMAIN tokens :
           (\E k \in 1 .. Len(list) : src[k] = q) <=> q \in Emitted /\ When[q] < p

IsStacked(q, p) ==
    /\ q < p /\ When[q] >= p
    /\ ~tokens[q].isNumber /\ tokens[q].symbol # ")"

Stacked(stack, p, at) ==
    /\ at \in [1 .. Len(stack) -> DOMAIN tokens]
    /\ \A j \in 1 .. Len(stack) : stack[j] = tokens[at[j]]
    /\ \A i, j \in 1 .. Len(stack) : i < j => at[i] < at[j]
    /\ \A q \in DOMAIN tokens : (\E j \in 1 .. Len(stack) : at[j] = q) <=> IsStacked(q, p)

OpenIn(stack, j) == Cardinality({i \in j + 1 .. Len(stack) : stack[i].symbol = "("})

Nested(stack, p, at) ==
    /\ \A j \in 1 .. Len(stack) : Level(p - 1) = Level(at[j]) + OpenIn(stack, j)
    /\ \A i, j \in 1 .. Len(stack) :
           i < j /\ (\A m \in i + 1 .. j : stack[m].symbol # "(")
               => Precedence(stack[i].symbol) < Precedence(stack[j].symbol)

YardAt(list, stack, p) ==
    /\ \E src : Listed(list, p, src)
    /\ \E at : Stacked(stack, p, at) /\ Nested(stack, p, at)

Converted == phase \in {"validate", "schedule", "scheduled"}

Yard ==
    /\ phase = "tokenize" => ops = <<>> /\ rpn = <<>>
    /\ phase = "toRPN" => pos <= Len(tokens) + 1 /\ YardAt(rpn, ops, pos)
    /\ Converted => \E src : Listed(rpn, Len(tokens) + 2, src)

-----------------------------------------------------------------------------
LEMMA ConcatFacts ==
    ASSUME NEW S, NEW s \in Seq(S), NEW t \in Seq(S)
    PROVE  /\ s \o t \in Seq(S) /\ Len(s \o t) = Len(s) + Len(t)
           /\ \A i \in 1 .. Len(s) : (s \o t)[i] = s[i]
           /\ \A i \in Len(s) + 1 .. Len(s) + Len(t) : (s \o t)[i] = t[i - Len(s)]
OBVIOUS

LEMMA PoppedAt ==
    ASSUME ops \in Seq(Token), NEW k \in 0 .. Len(ops)
    PROVE  /\ Popped(k) \in Seq(Token) /\ Len(Popped(k)) = Len(ops) - k
           /\ \A i \in 1 .. Len(ops) - k : Popped(k)[i] = ops[Len(ops) + 1 - i]
<1>. DEFINE s == SubSeq(ops, k + 1, Len(ops))
<1>1. s \in Seq(Token) /\ Len(s) = Len(ops) - k /\ \A i \in 1 .. Len(ops) - k : s[i] = ops[k + i]
  OBVIOUS
<1>2. Popped(k) \in Seq(Token)
  BY PoppedType
<1>3. Popped(k) = [i \in 1 .. Len(s) |-> s[(Len(s) - i) + 1]]
  BY DEF Popped, Reverse
<1>. HIDE DEF s
<1>4. Len(ops) - k \in Nat
  OBVIOUS
<1>5. Len(Popped(k)) = Len(ops) - k
  BY <1>1, <1>2, <1>3, <1>4
<1>6. ASSUME NEW i \in 1 .. Len(ops) - k
      PROVE  Popped(k)[i] = ops[Len(ops) + 1 - i]
  <2>1. (Len(s) - i) + 1 \in 1 .. Len(ops) - k /\ k + ((Len(s) - i) + 1) = Len(ops) + 1 - i
    BY <1>1, <1>4
  <2>2. Popped(k)[i] = s[(Len(s) - i) + 1]
    BY <1>1, <1>3
  <2>. QED
    BY <1>1, <2>1, <2>2
<1>. QED
  BY <1>2, <1>5, <1>6

\* A loop that pops what ends at token p, and is not dropped, appends it in the right order.
LEMMA ListPopped ==
    ASSUME tokens \in Seq(Token), rpn \in Seq(Token), ops \in Seq(Token), NEW p \in Nat,
           NEW src, Listed(rpn, p, src), NEW at, Stacked(ops, p, at),
           NEW k \in 0 .. Len(ops),
           \A j \in 1 .. Len(ops) : j > k <=> at[j] \in Emitted /\ When[at[j]] = p,
           p \in DOMAIN tokens => ~tokens[p].isNumber
    PROVE  Listed(rpn \o Popped(k), p + 1,
                  [i \in 1 .. Len(rpn) + (Len(ops) - k) |->
                      IF i <= Len(rpn) THEN src[i] ELSE at[Len(ops) + 1 - (i - Len(rpn))]])
<1>. DEFINE n == Len(rpn)
            h == Len(ops)
            new == [i \in 1 .. n + (h - k) |-> IF i <= n THEN src[i] ELSE at[h + 1 - (i - n)]]
            list == rpn \o Popped(k)
<1>1. n \in Nat /\ h \in Nat /\ k \in Nat /\ k <= h /\ h - k \in Nat
  OBVIOUS
<1>2. /\ list \in Seq(Token) /\ Len(list) = n + (h - k)
      /\ \A i \in 1 .. n : list[i] = rpn[i]
      /\ \A i \in n + 1 .. n + (h - k) : list[i] = Popped(k)[i - n]
  <2>1. Popped(k) \in Seq(Token) /\ Len(Popped(k)) = h - k
    BY PoppedAt
  <2>. QED
    BY <2>1, ConcatFacts
<1>3. ASSUME NEW i \in 1 .. n
      PROVE  list[i] = rpn[i] /\ new[i] = src[i] /\ i \in 1 .. n + (h - k)
  <2>2. list[i] = rpn[i] /\ i \in 1 .. n + (h - k)
    BY <1>1, <1>2
  <2>. HIDE DEF n, h
  <2>. QED
    BY <1>1, <2>2
<1>4. ASSUME NEW i \in n + 1 .. n + (h - k)
      PROVE  /\ h + 1 - (i - n) \in k + 1 .. h
             /\ list[i] = ops[h + 1 - (i - n)] /\ new[i] = at[h + 1 - (i - n)]
             /\ i \in 1 .. n + (h - k) /\ i > n
  <2>1. i - n \in 1 .. h - k /\ h + 1 - (i - n) \in k + 1 .. h /\ i \in 1 .. n + (h - k)
    BY <1>1
  <2>2. list[i] = Popped(k)[i - n]
    BY <1>2
  <2>3. Popped(k)[i - n] = ops[h + 1 - (i - n)]
    BY <2>1, PoppedAt
  <2>4. new[i] = at[h + 1 - (i - n)]
    <3>. HIDE DEF n, h
    <3>. QED
      BY <1>1, <2>1
  <2>. QED
    BY <1>1, <2>1, <2>2, <2>3, <2>4
<1>5. new \in [1 .. n + (h - k) -> DOMAIN tokens]
  <2>1. ASSUME NEW i \in 1 .. n + (h - k)
        PROVE  (IF i <= n THEN src[i] ELSE at[h + 1 - (i - n)]) \in DOMAIN tokens
    <3>1. CASE i <= n
      BY <1>1, <3>1 DEF Listed
    <3>2. CASE ~(i <= n)
      <4>1. i \in n + 1 .. n + (h - k)
        BY <1>1, <3>2
      <4>2. h + 1 - (i - n) \in 1 .. h
        BY <1>1, <1>4, <4>1
      <4>. QED
        BY <3>2, <4>2 DEF Stacked
    <3>. QED
      BY <3>1, <3>2
  <2>. QED
    BY <2>1
<1>6. \A i \in 1 .. n + (h - k) : i \in 1 .. n \/ i \in n + 1 .. n + (h - k)
  BY <1>1
<1>. HIDE DEF new, list, n, h
<1>7. \A i \in 1 .. n : src[i] \in DOMAIN tokens /\ When[src[i]] < p /\ src[i] \in Emitted
  BY DEF Listed, n
<1>8. \A j \in k + 1 .. h : /\ j \in 1 .. h /\ at[j] \in DOMAIN tokens
                            /\ When[at[j]] = p /\ at[j] \in Emitted
  <2>1. \A j \in k + 1 .. h : j \in 1 .. h /\ j > k
    BY <1>1
  <2>2. \A j \in 1 .. h : at[j] \in DOMAIN tokens
    BY DEF Stacked, h
  <2>. QED
    BY <2>1, <2>2 DEF h
<1>9. \A i \in 1 .. n + (h - k) : list[i] = tokens[new[i]]
  <2>1. \A i \in 1 .. n : rpn[i] = tokens[src[i]]
    BY DEF Listed, n
  <2>2. \A j \in k + 1 .. h : ops[j] = tokens[at[j]]
    BY <1>8 DEF Stacked, h
  <2>3. ASSUME NEW i \in 1 .. n + (h - k)
        PROVE  list[i] = tokens[new[i]]
    <3>1. CASE i \in 1 .. n
      BY <1>3, <2>1, <3>1
    <3>2. CASE i \in n + 1 .. n + (h - k)
      <4>1. /\ h + 1 - (i - n) \in k + 1 .. h
            /\ list[i] = ops[h + 1 - (i - n)] /\ new[i] = at[h + 1 - (i - n)]
        BY <1>4, <3>2
      <4>. QED
        BY <2>2, <4>1
    <3>. QED
      BY <1>6, <3>1, <3>2
  <2>. QED
    BY <2>3
<1>10. ASSUME NEW i \in 1 .. n + (h - k), NEW j \in 1 .. n + (h - k), i < j
       PROVE  Earlier(new[i], new[j])
  <2>1. CASE i \in 1 .. n /\ j \in 1 .. n
    <3>1. Earlier(src[i], src[j])
      BY <1>10, <2>1 DEF Listed, n
    <3>. QED
      BY <1>3, <2>1, <3>1
  <2>2. CASE i \in 1 .. n /\ j \in n + 1 .. n + (h - k)
    <3>1. When[new[i]] < p
      <4>1. new[i] = src[i]
        BY <1>3, <2>2
      <4>. QED
        BY <1>7, <2>2, <4>1
    <3>2. When[new[j]] = p
      <4>1. h + 1 - (j - n) \in k + 1 .. h /\ new[j] = at[h + 1 - (j - n)]
        BY <1>4, <2>2
      <4>. QED
        BY <1>8, <4>1
    <3>. QED
      BY <3>1, <3>2 DEF Earlier
  <2>3. CASE i \in n + 1 .. n + (h - k) /\ j \in n + 1 .. n + (h - k)
    <3>1. h + 1 - (j - n) < h + 1 - (i - n)
      BY <1>1, <1>10
    <3>2. at[h + 1 - (j - n)] < at[h + 1 - (i - n)]
      BY <1>4, <1>8, <2>3, <3>1 DEF Stacked, h
    <3>3. When[new[i]] = p /\ When[new[j]] = p /\ new[i] > new[j]
      <4>1. \A m \in k + 1 .. h : at[m] \in Nat
        BY <1>8
      <4>2. /\ h + 1 - (i - n) \in k + 1 .. h /\ h + 1 - (j - n) \in k + 1 .. h
            /\ new[i] = at[h + 1 - (i - n)] /\ new[j] = at[h + 1 - (j - n)]
        BY <1>4, <2>3
      <4>3. at[h + 1 - (i - n)] \in Nat /\ at[h + 1 - (j - n)] \in Nat
        BY <4>1, <4>2
      <4>. QED
        BY <1>8, <3>2, <4>2, <4>3
    <3>. QED
      BY <3>3 DEF Earlier
  <2>4. CASE i \in n + 1 .. n + (h - k) /\ j \in 1 .. n
    BY <1>1, <1>10, <2>4
  <2>. QED
    BY <1>6, <2>1, <2>2, <2>3, <2>4
<1>11. ASSUME NEW q \in DOMAIN tokens
       PROVE  (\E i \in 1 .. n + (h - k) : new[i] = q) <=> q \in Emitted /\ When[q] < p + 1
  <2>1. When[q] \in Nat /\ (tokens[q].isNumber => When[q] = q) /\ When[q] >= q /\ q \in Nat
    BY WhenFacts
  <2>2. ASSUME NEW i \in 1 .. n + (h - k), new[i] = q
        PROVE  q \in Emitted /\ When[q] < p + 1
    <3>1. CASE i \in 1 .. n
      <4>1. src[i] = q
        BY <1>3, <2>2, <3>1
      <4>2. q \in Emitted /\ When[q] < p
        BY <1>7, <3>1, <4>1
      <4>. QED
        BY <2>1, <4>2
    <3>2. CASE i \in n + 1 .. n + (h - k)
      <4>1. h + 1 - (i - n) \in k + 1 .. h /\ at[h + 1 - (i - n)] = q
        BY <1>4, <2>2, <3>2
      <4>2. q \in Emitted /\ When[q] = p
        BY <1>8, <4>1
      <4>. QED
        BY <2>1, <4>2
    <3>. QED
      BY <1>6, <3>1, <3>2
  <2>3. ASSUME q \in Emitted, When[q] < p
        PROVE  \E i \in 1 .. n + (h - k) : new[i] = q
    <3>1. PICK i \in 1 .. n : src[i] = q
      BY <2>3 DEF Listed, n
    <3>. QED
      BY <1>3, <3>1
  <2>4. ASSUME q \in Emitted, When[q] = p
        PROVE  \E i \in 1 .. n + (h - k) : new[i] = q
    <3>1. ~tokens[q].isNumber
      BY <2>1, <2>4
    <3>2. q < p
      <4>1. When[q] \in q + 1 .. Len(tokens) + 1
        BY <3>1, WhenFacts
      <4>. QED
        BY <2>1, <2>4, <4>1
    <3>3. IsStacked(q, p)
      BY <2>4, <3>1, <3>2 DEF IsStacked, Emitted
    <3>4. PICK j \in 1 .. h : at[j] = q
      BY <3>3 DEF Stacked, h
    <3>5. j \in k + 1 .. h
      BY <1>1, <2>4, <3>4 DEF h
    <3>6. n + (h + 1 - j) \in n + 1 .. n + (h - k) /\ h + 1 - ((n + (h + 1 - j)) - n) = j
      BY <1>1, <3>5
    <3>. QED
      BY <1>4, <3>4, <3>6
  <2>. QED
    BY <2>1, <2>2, <2>3, <2>4
<1>12. Listed(list, p + 1, new)
  BY <1>2, <1>5, <1>9, <1>10, <1>11 DEF Listed
<1>. QED
  BY <1>12 DEF list, new, n, h

\* A number is appended, and so is nothing else.
LEMMA NothingEnds ==
    ASSUME tokens \in Seq(Token), NEW p \in DOMAIN tokens,
           tokens[p].isNumber \/ tokens[p].symbol = "("
    PROVE  \A q \in DOMAIN tokens : When[q] = p => q = p /\ tokens[p].isNumber
<1>. SUFFICES ASSUME NEW q \in DOMAIN tokens, When[q] = p, ~tokens[q].isNumber
              PROVE  FALSE
  <2>1. \A q \in DOMAIN tokens : tokens[q].isNumber => When[q] = q
    BY WhenFacts
  <2>. QED
    BY <2>1
<1>1. p \in q + 1 .. Len(tokens) /\ When[q] >= p
  <2>1. When[q] \in q + 1 .. Len(tokens) + 1 /\ Len(tokens) \in Nat /\ p \in 1 .. Len(tokens)
    BY WhenFacts
  <2>. QED
    BY <2>1
<1>2. Ends(p, q)
  BY <1>1, EmittedAtEnd
<1>3. tokens[p].symbol # ")" /\ ~IsOperation(tokens[p])
  BY TokenFacts DEF IsOperation
<1>. QED
  BY <1>2, <1>3 DEF Ends

LEMMA ListNumber ==
    ASSUME tokens \in Seq(Token), rpn \in Seq(Token), NEW p \in DOMAIN tokens,
           tokens[p].isNumber, NEW src, Listed(rpn, p, src)
    PROVE  Listed(Append(rpn, tokens[p]), p + 1,
                  [i \in 1 .. Len(rpn) + 1 |-> IF i = Len(rpn) + 1 THEN p ELSE src[i]])
<1>. DEFINE n == Len(rpn)
            list == Append(rpn, tokens[p])
            new == [i \in 1 .. n + 1 |-> IF i = n + 1 THEN p ELSE src[i]]
<1>1. n \in Nat /\ p \in Nat
  OBVIOUS
<1>2. /\ Len(list) = n + 1
      /\ \A i \in 1 .. n + 1 : list[i] = IF i = n + 1 THEN tokens[p] ELSE rpn[i]
  <2>1. tokens[p] \in Token
    BY TokenFacts
  <2>. QED
    BY <2>1, AppendFacts
<1>3. \A i \in 1 .. n + 1 : i \in 1 .. n \/ i = n + 1
  BY <1>1
<1>4. /\ \A i \in 1 .. n : /\ src[i] \in DOMAIN tokens /\ rpn[i] = tokens[src[i]]
                           /\ src[i] \in Emitted /\ When[src[i]] < p
      /\ \A i, j \in 1 .. n : i < j => Earlier(src[i], src[j])
      /\ \A q \in DOMAIN tokens : q \in Emitted /\ When[q] < p => \E i \in 1 .. n : src[i] = q
  BY DEF Listed
<1>5. When[p] = p /\ p \in Emitted
  BY WhenFacts
<1>6. new \in [1 .. n + 1 -> DOMAIN tokens]
  BY <1>3, <1>4
<1>7. new[n + 1] = p /\ \A i \in 1 .. n : i \in 1 .. n + 1 /\ new[i] = src[i]
  BY <1>1
<1>. HIDE DEF new, list, n
<1>8. \A i \in 1 .. n + 1 : list[i] = tokens[new[i]]
  BY <1>1, <1>2, <1>3, <1>4, <1>7
<1>9. ASSUME NEW i \in 1 .. n + 1, NEW j \in 1 .. n + 1, i < j
      PROVE  Earlier(new[i], new[j])
  <2>1. i \in 1 .. n
    BY <1>1, <1>9
  <2>2. CASE j \in 1 .. n
    BY <1>4, <1>7, <1>9, <2>1, <2>2
  <2>3. CASE j = n + 1
    BY <1>4, <1>5, <1>7, <2>1, <2>3 DEF Earlier
  <2>. QED
    BY <1>3, <2>2, <2>3
<1>10. ASSUME NEW q \in DOMAIN tokens
       PROVE  (\E i \in 1 .. n + 1 : new[i] = q) <=> q \in Emitted /\ When[q] < p + 1
  <2>1. When[q] \in Nat /\ (When[q] = p => q = p)
    BY WhenFacts, NothingEnds
  <2>2. ASSUME NEW i \in 1 .. n + 1, new[i] = q
        PROVE  q \in Emitted /\ When[q] < p + 1
    <3>1. CASE i \in 1 .. n
      <4>1. src[i] = q
        BY <1>7, <2>2, <3>1
      <4>2. q \in Emitted /\ When[q] < p
        BY <1>4, <3>1, <4>1
      <4>. QED
        BY <1>1, <2>1, <4>2
    <3>2. CASE i = n + 1
      BY <1>1, <1>5, <1>7, <2>2, <3>2
    <3>. QED
      BY <1>3, <3>1, <3>2
  <2>3. ASSUME q \in Emitted, When[q] < p + 1
        PROVE  \E i \in 1 .. n + 1 : new[i] = q
    <3>1. CASE When[q] < p
      BY <1>4, <1>7, <2>3, <3>1
    <3>2. CASE When[q] = p
      BY <1>1, <1>7, <2>1, <3>2
    <3>. QED
      BY <1>1, <2>1, <2>3, <3>1, <3>2
  <2>. QED
    BY <2>2, <2>3
<1>11. Listed(list, p + 1, new)
  BY <1>2, <1>6, <1>8, <1>9, <1>10 DEF Listed
<1>. QED
  BY <1>11 DEF list, new, n

LEMMA ListNothing ==
    ASSUME tokens \in Seq(Token), NEW p \in DOMAIN tokens, tokens[p].symbol = "(",
           NEW src, Listed(rpn, p, src)
    PROVE  Listed(rpn, p + 1, src)
<1>1. \A q \in DOMAIN tokens : When[q] # p
  BY NothingEnds, TokenFacts
<1>2. \A q \in DOMAIN tokens : When[q] \in Nat /\ p \in Nat
  BY WhenFacts
<1>3. \A q \in DOMAIN tokens : When[q] < p + 1 <=> When[q] < p
  BY <1>1, <1>2
<1>. QED
  BY <1>3 DEF Listed

\* What is on the stack once token p has been read.
LEMMA StackedNext ==
    ASSUME tokens \in Seq(Token), NEW p \in DOMAIN tokens, NEW q \in DOMAIN tokens
    PROVE  IsStacked(q, p + 1) <=>
               \/ IsStacked(q, p) /\ When[q] # p
               \/ q = p /\ ~tokens[p].isNumber /\ tokens[p].symbol # ")"
<1>1. p \in Nat /\ q \in Nat /\ When[q] \in Nat
  BY WhenFacts
<1>2. ~tokens[p].isNumber => When[p] >= p + 1
  BY <1>1, WhenFacts
<1>3. CASE q = p
  <2>1. ~IsStacked(q, p)
    BY <1>1, <1>3 DEF IsStacked
  <2>2. q < p + 1
    BY <1>1, <1>3
  <2>. QED
    BY <1>2, <1>3, <2>1, <2>2 DEF IsStacked
<1>4. CASE q # p
  <2>1. (q < p + 1 <=> q < p) /\ (When[q] >= p + 1 <=> When[q] >= p /\ When[q] # p)
    BY <1>1, <1>4
  <2>. QED
    BY <1>4, <2>1 DEF IsStacked
<1>. QED
  BY <1>3, <1>4

LEMMA StackPopped ==
    ASSUME tokens \in Seq(Token), ops \in Seq(Token), NEW p \in DOMAIN tokens,
           tokens[p].isNumber \/ tokens[p].symbol = ")",
           NEW at, Stacked(ops, p, at), NEW k \in 0 .. Len(ops),
           \A j \in 1 .. Len(ops) : j <= k <=> When[at[j]] # p
    PROVE  Stacked(SubSeq(ops, 1, k), p + 1, [j \in 1 .. k |-> at[j]])
<1>. DEFINE h == Len(ops)
            rest == [j \in 1 .. k |-> at[j]]
            stack == SubSeq(ops, 1, k)
<1>1. k \in Nat /\ h \in Nat /\ Len(stack) = k /\ \A j \in 1 .. k : stack[j] = ops[j]
  <2>1. k \in Nat /\ k \in Int /\ k <= Len(ops) /\ h \in Nat
    OBVIOUS
  <2>2. /\ Len(stack) = IF k < 0 THEN 0 ELSE k
        /\ \A i \in 1 .. Len(stack) : stack[i] = ops[i]
    BY <2>1, PrefixFacts
  <2>. QED
    BY <2>1, <2>2
<1>2. /\ \A j \in 1 .. h : at[j] \in DOMAIN tokens /\ ops[j] = tokens[at[j]]
      /\ \A i, j \in 1 .. h : i < j => at[i] < at[j]
      /\ \A q \in DOMAIN tokens : (\E j \in 1 .. h : at[j] = q) <=> IsStacked(q, p)
  BY DEF Stacked
<1>3. \A j \in 1 .. k : j \in 1 .. h /\ rest[j] = at[j]
  BY <1>1
<1>4. rest \in [1 .. k -> DOMAIN tokens]
  BY <1>2, <1>3
<1>5. \A j \in 1 .. h : j \in 1 .. k <=> When[at[j]] # p
  BY <1>1
<1>. HIDE DEF rest, stack, h
<1>6. ASSUME NEW q \in DOMAIN tokens
      PROVE  (\E j \in 1 .. k : rest[j] = q) <=> IsStacked(q, p + 1)
  <2>1. IsStacked(q, p + 1) <=> IsStacked(q, p) /\ When[q] # p
    BY StackedNext
  <2>2. (\E j \in 1 .. k : at[j] = q) <=> IsStacked(q, p) /\ When[q] # p
    BY <1>2, <1>3, <1>5
  <2>. QED
    BY <1>3, <2>1, <2>2
<1>7. \A j \in 1 .. k : stack[j] = tokens[rest[j]]
  BY <1>1, <1>2, <1>3
<1>8. \A i, j \in 1 .. k : i < j => rest[i] < rest[j]
  BY <1>2, <1>3
<1>9. Stacked(stack, p + 1, rest)
  BY <1>1, <1>4, <1>6, <1>7, <1>8 DEF Stacked
<1>. QED
  BY <1>9 DEF stack, rest

LEMMA StackPushed ==
    ASSUME tokens \in Seq(Token), ops \in Seq(Token), NEW p \in DOMAIN tokens,
           ~tokens[p].isNumber, tokens[p].symbol # ")",
           NEW at, Stacked(ops, p, at), NEW k \in 0 .. Len(ops),
           \A j \in 1 .. Len(ops) : j <= k <=> When[at[j]] # p
    PROVE  Stacked(Append(SubSeq(ops, 1, k), tokens[p]), p + 1,
                   [j \in 1 .. k + 1 |-> IF j = k + 1 THEN p ELSE at[j]])
<1>. DEFINE h == Len(ops)
            new == [j \in 1 .. k + 1 |-> IF j = k + 1 THEN p ELSE at[j]]
            stack == Append(SubSeq(ops, 1, k), tokens[p])
<1>1. /\ k \in Nat /\ h \in Nat /\ Len(stack) = k + 1
      /\ \A j \in 1 .. k : stack[j] = ops[j]
      /\ stack[k + 1] = tokens[p]
  <2>1. k \in Nat /\ k \in Int /\ k <= Len(ops) /\ h \in Nat
    OBVIOUS
  <2>t. tokens[p] \in Token
    BY TokenFacts
  <2>2. /\ SubSeq(ops, 1, k) \in Seq(Token) /\ Len(SubSeq(ops, 1, k)) = IF k < 0 THEN 0 ELSE k
        /\ \A i \in 1 .. Len(SubSeq(ops, 1, k)) : SubSeq(ops, 1, k)[i] = ops[i]
    BY <2>1, PrefixFacts
  <2>3. Len(SubSeq(ops, 1, k)) = k
    BY <2>1, <2>2
  <2>4. /\ Len(stack) = k + 1
        /\ \A i \in 1 .. k + 1 :
               stack[i] = IF i = k + 1 THEN tokens[p] ELSE SubSeq(ops, 1, k)[i]
    BY <2>1, <2>t, <2>2, <2>3, AppendFacts
  <2>. HIDE DEF stack, h
  <2>. QED
    BY <2>1, <2>2, <2>3, <2>4
<1>2. /\ \A j \in 1 .. h : at[j] \in DOMAIN tokens /\ ops[j] = tokens[at[j]]
      /\ \A i, j \in 1 .. h : i < j => at[i] < at[j]
      /\ \A q \in DOMAIN tokens : (\E j \in 1 .. h : at[j] = q) <=> IsStacked(q, p)
  BY DEF Stacked
<1>3. \A j \in 1 .. k : j \in 1 .. h /\ j \in 1 .. k + 1 /\ new[j] = at[j]
  BY <1>1
<1>4. new[k + 1] = p /\ \A j \in 1 .. k + 1 : j \in 1 .. k \/ j = k + 1
  BY <1>1
<1>5. \A j \in 1 .. h : j \in 1 .. k <=> When[at[j]] # p
  BY <1>1
<1>6. new \in [1 .. k + 1 -> DOMAIN tokens]
  BY <1>2, <1>3, <1>4
<1>. HIDE DEF new, stack, h
<1>7. ASSUME NEW q \in DOMAIN tokens
      PROVE  (\E j \in 1 .. k + 1 : new[j] = q) <=> IsStacked(q, p + 1)
  <2>1. IsStacked(q, p + 1) <=> (IsStacked(q, p) /\ When[q] # p) \/ q = p
    BY StackedNext
  <2>2. k + 1 \in 1 .. k + 1
    BY <1>1
  <2>3. (\E j \in 1 .. k + 1 : new[j] = q) <=> (\E j \in 1 .. k : at[j] = q) \/ q = p
    BY <1>3, <1>4, <2>2
  <2>4. (\E j \in 1 .. k : at[j] = q) <=> IsStacked(q, p) /\ When[q] # p
    BY <1>2, <1>3, <1>5
  <2>. QED
    BY <2>1, <2>3, <2>4
<1>8. ASSUME NEW i \in 1 .. k + 1, NEW j \in 1 .. k + 1, i < j
      PROVE  new[i] < new[j]
  <2>1. i \in 1 .. k
    BY <1>1, <1>8
  <2>2. CASE j \in 1 .. k
    BY <1>2, <1>3, <1>8, <2>1, <2>2
  <2>3. CASE j = k + 1
    <3>1. IsStacked(at[i], p)
      BY <1>2, <1>3, <2>1
    <3>. QED
      BY <1>3, <1>4, <2>1, <2>3, <3>1 DEF IsStacked
  <2>. QED
    BY <1>4, <2>2, <2>3
<1>9. \A j \in 1 .. k + 1 : stack[j] = tokens[new[j]]
  BY <1>1, <1>2, <1>3, <1>4
<1>10. Stacked(stack, p + 1, new)
  BY <1>1, <1>6, <1>7, <1>8, <1>9 DEF Stacked
<1>. QED
  BY <1>10 DEF stack, new

-----------------------------------------------------------------------------
(***************************************************************************)
(* Which items a loop of toRPN pops: those that end at the token it reads.  *)
(***************************************************************************)
LEMMA OpenInType ==
    ASSUME NEW stack \in Seq(Token), NEW j \in Nat
    PROVE  /\ OpenIn(stack, j) \in Nat
           /\ OpenIn(stack, j) = 0 <=> \A i \in j + 1 .. Len(stack) : stack[i].symbol # "("
<1>. DEFINE open == {i \in j + 1 .. Len(stack) : stack[i].symbol = "("}
<1>1. IsFiniteSet(open)
  <2>1. IsFiniteSet(j + 1 .. Len(stack)) /\ open \subseteq j + 1 .. Len(stack)
    BY FS_Interval
  <2>. QED
    BY <2>1, FS_Subset, Zenon
<1>2. Cardinality(open) \in Nat /\ (Cardinality(open) = 0 <=> open = {})
  BY <1>1, FS_CardinalityType, FS_EmptySet
<1>3. open = {} <=> \A i \in j + 1 .. Len(stack) : stack[i].symbol # "("
  OBVIOUS
<1>. QED
  BY <1>2, <1>3 DEF OpenIn

\* Items that are no parenthesis may be taken away.
LEMMA OpenInBelow ==
    ASSUME NEW s \in Seq(Token), NEW t \in Seq(Token), Len(t) <= Len(s),
           \A i \in 1 .. Len(t) : t[i] = s[i],
           \A i \in Len(t) + 1 .. Len(s) : s[i].symbol # "("
    PROVE  \A j \in Nat : OpenIn(s, j) = OpenIn(t, j)
<1>. TAKE j \in Nat
<1>1. {i \in j + 1 .. Len(s) : s[i].symbol = "("} = {i \in j + 1 .. Len(t) : t[i].symbol = "("}
  <2>1. Len(s) \in Nat /\ Len(t) \in Nat
    OBVIOUS
  <2>2. \A i \in j + 1 .. Len(s) : i \in 1 .. Len(t) \/ i \in Len(t) + 1 .. Len(s)
    BY <2>1
  <2>3. \A i \in j + 1 .. Len(t) : i \in 1 .. Len(t) /\ i \in j + 1 .. Len(s)
    BY <2>1
  <2>4. \A i \in j + 1 .. Len(s) : i \in 1 .. Len(t) => i \in j + 1 .. Len(t)
    BY <2>1
  <2>. QED
    BY <2>2, <2>3, <2>4
<1>. QED
  BY <1>1 DEF OpenIn

\* The topmost parenthesis counts for what lies below it.
LEMMA OpenInTop ==
    ASSUME NEW s \in Seq(Token), NEW t \in Seq(Token), Len(t) < Len(s),
           \A i \in 1 .. Len(t) : t[i] = s[i],
           s[Len(t) + 1].symbol = "(",
           \A i \in Len(t) + 2 .. Len(s) : s[i].symbol # "("
    PROVE  \A j \in 0 .. Len(t) : OpenIn(s, j) = OpenIn(t, j) + 1
<1>. TAKE j \in 0 .. Len(t)
<1>. DEFINE k == Len(t) + 1
            open == {i \in j + 1 .. Len(t) : t[i].symbol = "("}
<1>1. Len(s) \in Nat /\ Len(t) \in Nat /\ k \in j + 1 .. Len(s) /\ k \notin open
  OBVIOUS
<1>2. {i \in j + 1 .. Len(s) : s[i].symbol = "("} = open \cup {k}
  <2>2. \A i \in j + 1 .. Len(s) : i \in 1 .. Len(t) \/ i = k \/ i \in Len(t) + 2 .. Len(s)
    BY <1>1
  <2>3. \A i \in j + 1 .. Len(t) : i \in 1 .. Len(t) /\ i \in j + 1 .. Len(s)
    BY <1>1
  <2>4. \A i \in j + 1 .. Len(s) : i \in 1 .. Len(t) => i \in j + 1 .. Len(t)
    BY <1>1
  <2>. QED
    BY <1>1, <2>2, <2>3, <2>4
<1>3. IsFiniteSet(open)
  <2>1. IsFiniteSet(j + 1 .. Len(t)) /\ open \subseteq j + 1 .. Len(t)
    BY FS_Interval
  <2>. QED
    BY <2>1, FS_Subset, Zenon
<1>4. Cardinality(open \cup {k}) = Cardinality(open) + 1
  <2>. HIDE DEF open, k
  <2>. QED
    BY <1>1, <1>3, FS_AddElement
<1>. QED
  BY <1>2, <1>4 DEF OpenIn

LEMMA StackedPlaces ==
    ASSUME tokens \in Seq(Token), NEW stack, NEW p, NEW at, Stacked(stack, p, at),
           NEW j \in 1 .. Len(stack)
    PROVE  at[j] \in DOMAIN tokens /\ at[j] \in Nat
<1>1. at[j] \in DOMAIN tokens
  BY DEF Stacked
<1>2. DOMAIN tokens \subseteq Nat
  OBVIOUS
<1>. QED
  BY <1>1, <1>2

\* What lies on the stack has not ended before the token that is read.
LEMMA OnTheStack ==
    ASSUME tokens \in Seq(Token), ops \in Seq(Token), NEW p \in DOMAIN tokens,
           NEW at, Stacked(ops, p, at), NEW j \in 1 .. Len(ops)
    PROVE  /\ at[j] \in DOMAIN tokens /\ ops[j] = tokens[at[j]]
           /\ at[j] < p /\ When[at[j]] \in Nat /\ When[at[j]] >= p
           /\ ~tokens[at[j]].isNumber /\ tokens[at[j]].symbol # ")"
           /\ When[at[j]] = p <=> Ends(p, at[j])
<1>1. at[j] \in DOMAIN tokens /\ ops[j] = tokens[at[j]] /\ IsStacked(at[j], p)
  BY DEF Stacked
<1>2. When[at[j]] \in Nat
  BY <1>1, WhenFacts
<1>3. p \in at[j] + 1 .. Len(tokens)
  <2>1. at[j] \in Nat /\ p \in 1 .. Len(tokens) /\ Len(tokens) \in Nat /\ at[j] < p
    BY <1>1 DEF IsStacked
  <2>. QED
    BY <2>1
<1>4. When[at[j]] = p <=> Ends(p, at[j])
  BY <1>1, <1>3, EmittedAtEnd DEF IsStacked
<1>. QED
  BY <1>1, <1>2, <1>4 DEF IsStacked

\* A closing parenthesis ends what lies on the stack down to the opening one, with it.
LEMMA ClosingPops ==
    ASSUME tokens \in Seq(Token), ops \in Seq(Token), NEW p \in DOMAIN tokens,
           tokens[p].symbol = ")", NEW at, Stacked(ops, p, at), Nested(ops, p, at),
           NEW j \in 1 .. Len(ops)
    PROVE  /\ When[at[j]] = p <=> j >= Kept({"("})
           /\ at[j] \in Emitted /\ When[at[j]] = p <=> j > Kept({"("})
<1>. DEFINE k == Kept({"("})
<1>0. /\ k \in 0 .. Len(ops) /\ (k > 0 => ops[k].symbol = "(")
      /\ \A i \in k + 1 .. Len(ops) : ops[i].symbol # "("
  BY KeptFacts
<1>. HIDE DEF k
<1>1. p \in Nat \ {0} /\ j \in Nat /\ k \in Nat /\ Len(ops) \in Nat
  BY <1>0
<1>2. /\ at[j] \in DOMAIN tokens /\ ops[j] = tokens[at[j]] /\ tokens[at[j]].symbol # ")"
      /\ When[at[j]] = p <=> Ends(p, at[j])
  BY OnTheStack
<1>3. Ends(p, at[j]) <=> Level(p) = Level(at[j]) - 1
  BY DEF Ends, IsOperation
<1>4. /\ Level(p) = Level(p - 1) - 1 /\ Level(p - 1) = Level(at[j]) + OpenIn(ops, j)
      /\ Level(p) \in Int /\ Level(p - 1) \in Int /\ Level(at[j]) \in Int
  <2>1. Level(p - 1) = Level(at[j]) + OpenIn(ops, j)
    BY DEF Nested
  <2>2. Level(p) = Level(p - 1) - 1
    <3>1. tokens[p].symbol # "("
      OBVIOUS
    <3>. QED
      BY <1>1, <3>1, Levels
  <2>3. p - 1 \in Nat /\ at[j] \in Nat
    BY <1>1, <1>2
  <2>. QED
    BY <1>1, <2>1, <2>2, <2>3, Levels
<1>5. OpenIn(ops, j) \in Nat /\ (OpenIn(ops, j) = 0 <=>
                                    \A i \in j + 1 .. Len(ops) : ops[i].symbol # "(")
  BY <1>1, OpenInType
<1>6. When[at[j]] = p <=> OpenIn(ops, j) = 0
  BY <1>2, <1>3, <1>4, <1>5
<1>7. OpenIn(ops, j) = 0 <=> j >= k
  <2>1. ASSUME j >= k
        PROVE  \A i \in j + 1 .. Len(ops) : ops[i].symbol # "("
    <3>1. \A i \in j + 1 .. Len(ops) : i \in k + 1 .. Len(ops)
      BY <1>1, <2>1
    <3>. QED
      BY <1>0, <3>1
  <2>2. ASSUME ~(j >= k)
        PROVE  k \in j + 1 .. Len(ops) /\ ops[k].symbol = "("
    BY <1>0, <1>1, <2>2
  <2>. QED
    BY <1>5, <2>1, <2>2
<1>8. When[at[j]] = p => (at[j] \in Emitted <=> ops[j].symbol # "(")
  <2>1. p <= Len(tokens)
    OBVIOUS
  <2>. QED
    BY <1>2, <2>1 DEF Emitted, IsPaired
<1>9. j > k => ops[j].symbol # "("
  BY <1>0, <1>1
<1>10. j >= k <=> j > k \/ j = k
  BY <1>1
<1>11. (at[j] \in Emitted /\ When[at[j]] = p) <=> j > k
  <2>1. j = k => ops[j].symbol = "("
    BY <1>0, <1>1
  <2>2. j > k => j # k
    BY <1>1
  <2>. QED
    BY <1>6, <1>7, <1>8, <1>9, <1>10, <2>1, <2>2
<1>. QED
  BY <1>6, <1>7, <1>11 DEF k

\* An operator ends what lies on the stack above the first item that is weaker.
LEMMA OperationPops ==
    ASSUME tokens \in Seq(Token), ops \in Seq(Token), NEW p \in DOMAIN tokens,
           IsOperation(tokens[p]), NEW at, Stacked(ops, p, at), Nested(ops, p, at),
           NEW j \in 1 .. Len(ops)
    PROVE  /\ When[at[j]] = p <=> j > Kept(Weaker(tokens[p].symbol))
           /\ When[at[j]] = p => at[j] \in Emitted
<1>. DEFINE s == tokens[p].symbol
            k == Kept(Weaker(s))
            Binds(i) == Precedence(ops[i].symbol)
<1>0. /\ k \in 0 .. Len(ops) /\ (k > 0 => Binds(k) < Precedence(s))
      /\ \A i \in k + 1 .. Len(ops) : ~(Binds(i) < Precedence(s))
  <2>1. /\ k \in 0 .. Len(ops) /\ (k > 0 => ops[k].symbol \in Weaker(s))
        /\ \A i \in k + 1 .. Len(ops) : ops[i].symbol \notin Weaker(s)
    BY KeptFacts
  <2>. HIDE DEF k, s
  <2>2. \A i \in k + 1 .. Len(ops) : i \in DOMAIN ops
    BY <2>1
  <2>3. \A i \in DOMAIN ops : ops[i].symbol \in Weaker(s) <=> Binds(i) < Precedence(s)
    BY DEF Weaker
  <2>4. k > 0 => k \in DOMAIN ops
    BY <2>1
  <2>. QED
    BY <2>1, <2>2, <2>3, <2>4
<1>. HIDE DEF k
<1>1. /\ p \in Nat \ {0} /\ j \in Nat /\ k \in Nat /\ Len(ops) \in Nat
      /\ \A i : Binds(i) \in Nat /\ Precedence(s) \in Nat
  <2>1. p \in Nat \ {0} /\ j \in Nat /\ k \in Nat /\ Len(ops) \in Nat
    BY <1>0
  <2>2. \A x : Precedence(x) \in Nat
    BY Precedences
  <2>. QED
    BY <2>1, <2>2
<1>2. /\ at[j] \in DOMAIN tokens /\ ops[j] = tokens[at[j]] /\ tokens[at[j]].symbol # ")"
      /\ When[at[j]] = p <=> Ends(p, at[j])
  BY OnTheStack
<1>3. Level(p) = Level(at[j]) <=> \A i \in j + 1 .. Len(ops) : ops[i].symbol # "("
  <2>1. Level(p - 1) = Level(at[j]) + OpenIn(ops, j)
    BY DEF Nested
  <2>2. Level(p) = Level(p - 1)
    BY <1>1, Levels DEF IsOperation
  <2>3. p - 1 \in Nat /\ at[j] \in Nat
    BY <1>1, <1>2
  <2>4. Level(at[j]) \in Int /\ Level(p) \in Int
    BY <1>1, <2>3, Levels
  <2>5. OpenIn(ops, j) \in Nat /\ (OpenIn(ops, j) = 0 <=>
                                    \A i \in j + 1 .. Len(ops) : ops[i].symbol # "(")
    BY <1>1, OpenInType
  <2>. QED
    BY <2>1, <2>2, <2>4, <2>5
<1>4. Ends(p, at[j]) <=> /\ Precedence(s) <= Binds(j)
                         /\ Level(p) = Level(at[j]) \/ Precedence(s) = 0
  BY <1>2 DEF Ends, IsOperation
<1>5. ASSUME j > k
      PROVE  Ends(p, at[j])
  <2>1. Precedence(s) <= Binds(j)
    BY <1>0, <1>1, <1>5
  <2>2. ASSUME Precedence(s) # 0, NEW i \in j + 1 .. Len(ops)
        PROVE  ops[i].symbol # "("
    <3>1. i \in k + 1 .. Len(ops)
      BY <1>1, <1>5
    <3>2. ~(Binds(i) < Precedence(s))
      BY <1>0, <3>1
    <3>3. Binds(i) # 0
      BY <1>1, <2>2, <3>2
    <3>. QED
      BY <3>3, Precedences
  <2>. QED
    BY <1>3, <1>4, <2>1, <2>2
<1>6. ASSUME ~(j > k)
      PROVE  ~Ends(p, at[j])
  <2>1. k > 0 /\ Binds(k) < Precedence(s) /\ Precedence(s) # 0
    BY <1>0, <1>1, <1>6
  <2>2. CASE j = k
    BY <1>1, <1>4, <2>1, <2>2
  <2>3. CASE j # k
    <3>1. j < k /\ j \in 1 .. Len(ops) /\ k \in 1 .. Len(ops)
      BY <1>0, <1>1, <1>6, <2>1, <2>3
    <3>2. ASSUME \A i \in j + 1 .. Len(ops) : ops[i].symbol # "("
          PROVE  Binds(j) < Binds(k)
      <4>1. \A m \in j + 1 .. k : ops[m].symbol # "("
        BY <1>0, <1>1, <3>2
      <4>. QED
        BY <3>1, <4>1 DEF Nested
    <3>3. ASSUME \A i \in j + 1 .. Len(ops) : ops[i].symbol # "("
          PROVE  ~(Precedence(s) <= Binds(j))
      BY <1>1, <2>1, <3>2, <3>3
    <3>. QED
      BY <1>3, <1>4, <2>1, <3>3
  <2>. QED
    BY <2>2, <2>3
<1>7. When[at[j]] = p => at[j] \in Emitted
  BY <1>2 DEF Emitted, IsPaired, IsOperation
<1>. QED
  BY <1>2, <1>5, <1>6, <1>7 DEF k

\* After the last token everything ends.
LEMMA EndPops ==
    ASSUME tokens \in Seq(Token), ops \in Seq(Token),
           NEW at, Stacked(ops, Len(tokens) + 1, at), NEW j \in 1 .. Len(ops)
    PROVE  at[j] \in Emitted /\ When[at[j]] = Len(tokens) + 1
<1>1. at[j] \in DOMAIN tokens /\ IsStacked(at[j], Len(tokens) + 1)
  BY DEF Stacked
<1>2. When[at[j]] = Len(tokens) + 1
  <2>1. When[at[j]] \in at[j] .. Len(tokens) + 1
    BY <1>1, WhenFacts
  <2>2. When[at[j]] >= Len(tokens) + 1
    BY <1>1 DEF IsStacked
  <2>3. Len(tokens) \in Nat /\ at[j] \in Nat
    BY <1>1
  <2>. QED
    BY <2>1, <2>2, <2>3
<1>3. ~(Len(tokens) + 1 <= Len(tokens))
  OBVIOUS
<1>. QED
  BY <1>1, <1>2, <1>3 DEF Emitted, IsPaired, IsStacked

-----------------------------------------------------------------------------
(***************************************************************************)
(* Each step of toRPN keeps the invariant.                                  *)
(***************************************************************************)
\* The stack that is left keeps its order; only the levels change.
LEMMA NestedBelow ==
    ASSUME ops \in Seq(Token), NEW p \in Nat \ {0}, NEW at, Nested(ops, p, at),
           NEW stack \in Seq(Token), Len(stack) <= Len(ops),
           \A i \in 1 .. Len(stack) : stack[i] = ops[i],
           \A j \in 1 .. Len(stack) :
               Level(p) - Level(p - 1) = OpenIn(stack, j) - OpenIn(ops, j),
           NEW rest, \A j \in 1 .. Len(stack) : rest[j] = at[j] /\ rest[j] \in Nat
    PROVE  Nested(stack, p + 1, rest)
<1>1. Len(stack) \in Nat /\ Len(ops) \in Nat /\ (p + 1) - 1 = p /\ p - 1 \in Nat
  OBVIOUS
<1>2. \A j \in 1 .. Len(stack) : j \in 1 .. Len(ops) /\ j \in Nat
  BY <1>1
<1>3. ASSUME NEW j \in 1 .. Len(stack)
      PROVE  Level(p) = Level(rest[j]) + OpenIn(stack, j)
  <2>1. Level(p - 1) = Level(rest[j]) + OpenIn(ops, j)
    BY <1>2 DEF Nested
  <2>3. Level(p) - Level(p - 1) = OpenIn(stack, j) - OpenIn(ops, j)
    OBVIOUS
  <2>2. /\ Level(p) \in Int /\ Level(p - 1) \in Int /\ Level(rest[j]) \in Int
        /\ OpenIn(ops, j) \in Nat /\ OpenIn(stack, j) \in Nat
    BY <1>1, <1>2, Levels, OpenInType
  <2>4. PICK a, b, c, d, e \in Int :
            /\ a = Level(p) /\ b = Level(p - 1) /\ c = Level(rest[j])
            /\ d = OpenIn(ops, j) /\ e = OpenIn(stack, j)
    BY <2>2
  <2>5. b = c + d /\ a - b = e - d
    BY <2>1, <2>3, <2>4
  <2>6. a = c + e
    BY <2>5
  <2>. QED
    BY <2>4, <2>6
<1>4. ASSUME NEW i \in 1 .. Len(stack), NEW j \in 1 .. Len(stack),
             i < j, \A m \in i + 1 .. j : stack[m].symbol # "("
      PROVE  Precedence(stack[i].symbol) < Precedence(stack[j].symbol)
  <2>1. \A m \in i + 1 .. j : m \in 1 .. Len(stack)
    BY <1>1
  <2>2. \A m \in i + 1 .. j : ops[m].symbol # "("
    BY <1>4, <2>1
  <2>. QED
    BY <1>2, <1>4, <2>2 DEF Nested
<1>5. Level((p + 1) - 1) = Level(p)
  BY <1>1
<1>. QED
  BY <1>3, <1>4, <1>5 DEF Nested

LEMMA NestedPush ==
    ASSUME NEW below \in Seq(Token), NEW t \in Token, NEW p \in Nat \ {0}, NEW new,
           new[Len(below) + 1] = p,
           \A j \in 1 .. Len(below) : Level(p) = Level(new[j]) + OpenIn(Append(below, t), j),
           \A i, j \in 1 .. Len(below) :
               i < j /\ (\A m \in i + 1 .. j : below[m].symbol # "(")
                   => Precedence(below[i].symbol) < Precedence(below[j].symbol),
           \A i \in 1 .. Len(below) :
               t.symbol # "(" /\ (\A m \in i + 1 .. Len(below) : below[m].symbol # "(")
                   => Precedence(below[i].symbol) < Precedence(t.symbol)
    PROVE  Nested(Append(below, t), p + 1, new)
<1>. DEFINE n == Len(below)
            stack == Append(below, t)
<1>1. /\ n \in Nat /\ Len(stack) = n + 1 /\ stack \in Seq(Token)
      /\ \A i \in 1 .. n : stack[i] = below[i]
      /\ stack[n + 1] = t
  OBVIOUS
<1>2. \A j \in 1 .. n + 1 : j \in 1 .. n \/ j = n + 1
  BY <1>1
<1>. HIDE DEF stack
<1>3. Level((p + 1) - 1) = Level(p) /\ Level(p) \in Int
  <2>1. (p + 1) - 1 = p /\ p \in Nat
    OBVIOUS
  <2>. QED
    BY <2>1, Levels
<1>4. ASSUME NEW j \in 1 .. n + 1
      PROVE  Level((p + 1) - 1) = Level(new[j]) + OpenIn(stack, j)
  <2>1. CASE j \in 1 .. n
    BY <1>3, <2>1 DEF stack
  <2>2. CASE j = n + 1
    <3>1. OpenIn(stack, n + 1) = 0
      <4>1. n + 1 \in Nat /\ \A i \in n + 1 + 1 .. Len(stack) : FALSE
        BY <1>1
      <4>. QED
        BY <1>1, <4>1, OpenInType
    <3>2. new[j] = p
      BY <2>2
    <3>. QED
      BY <1>3, <2>2, <3>1, <3>2
  <2>. QED
    BY <1>2, <2>1, <2>2
<1>5. ASSUME NEW i \in 1 .. n + 1, NEW j \in 1 .. n + 1,
             i < j, \A m \in i + 1 .. j : stack[m].symbol # "("
      PROVE  Precedence(stack[i].symbol) < Precedence(stack[j].symbol)
  <2>1. i \in 1 .. n
    BY <1>1, <1>5
  <2>2. CASE j \in 1 .. n
    <3>1. \A m \in i + 1 .. j : m \in 1 .. n
      BY <1>1, <2>1, <2>2
    <3>2. \A m \in i + 1 .. j : below[m].symbol # "("
      BY <1>1, <1>5, <3>1
    <3>. QED
      BY <1>1, <1>5, <2>1, <2>2, <3>2
  <2>3. CASE j = n + 1
    <3>1. \A m \in i + 1 .. n : m \in 1 .. n /\ m \in i + 1 .. j
      BY <1>1, <2>1, <2>3
    <3>2. \A m \in i + 1 .. n : below[m].symbol # "("
      BY <1>1, <1>5, <3>1
    <3>3. t.symbol # "("
      <4>1. n + 1 \in i + 1 .. j
        BY <1>1, <2>1, <2>3
      <4>. QED
        BY <1>1, <1>5, <4>1
    <3>. QED
      BY <1>1, <2>1, <2>3, <3>2, <3>3
  <2>. QED
    BY <1>2, <2>2, <2>3
<1>6. Nested(stack, p + 1, new)
  BY <1>1, <1>4, <1>5 DEF Nested
<1>. QED
  BY <1>6 DEF stack

LEMMA NumberStep ==
    ASSUME TypeOK, NEW p \in DOMAIN tokens, YardAt(rpn, ops, p), tokens[p].isNumber
    PROVE  YardAt(Append(rpn, tokens[p]), ops, p + 1)
<1>. PICK src, at : Listed(rpn, p, src) /\ Stacked(ops, p, at) /\ Nested(ops, p, at)
  BY DEF YardAt
<1>1. tokens \in Seq(Token) /\ rpn \in Seq(Token) /\ ops \in Seq(Token) /\ Len(ops) \in Nat
  BY DEF TypeOK
<1>2. \E new : Listed(Append(rpn, tokens[p]), p + 1, new)
  BY <1>1, ListNumber
<1>. DEFINE k == Len(ops)
            rest == [j \in 1 .. k |-> at[j]]
<1>3. SubSeq(ops, 1, k) = ops /\ k \in 0 .. Len(ops)
  BY <1>1
<1>4. \A j \in 1 .. Len(ops) : /\ j <= k /\ When[at[j]] # p
                               /\ rest[j] = at[j] /\ rest[j] \in Nat
  <2>1. ASSUME NEW j \in 1 .. Len(ops)
        PROVE  at[j] \in DOMAIN tokens /\ at[j] \in Nat /\ at[j] < p
    BY <1>1, OnTheStack
  <2>2. p \in Nat
    BY <1>1
  <2>. QED
    BY <1>1, <2>1, <2>2, NothingEnds
<1>5. Stacked(SubSeq(ops, 1, k), p + 1, rest)
  <2>. HIDE DEF k
  <2>. QED
    BY <1>1, <1>3, <1>4, StackPopped DEF k
<1>6. Nested(ops, p + 1, rest)
  <2>1. p \in Nat \ {0} /\ Level(p) = Level(p - 1) /\ Level(p) \in Int
    <3>1. p \in Nat \ {0}
      BY <1>1
    <3>2. tokens[p].symbol = ""
      BY <1>1, TokenFacts
    <3>. QED
      BY <3>1, <3>2, Levels
  <2>2. \A j \in 1 .. Len(ops) : OpenIn(ops, j) \in Nat
    BY <1>1, OpenInType
  <2>3. \A j \in 1 .. Len(ops) : Level(p) - Level(p - 1) = OpenIn(ops, j) - OpenIn(ops, j)
    BY <2>1, <2>2
  <2>4. Len(ops) <= Len(ops)
    BY <1>1
  <2>. HIDE DEF rest
  <2>. QED
    BY <1>1, <1>4, <2>1, <2>3, <2>4, NestedBelow, Zenon
<1>. QED
  BY <1>2, <1>3, <1>5, <1>6 DEF YardAt

LEMMA OpeningStep ==
    ASSUME TypeOK, NEW p \in DOMAIN tokens, YardAt(rpn, ops, p), tokens[p].symbol = "("
    PROVE  YardAt(rpn, Append(ops, tokens[p]), p + 1)
<1>. PICK src, at : Listed(rpn, p, src) /\ Stacked(ops, p, at) /\ Nested(ops, p, at)
  BY DEF YardAt
<1>. DEFINE h == Len(ops)
            t == tokens[p]
            new == [j \in 1 .. h + 1 |-> IF j = h + 1 THEN p ELSE at[j]]
<1>1. /\ tokens \in Seq(Token) /\ rpn \in Seq(Token) /\ ops \in Seq(Token) /\ h \in Nat
      /\ p \in Nat \ {0} /\ t \in Token
  BY DEF TypeOK
<1>2. ~t.isNumber
  BY <1>1, TokenFacts
<1>3. Listed(rpn, p + 1, src)
  BY <1>1, ListNothing
<1>4. SubSeq(ops, 1, h) = ops /\ h \in 0 .. Len(ops) /\ t.symbol # ")"
  BY <1>1
<1>5. \A j \in 1 .. Len(ops) : j <= h /\ When[at[j]] # p /\ at[j] \in Nat
  <2>1. ASSUME NEW j \in 1 .. Len(ops)
        PROVE  at[j] \in DOMAIN tokens /\ at[j] \in Nat
    BY <1>1, StackedPlaces
  <2>2. \A q \in DOMAIN tokens : When[q] # p
    BY <1>1, <1>2, NothingEnds
  <2>. QED
    BY <1>1, <2>1, <2>2
<1>6. Stacked(Append(SubSeq(ops, 1, h), t), p + 1, new)
  <2>. HIDE DEF h
  <2>. QED
    BY <1>1, <1>2, <1>4, <1>5, StackPushed DEF h
<1>7. /\ new[h + 1] = p
      /\ \A j \in 1 .. h : new[j] = at[j]
  BY <1>1
<1>. HIDE DEF new
<1>8. ASSUME NEW j \in 1 .. h
      PROVE  Level(p) = Level(new[j]) + OpenIn(Append(ops, t), j)
  <2>1. Append(ops, t) \in Seq(Token) /\ Len(Append(ops, t)) = h + 1
        /\ (\A i \in 1 .. h : ops[i] = Append(ops, t)[i]) /\ Append(ops, t)[h + 1] = t
    BY <1>1
  <2>2. OpenIn(Append(ops, t), j) = OpenIn(ops, j) + 1
    <3>1. j \in 0 .. Len(ops) /\ Len(ops) < Len(Append(ops, t))
          /\ \A i \in Len(ops) + 2 .. Len(Append(ops, t)) : FALSE
      BY <1>1, <2>1
    <3>2. Append(ops, t)[Len(ops) + 1].symbol = "("
      BY <2>1
    <3>. QED
      BY <1>1, <2>1, <3>1, <3>2, OpenInTop
  <2>3. Level(p - 1) = Level(new[j]) + OpenIn(ops, j)
    BY <1>7 DEF Nested
  <2>4. Level(p) = Level(p - 1) + 1 /\ Level(p - 1) \in Int
    <3>1. p - 1 \in Nat
      BY <1>1
    <3>. QED
      BY <1>1, <3>1, Levels
  <2>5. OpenIn(ops, j) \in Nat /\ Level(new[j]) \in Int
    <3>1. j \in Nat /\ new[j] \in Nat
      BY <1>1, <1>5, <1>7
    <3>2. OpenIn(ops, j) \in Nat
      BY <1>1, <3>1, OpenInType
    <3>3. Level(new[j]) \in Int
      BY <3>1, Levels
    <3>. QED
      BY <3>2, <3>3
  <2>6. PICK a, b, c, d, e \in Int :
            /\ a = Level(p) /\ b = Level(p - 1) /\ c = Level(new[j])
            /\ d = OpenIn(ops, j) /\ e = OpenIn(Append(ops, t), j)
    BY <2>2, <2>4, <2>5
  <2>7. a = c + e
    BY <2>2, <2>3, <2>4, <2>6
  <2>. QED
    BY <2>6, <2>7
<1>9. \A i, j \in 1 .. h :
          i < j /\ (\A m \in i + 1 .. j : ops[m].symbol # "(")
              => Precedence(ops[i].symbol) < Precedence(ops[j].symbol)
  BY DEF Nested
<1>10. Nested(Append(ops, t), p + 1, new)
  BY <1>1, <1>7, <1>8, <1>9, NestedPush
<1>. QED
  BY <1>3, <1>4, <1>6, <1>10 DEF YardAt

LEMMA ClosingStep ==
    ASSUME TypeOK, NEW p \in DOMAIN tokens, YardAt(rpn, ops, p), tokens[p].symbol = ")"
    PROVE  LET k == Kept({"("})
           IN  YardAt(rpn \o Popped(k), SubSeq(ops, 1, k - 1), p + 1)
<1>. PICK src, at : Listed(rpn, p, src) /\ Stacked(ops, p, at) /\ Nested(ops, p, at)
  BY DEF YardAt
<1>. DEFINE k == Kept({"("})
            h == Len(ops)
            m == IF k = 0 THEN 0 ELSE k - 1
            rest == [j \in 1 .. m |-> at[j]]
            stack == SubSeq(ops, 1, m)
<1>1. /\ tokens \in Seq(Token) /\ rpn \in Seq(Token) /\ ops \in Seq(Token) /\ h \in Nat
      /\ p \in Nat \ {0}
  BY DEF TypeOK
<1>2. /\ k \in 0 .. h /\ (k > 0 => ops[k].symbol = "(")
      /\ \A i \in k + 1 .. h : ops[i].symbol # "("
  BY <1>1, KeptFacts
<1>3. ~tokens[p].isNumber
  BY <1>1, TokenFacts
<1>4. \A j \in 1 .. h : /\ When[at[j]] = p <=> j >= k
                        /\ at[j] \in Emitted /\ When[at[j]] = p <=> j > k
                        /\ at[j] \in Nat
  <2>1. ASSUME NEW j \in 1 .. h
        PROVE  at[j] \in DOMAIN tokens /\ at[j] \in Nat
    BY <1>1, StackedPlaces
  <2>. QED
    BY <1>1, <2>1, ClosingPops
<1>. HIDE DEF k
<1>5. m \in 0 .. h /\ m \in Nat /\ (k > 0 => m = k - 1)
  BY <1>1, <1>2
<1>6. \E new : Listed(rpn \o Popped(k), p + 1, new)
  <2>1. \A j \in 1 .. Len(ops) : j > k <=> at[j] \in Emitted /\ When[at[j]] = p
    BY <1>4
  <2>2. p \in Nat /\ k \in 0 .. Len(ops)
    BY <1>1, <1>2
  <2>. QED
    BY <1>1, <1>3, <2>1, <2>2, ListPopped
<1>7. SubSeq(ops, 1, k - 1) = stack
  <2>1. CASE k > 0
    BY <1>5, <2>1
  <2>2. CASE k = 0
    <3>1. m = 0 /\ 1 .. 0 = {} /\ 1 .. -1 = {}
      BY <2>2
    <3>. QED
      BY <1>1, <2>2, <3>1
  <2>. QED
    BY <1>2, <2>1, <2>2
<1>8. Stacked(stack, p + 1, rest)
  <2>1. \A j \in 1 .. Len(ops) : j <= m <=> When[at[j]] # p
    BY <1>1, <1>2, <1>4
  <2>. HIDE DEF m
  <2>. QED
    BY <1>1, <1>5, <2>1, StackPopped
<1>9. /\ stack \in Seq(Token) /\ Len(stack) = m
      /\ \A i \in 1 .. m : stack[i] = ops[i]
  <2>1. m \in Int /\ m <= Len(ops) /\ ~(m < 0)
    BY <1>1, <1>5
  <2>. HIDE DEF m
  <2>. QED
    BY <1>1, <2>1, PrefixFacts
<1>10. \A j \in 1 .. m : rest[j] = at[j] /\ rest[j] \in Nat
  BY <1>1, <1>4, <1>5
<1>. HIDE DEF stack, rest, m, h
<1>11. ASSUME NEW j \in 1 .. m
       PROVE  Level(p) - Level(p - 1) = OpenIn(stack, j) - OpenIn(ops, j)
  <2>1. Level(p) = Level(p - 1) - 1 /\ Level(p - 1) \in Int
    <3>1. p - 1 \in Nat /\ tokens[p].symbol # "("
      BY <1>1
    <3>. QED
      BY <1>1, <3>1, Levels
  <2>2. OpenIn(ops, j) = OpenIn(stack, j) + 1
    <3>1. k > 0 /\ Len(stack) = k - 1 /\ Len(stack) < Len(ops) /\ Len(stack) + 1 = k
      BY <1>1, <1>2, <1>5, <1>9 DEF h, m
    <3>2. /\ ops[Len(stack) + 1].symbol = "("
          /\ \A i \in Len(stack) + 2 .. Len(ops) : ops[i].symbol # "("
      BY <1>1, <1>2, <3>1 DEF h
    <3>3. j \in 0 .. Len(stack)
      BY <1>5, <1>9
    <3>. QED
      BY <1>1, <1>9, <3>1, <3>2, <3>3, OpenInTop
  <2>3. OpenIn(stack, j) \in Nat
    BY <1>5, <1>9, OpenInType
  <2>. QED
    BY <2>1, <2>2, <2>3
<1>12. Nested(stack, p + 1, rest)
  <2>1. Len(stack) <= Len(ops)
    BY <1>5, <1>9 DEF h
  <2>. QED
    BY <1>1, <1>9, <1>10, <1>11, <2>1, NestedBelow, Zenon
<1>. QED
  BY <1>6, <1>7, <1>8, <1>12 DEF YardAt, k

LEMMA OperationStep ==
    ASSUME TypeOK, NEW p \in DOMAIN tokens, YardAt(rpn, ops, p), IsOperation(tokens[p])
    PROVE  LET k == Kept(Weaker(tokens[p].symbol))
           IN  YardAt(rpn \o Popped(k), Append(SubSeq(ops, 1, k), tokens[p]), p + 1)
<1>. PICK src, at : Listed(rpn, p, src) /\ Stacked(ops, p, at) /\ Nested(ops, p, at)
  BY DEF YardAt
<1>. DEFINE t == tokens[p]
            k == Kept(Weaker(t.symbol))
            h == Len(ops)
            below == SubSeq(ops, 1, k)
            new == [j \in 1 .. k + 1 |-> IF j = k + 1 THEN p ELSE at[j]]
<1>1. /\ tokens \in Seq(Token) /\ rpn \in Seq(Token) /\ ops \in Seq(Token) /\ h \in Nat
      /\ p \in Nat \ {0} /\ t \in Token
  BY DEF TypeOK
<1>2. /\ k \in 0 .. h /\ (k > 0 => Precedence(ops[k].symbol) < Precedence(t.symbol))
      /\ \A i \in k + 1 .. h : ~(Precedence(ops[i].symbol) < Precedence(t.symbol))
  <2>1. /\ k \in 0 .. h /\ (k > 0 => ops[k].symbol \in Weaker(t.symbol))
        /\ \A i \in k + 1 .. h : ops[i].symbol \notin Weaker(t.symbol)
    BY <1>1, KeptFacts
  <2>. HIDE DEF k, t
  <2>2. \A i \in k + 1 .. h : i \in DOMAIN ops
    BY <1>1, <2>1
  <2>3. \A i \in DOMAIN ops : ops[i].symbol \in Weaker(t.symbol)
                                  <=> Precedence(ops[i].symbol) < Precedence(t.symbol)
    BY DEF Weaker
  <2>4. k > 0 => k \in DOMAIN ops
    BY <1>1, <2>1
  <2>. QED
    BY <2>1, <2>2, <2>3, <2>4
<1>3. ~t.isNumber /\ t.symbol # ")" /\ t.symbol # "("
  BY DEF IsOperation
<1>4. \A j \in 1 .. h : /\ When[at[j]] = p <=> j > k
                        /\ When[at[j]] = p => at[j] \in Emitted
                        /\ at[j] \in Nat
  <2>1. ASSUME NEW j \in 1 .. h
        PROVE  at[j] \in DOMAIN tokens /\ at[j] \in Nat
    BY <1>1, StackedPlaces
  <2>. QED
    BY <1>1, <2>1, OperationPops
<1>. HIDE DEF k
<1>5. k \in Nat
  BY <1>1, <1>2
<1>6. \E list : Listed(rpn \o Popped(k), p + 1, list)
  <2>1. \A j \in 1 .. Len(ops) : j > k <=> at[j] \in Emitted /\ When[at[j]] = p
    BY <1>4
  <2>2. p \in Nat /\ k \in 0 .. Len(ops)
    BY <1>1, <1>2
  <2>. QED
    BY <1>1, <1>3, <2>1, <2>2, ListPopped
<1>7. Stacked(Append(below, t), p + 1, new)
  <2>1. \A j \in 1 .. Len(ops) : j <= k <=> When[at[j]] # p
    BY <1>1, <1>4, <1>5
  <2>. QED
    BY <1>1, <1>2, <1>3, <2>1, StackPushed
<1>8. /\ below \in Seq(Token) /\ Len(below) = k
      /\ \A i \in 1 .. k : below[i] = ops[i]
  <2>1. k \in Int /\ k <= Len(ops) /\ ~(k < 0)
    BY <1>1, <1>2, <1>5
  <2>. QED
    BY <1>1, <2>1, PrefixFacts
<1>9. /\ new[k + 1] = p
      /\ \A j \in 1 .. k : new[j] = at[j] /\ new[j] \in Nat /\ j \in 1 .. h /\ j \in Nat
  BY <1>1, <1>2, <1>4, <1>5
<1>. HIDE DEF new, below, h
<1>10. k > 0 => \A i \in k + 1 .. h : ops[i].symbol # "("
  <2>1. ASSUME k > 0, NEW i \in k + 1 .. h
        PROVE  Precedence(ops[i].symbol) # 0
    <3>1. /\ Precedence(ops[k].symbol) < Precedence(t.symbol)
          /\ ~(Precedence(ops[i].symbol) < Precedence(t.symbol))
      BY <1>2, <2>1
    <3>2. \A x : Precedence(x) \in Nat
      BY Precedences
    <3>. QED
      BY <3>1, <3>2
  <2>. QED
    BY <2>1, Precedences
<1>11. ASSUME NEW j \in 1 .. k
       PROVE  Level(p) = Level(new[j]) + OpenIn(Append(below, t), j)
  <2>1. OpenIn(ops, j) = OpenIn(below, j)
    <3>1. k > 0 /\ Len(below) <= Len(ops)
      BY <1>2, <1>5, <1>8 DEF h
    <3>2. \A i \in Len(below) + 1 .. Len(ops) : ops[i].symbol # "("
      BY <1>8, <1>10, <3>1 DEF h
    <3>. QED
      BY <1>1, <1>8, <1>9, <3>1, <3>2, OpenInBelow
  <2>2. OpenIn(Append(below, t), j) = OpenIn(below, j)
    <3>1. /\ Append(below, t) \in Seq(Token) /\ Len(Append(below, t)) = k + 1
          /\ \A i \in 1 .. k + 1 :
                 Append(below, t)[i] = IF i = k + 1 THEN t ELSE below[i]
      <4>1. /\ Append(below, t) \in Seq(Token) /\ Len(Append(below, t)) = Len(below) + 1
            /\ \A i \in 1 .. Len(below) + 1 :
                   Append(below, t)[i] = IF i = Len(below) + 1 THEN t ELSE below[i]
        <5>1. below \in Seq(Token) /\ t \in Token
          BY <1>1, <1>8
        <5>. HIDE DEF below, t
        <5>. QED
          BY <5>1, AppendFacts
      <4>. QED
        BY <1>8, <4>1
    <3>2. /\ Len(below) <= Len(Append(below, t))
          /\ \A i \in 1 .. Len(below) : below[i] = Append(below, t)[i]
      BY <1>5, <1>8, <3>1
    <3>3. \A i \in Len(below) + 1 .. Len(Append(below, t)) : Append(below, t)[i].symbol # "("
      BY <1>3, <1>5, <1>8, <3>1
    <3>. QED
      BY <1>8, <1>9, <3>1, <3>2, <3>3, OpenInBelow
  <2>3. Level(p - 1) = Level(new[j]) + OpenIn(ops, j)
    BY <1>9 DEF Nested, h
  <2>4. Level(p) = Level(p - 1)
    BY <1>1, <1>3, Levels
  <2>. QED
    BY <2>1, <2>2, <2>3, <2>4
<1>12. \A i, j \in 1 .. k :
          i < j /\ (\A m \in i + 1 .. j : below[m].symbol # "(")
              => Precedence(below[i].symbol) < Precedence(below[j].symbol)
  <2>1. SUFFICES ASSUME NEW i \in 1 .. k, NEW j \in 1 .. k, i < j,
                        \A m \in i + 1 .. j : below[m].symbol # "("
                 PROVE  Precedence(below[i].symbol) < Precedence(below[j].symbol)
    OBVIOUS
  <2>2. \A m \in i + 1 .. j : m \in 1 .. k
    BY <1>5
  <2>3. \A m \in i + 1 .. j : ops[m].symbol # "("
    BY <1>8, <2>1, <2>2
  <2>. QED
    BY <1>8, <1>9, <2>1, <2>3 DEF Nested, h
<1>13. ASSUME NEW i \in 1 .. k, \A m \in i + 1 .. k : below[m].symbol # "("
       PROVE  Precedence(below[i].symbol) < Precedence(t.symbol)
  <2>1. k > 0 /\ k \in 1 .. k /\ Precedence(ops[k].symbol) < Precedence(t.symbol)
    BY <1>2, <1>5
  <2>2. CASE i = k
    BY <1>8, <2>1, <2>2
  <2>3. CASE i # k
    <3>1. i < k
      BY <1>5, <2>3
    <3>2. Precedence(below[i].symbol) < Precedence(below[k].symbol)
      BY <1>12, <1>13, <2>1, <3>1
    <3>3. \A x : Precedence(x) \in Nat
      BY Precedences
    <3>4. PICK a, b, c \in Nat : /\ a = Precedence(below[i].symbol)
                                 /\ b = Precedence(below[k].symbol)
                                 /\ c = Precedence(t.symbol)
      BY <3>3
    <3>5. a < b /\ b < c
      BY <1>8, <2>1, <3>2, <3>4
    <3>. QED
      BY <3>4, <3>5
  <2>. QED
    BY <2>2, <2>3
<1>14. Nested(Append(below, t), p + 1, new)
  BY <1>1, <1>8, <1>9, <1>11, <1>12, <1>13, NestedPush
<1>. QED
  BY <1>6, <1>7, <1>14 DEF YardAt, k, below

LEMMA EndStep ==
    ASSUME TypeOK, YardAt(rpn, ops, Len(tokens) + 1)
    PROVE  \E src : Listed(rpn \o Popped(0), Len(tokens) + 2, src)
<1>. DEFINE p == Len(tokens) + 1
<1>. PICK src, at : Listed(rpn, p, src) /\ Stacked(ops, p, at)
  BY DEF YardAt
<1>1. /\ tokens \in Seq(Token) /\ rpn \in Seq(Token) /\ ops \in Seq(Token)
      /\ p \in Nat /\ p + 1 = Len(tokens) + 2 /\ 0 \in 0 .. Len(ops) /\ p \notin DOMAIN tokens
  BY DEF TypeOK
<1>2. \A j \in 1 .. Len(ops) : j > 0 <=> at[j] \in Emitted /\ When[at[j]] = p
  <2>1. ASSUME NEW j \in 1 .. Len(ops)
        PROVE  at[j] \in Emitted /\ When[at[j]] = p
    BY <1>1, EndPops
  <2>. QED
    BY <2>1
<1>. HIDE DEF p
<1>3. \E new : Listed(rpn \o Popped(0), p + 1, new)
  BY <1>1, <1>2, ListPopped
<1>. QED
  BY <1>1, <1>3

\* The invariant is about the tokens, which do not change once toRPN runs.
\* What is said in terms of the tokens alone stays as it is while they do.
LEMMA FormPrimed ==
    ASSUME tokens' = tokens
    PROVE  /\ \A n : Level(n)' = Level(n)
           /\ When' = When /\ Emitted' = Emitted /\ Rank' = Rank
<1>1. \A n : Level(n)' = Level(n)
  BY DEF Level
<1>2. \A p, q : Ends(p, q)' <=> Ends(p, q)
  BY <1>1 DEF Ends, IsOperation, Precedence
<1>3. \A q : End(q)' = End(q)
  BY <1>2 DEF End
<1>4. When' = When
  BY <1>3 DEF When
<1>5. \A q : IsPaired(q)' <=> IsPaired(q)
  BY <1>4 DEF IsPaired
<1>6. Emitted' = Emitted
  BY <1>5 DEF Emitted
<1>7. Rank' = Rank
  BY <1>4, <1>6 DEF Rank
<1>. QED
  BY <1>1, <1>4, <1>6, <1>7

LEMMA YardPrimed ==
    ASSUME tokens' = tokens
    PROVE  /\ YardAt(rpn, ops, pos)' <=> YardAt(rpn', ops', pos')
           /\ (\E src : Listed(rpn, Len(tokens) + 2, src))'
                  <=> \E src : Listed(rpn', Len(tokens) + 2, src)
<1>1. (\A n : Level(n)' = Level(n)) /\ When' = When /\ Emitted' = Emitted
  BY FormPrimed
<1>2. \A src : Listed(rpn, pos, src)' <=> Listed(rpn', pos', src)
  BY <1>1 DEF Listed, Earlier
<1>3. \A src : Listed(rpn, Len(tokens) + 2, src)' <=> Listed(rpn', Len(tokens) + 2, src)
  BY <1>1 DEF Listed, Earlier
<1>4. \A at : Stacked(ops, pos, at)' <=> Stacked(ops', pos', at)
  BY <1>1 DEF Stacked, IsStacked
<1>5. \A at : Nested(ops, pos, at)' <=> Nested(ops', pos', at)
  BY <1>1 DEF Nested, OpenIn, Precedence
<1>. QED
  BY <1>2, <1>3, <1>4, <1>5 DEF YardAt

\* Nothing lies on the stack, or in the result, before the first token.
LEMMA YardStarts ==
    ASSUME tokens \in Seq(Token), rpn = <<>>, ops = <<>>, pos = 1
    PROVE  YardAt(rpn, ops, pos)
<1>. DEFINE none == [i \in {} |-> 1]
<1>1. Len(<<>>) = 0 /\ 1 .. 0 = {} /\ none \in [{} -> DOMAIN tokens]
  OBVIOUS
<1>2. \A q \in DOMAIN tokens : q \in Nat \ {0} /\ When[q] \in Nat /\ When[q] >= q
  <2>1. ASSUME NEW q \in DOMAIN tokens
        PROVE  q \in Nat \ {0} /\ When[q] \in Nat /\ When[q] >= q
    <3>1. When[q] \in q .. Len(tokens) + 1 /\ q \in Nat \ {0} /\ Len(tokens) \in Nat
      BY WhenFacts
    <3>. QED
      BY <3>1
  <2>. QED
    BY <2>1
<1>3. Listed(<<>>, 1, none)
  BY <1>1, <1>2 DEF Listed
<1>4. Stacked(<<>>, 1, none)
  BY <1>1, <1>2 DEF Stacked, IsStacked
<1>5. Nested(<<>>, 1, none)
  BY <1>1 DEF Nested
<1>6. YardAt(<<>>, <<>>, 1)
  BY <1>3, <1>4, <1>5 DEF YardAt
<1>. QED
  BY <1>6

LEMMA InitYard == Init => Yard
BY DEF Init, Yard, Converted

LEMMA NextYard == TypeOK /\ Yard /\ [Next]_vars => Yard'
<1>. SUFFICES ASSUME TypeOK, Yard, [Next]_vars
              PROVE  Yard'
  OBVIOUS
<1>1. TypeOK'
  BY NextType
<1>2. CASE phase = "tokenize" /\ phase' \in {"tokenize", "rejected"} /\ UNCHANGED <<ops, rpn>>
  BY <1>2 DEF Yard, Converted
<1>3. CASE phase = "tokenize" /\ phase' = "toRPN" /\ pos' = 1 /\ UNCHANGED <<ops, rpn>>
  <2>1. (tokens \in Seq(Token) /\ rpn = <<>> /\ ops = <<>> /\ pos = 1)'
    BY <1>1, <1>3 DEF TypeOK, Yard
  <2>2. YardAt(rpn, ops, pos)'
    BY <2>1, YardStarts, PTL
  <2>3. (pos <= Len(tokens) + 1)'
    BY <1>1, <1>3 DEF TypeOK
  <2>. QED
    BY <1>3, <2>2, <2>3 DEF Yard, Converted
<1>4. CASE ToRPN
  <2>. DEFINE p == pos
  <2>1. /\ phase = "toRPN" /\ phase' = "toRPN" /\ tokens' = tokens /\ pos' = p + 1
        /\ p \in DOMAIN tokens /\ p \in Nat /\ Len(tokens) \in Nat /\ p <= Len(tokens)
        /\ tokens \in Seq(Token)
    BY <1>4 DEF ToRPN, TypeOK, Continue
  <2>2. YardAt(rpn, ops, p)
    BY <2>1 DEF Yard
  <2>3. YardAt(rpn', ops', p + 1)
    <3>1. CASE tokens[p].isNumber
      <4>1. tokens[p].symbol = ""
        BY <2>1, <3>1, TokenFacts
      <4>2. rpn' = Append(rpn, tokens[p]) /\ ops' = ops
        BY <1>4, <3>1, <4>1 DEF ToRPN
      <4>. QED
        BY <2>1, <2>2, <3>1, <4>2, NumberStep
    <3>2. CASE tokens[p].symbol = "("
      <4>1. ~tokens[p].isNumber /\ tokens[p].symbol # ")"
        BY <2>1, <3>2, TokenFacts
      <4>2. rpn' = rpn /\ ops' = Append(ops, tokens[p])
        BY <1>4, <3>2, <4>1 DEF ToRPN
      <4>. QED
        BY <2>1, <2>2, <3>2, <4>2, OpeningStep
    <3>3. CASE tokens[p].symbol = ")"
      <4>1. ~tokens[p].isNumber /\ tokens[p].symbol # "("
        BY <2>1, <3>3, TokenFacts
      <4>2. rpn' = rpn \o Popped(Kept({"("})) /\ ops' = SubSeq(ops, 1, Kept({"("}) - 1)
        BY <1>4, <3>3, <4>1 DEF ToRPN
      <4>. QED
        BY <2>1, <2>2, <3>3, <4>2, ClosingStep
    <3>4. CASE IsOperation(tokens[p])
      <4>1. /\ rpn' = rpn \o Popped(Kept(Weaker(tokens[p].symbol)))
            /\ ops' = Append(SubSeq(ops, 1, Kept(Weaker(tokens[p].symbol))), tokens[p])
        BY <1>4, <3>4 DEF ToRPN, IsOperation
      <4>. QED
        BY <2>1, <2>2, <3>4, <4>1, OperationStep
    <3>. QED
      BY <3>1, <3>2, <3>3, <3>4 DEF IsOperation
  <2>4. YardAt(rpn, ops, pos)'
    BY <2>1, <2>3, YardPrimed
  <2>5. (pos <= Len(tokens) + 1)'
    BY <2>1
  <2>. QED
    BY <2>1, <2>4, <2>5 DEF Yard, Converted
<1>5. CASE ToRPNEnd
  <2>1. /\ phase = "toRPN" /\ phase' = "validate" /\ tokens' = tokens
        /\ pos = Len(tokens) + 1 /\ rpn' = rpn \o Popped(0)
    <3>1. /\ phase = "toRPN" /\ phase' = "validate" /\ tokens' = tokens
          /\ pos > Len(tokens) /\ rpn' = rpn \o Popped(0)
      BY <1>5 DEF ToRPNEnd, Goto
    <3>2. pos \in Nat /\ Len(tokens) \in Nat /\ pos <= Len(tokens) + 1
      BY <3>1 DEF TypeOK, Yard
    <3>. QED
      BY <3>1, <3>2
  <2>2. YardAt(rpn, ops, Len(tokens) + 1)
    BY <2>1 DEF Yard
  <2>3. \E src : Listed(rpn', Len(tokens) + 2, src)
    BY <2>1, <2>2, EndStep
  <2>4. (\E src : Listed(rpn, Len(tokens) + 2, src))'
    BY <2>1, <2>3, YardPrimed
  <2>. QED
    BY <2>1, <2>4 DEF Yard, Converted
<1>6. CASE Converted /\ phase' # "tokenize" /\ phase' # "toRPN" /\ UNCHANGED <<tokens, rpn>>
  <2>1. \E src : Listed(rpn', Len(tokens) + 2, src)
    BY <1>6 DEF Yard
  <2>2. (\E src : Listed(rpn, Len(tokens) + 2, src))'
    BY <1>6, <2>1, YardPrimed
  <2>. QED
    BY <1>6, <2>2 DEF Yard
<1>7. CASE UNCHANGED vars
  <2>1. UNCHANGED <<phase, pos, tokens, ops, rpn>>
    BY <1>7 DEF vars
  <2>2. YardAt(rpn, ops, pos)' <=> YardAt(rpn, ops, pos)
    BY <2>1, YardPrimed
  <2>3. (\E src : Listed(rpn, Len(tokens) + 2, src))'
            <=> \E src : Listed(rpn, Len(tokens) + 2, src)
    BY <2>1, YardPrimed
  <2>. QED
    BY <2>1, <2>2, <2>3 DEF Yard, Converted
<1>8. ASSUME phase = "rejected", phase' = "rejected"
      PROVE  Yard'
  BY <1>8 DEF Yard, Converted
<1>9. CASE TokenizeChar \/ TokenizeEnd
  BY <1>2, <1>3, <1>9 DEF TokenizeChar, TokenizeEnd, Goto, Continue
<1>10. CASE Validate \/ ValidateEnd \/ Schedule \/ ScheduleEnd
  BY <1>6, <1>10 DEF Validate, ValidateEnd, Schedule, ScheduleEnd, Goto, Continue, Converted
<1>11. CASE Returned
  BY <1>7, <1>11 DEF Returned
<1>. QED
  BY <1>4, <1>5, <1>7, <1>9, <1>10, <1>11 DEF Next

LEMMA YardInvariance == Spec => [](TypeOK /\ Yard)
<1>1. Init => TypeOK /\ Yard
  BY InitType, InitYard
<1>2. TypeOK /\ Yard /\ [Next]_vars => (TypeOK /\ Yard)'
  BY NextType, NextYard
<1>. QED
  BY <1>1, <1>2, PTL DEF Spec

-----------------------------------------------------------------------------
(***************************************************************************)
(* The rank of a token is its position in a list in that order.             *)
(***************************************************************************)
LEMMA CountingImages ==
    ASSUME NEW n \in Nat, NEW S, NEW f \in [1 .. n -> S],
           \A i, j \in 1 .. n : f[i] = f[j] => i = j,
           \A x \in S : \E i \in 1 .. n : f[i] = x
    PROVE  Cardinality(S) = n
<1>1. f \in Bijection(1 .. n, S)
  BY DEF Bijection, Injection, Surjection, IsInjective
<1>2. ExistsBijection(1 .. n, S)
  BY <1>1 DEF ExistsBijection
<1>. QED
  BY <1>2, FS_CountingElements

LEMMA Ranked ==
    ASSUME tokens \in Seq(Token), NEW p \in Nat, NEW list, NEW src, Listed(list, p, src),
           Len(list) \in Nat
    PROVE  /\ \A j, k \in 1 .. Len(list) : src[j] = src[k] => j = k
           /\ \A k \in 1 .. Len(list) : Rank[src[k]] = k
<1>. DEFINE n == Len(list)
<1>1. \A q \in DOMAIN tokens : When[q] \in Nat /\ q \in Nat
  <2>1. ASSUME NEW q \in DOMAIN tokens
        PROVE  When[q] \in Nat /\ q \in Nat
    <3>1. When[q] \in q .. Len(tokens) + 1 /\ q \in Nat /\ Len(tokens) \in Nat
      BY WhenFacts
    <3>. QED
      BY <3>1
  <2>. QED
    BY <2>1
<1>2. /\ \A k \in 1 .. n : src[k] \in DOMAIN tokens
      /\ \A j, k \in 1 .. n : j < k => Earlier(src[j], src[k])
      /\ \A q \in DOMAIN tokens : (\E k \in 1 .. n : src[k] = q) <=> q \in Emitted /\ When[q] < p
  BY DEF Listed
<1>3. Emitted \subseteq DOMAIN tokens /\ n \in Nat
  BY DEF Emitted
<1>4. \A j, k \in 1 .. n : j < k => src[j] # src[k]
  BY <1>1, <1>2 DEF Earlier
<1>5. \A j, k \in 1 .. n : src[j] = src[k] => j = k
  BY <1>3, <1>4
<1>. HIDE DEF n
<1>6. \A k \in 1 .. n : src[k] \in Emitted /\ When[src[k]] < p
  BY <1>2
<1>8. ASSUME NEW k \in 1 .. n
      PROVE  Rank[src[k]] = k
  <2>. DEFINE q == src[k]
              T == {r \in Emitted : When[r] < When[q] \/ (When[r] = When[q] /\ r >= q)}
              f == [j \in 1 .. k |-> src[j]]
  <2>1. q \in Emitted /\ Rank[q] = Cardinality(T)
    BY <1>6 DEF Rank
  <2>2. \A j \in 1 .. n : src[j] \in T <=> j <= k
    <3>1. SUFFICES ASSUME NEW j \in 1 .. n
                   PROVE  src[j] \in T <=> j <= k
      OBVIOUS
    <3>2. /\ src[j] \in Emitted
          /\ When[src[j]] \in Nat /\ When[q] \in Nat /\ src[j] \in Nat /\ q \in Nat
      BY <1>1, <1>2, <1>6
    <3>3. CASE j = k
      BY <1>3, <3>2, <3>3
    <3>4. CASE j < k
      <4>1. Earlier(src[j], q)
        BY <1>2, <3>4
      <4>. QED
        BY <3>2, <3>4, <4>1 DEF Earlier
    <3>5. CASE j > k
      <4>1. Earlier(q, src[j])
        BY <1>2, <1>3, <3>5
      <4>. QED
        BY <1>3, <3>2, <3>5, <4>1 DEF Earlier
    <3>. QED
      BY <1>3, <3>3, <3>4, <3>5
  <2>3. k \in Nat /\ \A j \in 1 .. k : j \in 1 .. n /\ j <= k /\ f[j] = src[j]
    BY <1>3
  <2>4. \A x \in T : \E j \in 1 .. k : src[j] = x
    <3>1. SUFFICES ASSUME NEW x \in T
                   PROVE  \E j \in 1 .. k : src[j] = x
      OBVIOUS
    <3>2. When[x] < p
      <4>1. When[x] \in Nat /\ When[q] \in Nat /\ When[q] < p
        BY <1>1, <1>3, <1>6, <2>1
      <4>. QED
        BY <4>1
    <3>3. PICK j \in 1 .. n : src[j] = x
      BY <1>2, <1>3, <3>2
    <3>4. j \in 1 .. k
      BY <1>3, <2>2, <2>3, <3>3
    <3>. QED
      BY <3>3, <3>4
  <2>5. \A j \in 1 .. k : src[j] \in T
    BY <2>2, <2>3
  <2>. HIDE DEF T, q
  <2>6. f \in [1 .. k -> T]
    BY <2>5
  <2>7. Cardinality(T) = k
    <3>1. \A i, j \in 1 .. k : f[i] = f[j] => i = j
      BY <1>5, <2>3
    <3>2. \A x \in T : \E j \in 1 .. k : f[j] = x
      BY <2>3, <2>4
    <3>. HIDE DEF f
    <3>. QED
      BY <2>3, <2>6, <3>1, <3>2, CountingImages
  <2>. QED
    BY <2>1, <2>7 DEF q
<1>. QED
  BY <1>5, <1>8 DEF n

\* What has been emitted when toRPN has read token q.
Completed(q) == Cardinality({r \in Emitted : When[r] <= q})

LEMMA CompletedAt ==
    ASSUME tokens \in Seq(Token), NEW q \in Nat, NEW list, NEW src, Listed(list, q + 1, src),
           Len(list) \in Nat
    PROVE  Completed(q) = Len(list)
<1>. DEFINE n == Len(list)
            S == {r \in Emitted : When[r] <= q}
            f == [k \in 1 .. n |-> src[k]]
<1>1. \A r \in Emitted : r \in DOMAIN tokens /\ (When[r] <= q <=> When[r] < q + 1)
  <2>1. ASSUME NEW r \in Emitted
        PROVE  r \in DOMAIN tokens /\ When[r] \in Nat
    <3>1. r \in DOMAIN tokens
      BY DEF Emitted
    <3>2. When[r] \in r .. Len(tokens) + 1 /\ r \in Nat /\ Len(tokens) \in Nat
      BY <3>1, WhenFacts
    <3>. QED
      BY <3>1, <3>2
  <2>. QED
    BY <2>1
<1>2. \A k \in 1 .. n : src[k] \in S
  BY <1>1 DEF Listed
<1>3. \A r \in S : \E k \in 1 .. n : src[k] = r
  BY <1>1 DEF Listed
<1>4. \A j, k \in 1 .. n : src[j] = src[k] => j = k
  BY Ranked
<1>5. n \in Nat
  OBVIOUS
<1>. HIDE DEF S, n
<1>6. f \in [1 .. n -> S] /\ \A k \in 1 .. n : f[k] = src[k]
  BY <1>2
<1>. HIDE DEF f
<1>7. /\ \A i, j \in 1 .. n : f[i] = f[j] => i = j
      /\ \A x \in S : \E i \in 1 .. n : f[i] = x
  BY <1>3, <1>4, <1>6
<1>8. Cardinality(S) = n
  BY <1>5, <1>6, <1>7, CountingImages
<1>. QED
  BY <1>8 DEF Completed, S, n

LEMMA Emission ==
    ASSUME tokens \in Seq(Token), NEW list, NEW src, Listed(list, Len(tokens) + 2, src),
           Len(list) \in Nat
    PROVE  /\ Cardinality(Emitted) = Len(list)
           /\ \A q \in Emitted : \E k \in 1 .. Len(list) : src[k] = q
           /\ \A k \in 1 .. Len(list) : /\ src[k] \in Emitted /\ list[k] = tokens[src[k]]
                                        /\ Rank[src[k]] = k
<1>1. Len(tokens) \in Nat /\ Len(tokens) + 2 = (Len(tokens) + 1) + 1
  OBVIOUS
<1>2. \A q \in Emitted : q \in DOMAIN tokens /\ When[q] <= Len(tokens) + 1
                           /\ When[q] < Len(tokens) + 2
  <2>1. ASSUME NEW q \in Emitted
        PROVE  q \in DOMAIN tokens /\ When[q] \in q .. Len(tokens) + 1 /\ q \in Nat
    BY WhenFacts DEF Emitted
  <2>. QED
    BY <1>1, <2>1
<1>3. Completed(Len(tokens) + 1) = Len(list)
  BY <1>1, CompletedAt
<1>4. Completed(Len(tokens) + 1) = Cardinality(Emitted)
  <2>1. {r \in Emitted : When[r] <= Len(tokens) + 1} = Emitted
    BY <1>2
  <2>. QED
    BY <2>1 DEF Completed
<1>5. \A k \in 1 .. Len(list) : Rank[src[k]] = k
  BY <1>1, Ranked
<1>6. \A k \in 1 .. Len(list) : src[k] \in Emitted /\ list[k] = tokens[src[k]]
  BY DEF Listed
<1>. QED
  BY <1>2, <1>3, <1>4, <1>5, <1>6 DEF Listed

LEMMA YardIsPostfix == TypeOK /\ Yard => RPNIsPostfix
<1>. SUFFICES ASSUME TypeOK, Yard, Converted
              PROVE  LET rank == Rank
                     IN  /\ Len(rpn) = Cardinality(DOMAIN rank)
                         /\ \A q \in DOMAIN rank : rpn[rank[q]] = tokens[q]
  BY DEF RPNIsPostfix, Converted
<1>1. PICK src : Listed(rpn, Len(tokens) + 2, src)
  BY DEF Yard
<1>2. tokens \in Seq(Token) /\ Len(rpn) \in Nat
  BY DEF TypeOK
<1>3. DOMAIN Rank = Emitted
  BY DEF Rank
<1>. QED
  BY <1>1, <1>2, <1>3, Emission

\* toRPN: whatever the string, the result is what the closed form says.
THEOREM ShuntingYardCorrect == Spec => []RPNIsPostfix
BY YardInvariance, YardIsPostfix, PTL

-----------------------------------------------------------------------------
(***************************************************************************)
(* The invariant behind WellFormedIsAccepted.  While toRPN runs on a        *)
(* well-formed expression, what the result leaves on the stack of an        *)
(* evaluation is what the operators still on ops will take from it, and the *)
(* operand that has just been read; and every opening parenthesis that is   *)
(* not closed is on ops.                                                    *)
(***************************************************************************)
CountIn(list, n) == Cardinality({i \in 1 .. n : list[i].symbol \notin Operator})
                    - Cardinality({i \in 1 .. n : list[i].symbol \in Operator})
OperatorsIn(stack, n) == Cardinality({i \in 1 .. n : stack[i].symbol \in Operator})

HaveTwo(list) ==
    \A i \in 1 .. Len(list) : list[i].symbol \in Operator => CountIn(list, i - 1) >= 2

OperandRead(p) == IF p > 1 /\ ClosesOperand(tokens[p - 1]) THEN 1 ELSE 0

Balanced(list, stack, p) ==
    /\ CountIn(list, Len(list)) = OperatorsIn(stack, Len(stack)) + OperandRead(p)
    /\ HaveTwo(list)
    /\ OpenIn(stack, 0) = Level(p - 1)

Balance ==
    /\ phase = "toRPN" /\ IsInfix => Balanced(rpn, ops, pos)
    /\ Converted /\ IsInfix => CountIn(rpn, Len(rpn)) = 1 /\ HaveTwo(rpn)
    /\ phase = "rejected" => ~IsInfix \/ (buf # <<>> /\ ~IsDecimal(buf))

\* Counting goes on over positions that are all counted, or all not.
LEMMA CountingOn ==
    ASSUME NEW S, NEW n \in Nat, NEW m \in Nat, n <= m
    PROVE  /\ n + 1 .. m \subseteq S =>
                  Cardinality((1 .. m) \cap S) = Cardinality((1 .. n) \cap S) + (m - n)
           /\ (n + 1 .. m) \cap S = {} =>
                  Cardinality((1 .. m) \cap S) = Cardinality((1 .. n) \cap S)
<1>. DEFINE C == (1 .. n) \cap S
            D == n + 1 .. m
<1>1. IsFiniteSet(C) /\ Cardinality(C) \in Nat
  BY CountingUp
<1>2. IsFiniteSet(D) /\ Cardinality(D) = m - n
  <2>1. n + 1 \in Int /\ m \in Int
    OBVIOUS
  <2>2. IsFiniteSet(D) /\ Cardinality(D) = IF n + 1 > m THEN 0 ELSE m - (n + 1) + 1
    BY <2>1, FS_Interval
  <2>. HIDE DEF D
  <2>. QED
    BY <2>2
<1>3. C \cap D = {} /\ 1 .. m = (1 .. n) \cup D
  OBVIOUS
<1>4. ASSUME D \subseteq S
      PROVE  Cardinality((1 .. m) \cap S) = Cardinality(C) + (m - n)
  <2>1. Cardinality((1 .. m) \cap S) = Cardinality(C \cup D)
    <3>1. (1 .. m) \cap S = C \cup D
      BY <1>3, <1>4
    <3>. HIDE DEF C, D
    <3>. QED
      BY <3>1, Zenon
  <2>. HIDE DEF C, D
  <2>2. Cardinality(C \cup D) = Cardinality(C) + Cardinality(D) - Cardinality(C \cap D)
    BY <1>1, <1>2, FS_Union
  <2>3. Cardinality(C \cap D) = 0
    BY <1>3, FS_EmptySet
  <2>. QED
    BY <1>1, <1>2, <2>1, <2>2, <2>3
<1>5. ASSUME D \cap S = {}
      PROVE  (1 .. m) \cap S = C
  BY <1>3, <1>5
<1>. QED
  BY <1>4, <1>5

LEMMA CountsIn ==
    ASSUME NEW list
    PROVE  /\ CountIn(list, 0) = 0 /\ OperatorsIn(list, 0) = 0
           /\ \A n \in Nat :
                  /\ CountIn(list, n) \in Int /\ OperatorsIn(list, n) \in Nat
                  /\ list[n + 1].symbol \in Operator =>
                         /\ CountIn(list, n + 1) = CountIn(list, n) - 1
                         /\ OperatorsIn(list, n + 1) = OperatorsIn(list, n) + 1
                  /\ list[n + 1].symbol \notin Operator =>
                         /\ CountIn(list, n + 1) = CountIn(list, n) + 1
                         /\ OperatorsIn(list, n + 1) = OperatorsIn(list, n)
           /\ \A n, m \in Nat :
                  n <= m /\ (\A i \in n + 1 .. m : list[i].symbol \in Operator) =>
                      /\ CountIn(list, m) = CountIn(list, n) - (m - n)
                      /\ OperatorsIn(list, m) = OperatorsIn(list, n) + (m - n)
<1>. DEFINE S == {i \in Nat : list[i].symbol \in Operator}
            R == {i \in Nat : list[i].symbol \notin Operator}
            s(n) == Cardinality((1 .. n) \cap S)
            r(n) == Cardinality((1 .. n) \cap R)
<1>1. ASSUME NEW n \in Nat
      PROVE  CountIn(list, n) = r(n) - s(n) /\ OperatorsIn(list, n) = s(n)
  <2>1. /\ {i \in 1 .. n : list[i].symbol \notin Operator} = (1 .. n) \cap R
        /\ {i \in 1 .. n : list[i].symbol \in Operator} = (1 .. n) \cap S
    OBVIOUS
  <2>. QED
    BY <2>1 DEF CountIn, OperatorsIn
<1>2. ASSUME NEW n \in Nat
      PROVE  /\ s(n) \in Nat /\ r(n) \in Nat /\ s(0) = 0 /\ r(0) = 0
             /\ s(n + 1) = IF n + 1 \in S THEN s(n) + 1 ELSE s(n)
             /\ r(n + 1) = IF n + 1 \in R THEN r(n) + 1 ELSE r(n)
  <2>. HIDE DEF S, R
  <2>. QED
    BY CountingUp, Zenon
<1>3. ASSUME NEW n \in Nat, NEW m \in Nat, n <= m, n + 1 .. m \subseteq S
      PROVE  s(m) = s(n) + (m - n) /\ r(m) = r(n)
  <2>1. (n + 1 .. m) \cap R = {}
    BY <1>3
  <2>. HIDE DEF S, R
  <2>. QED
    BY <1>3, <2>1, CountingOn
<1>4. \A n \in Nat : n + 1 \in Nat /\ (n + 1 \in S <=> list[n + 1].symbol \in Operator)
                     /\ (n + 1 \in R <=> list[n + 1].symbol \notin Operator)
  OBVIOUS
<1>5. ASSUME NEW n \in Nat, NEW m \in Nat, \A i \in n + 1 .. m : list[i].symbol \in Operator
      PROVE  n + 1 .. m \subseteq S
  BY <1>5
<1>. HIDE DEF S, R, s, r
<1>6. CountIn(list, 0) = 0 /\ OperatorsIn(list, 0) = 0
  BY <1>1, <1>2
<1>7. ASSUME NEW n \in Nat
      PROVE  /\ CountIn(list, n) \in Int /\ OperatorsIn(list, n) \in Nat
             /\ list[n + 1].symbol \in Operator =>
                    /\ CountIn(list, n + 1) = CountIn(list, n) - 1
                    /\ OperatorsIn(list, n + 1) = OperatorsIn(list, n) + 1
             /\ list[n + 1].symbol \notin Operator =>
                    /\ CountIn(list, n + 1) = CountIn(list, n) + 1
                    /\ OperatorsIn(list, n + 1) = OperatorsIn(list, n)
  <2>1. /\ CountIn(list, n) = r(n) - s(n) /\ OperatorsIn(list, n) = s(n)
        /\ CountIn(list, n + 1) = r(n + 1) - s(n + 1) /\ OperatorsIn(list, n + 1) = s(n + 1)
    BY <1>1, <1>4
  <2>2. /\ s(n) \in Nat /\ r(n) \in Nat
        /\ s(n + 1) = IF n + 1 \in S THEN s(n) + 1 ELSE s(n)
        /\ r(n + 1) = IF n + 1 \in R THEN r(n) + 1 ELSE r(n)
    BY <1>2
  <2>. QED
    BY <1>4, <2>1, <2>2
<1>8. ASSUME NEW n \in Nat, NEW m \in Nat, n <= m,
             \A i \in n + 1 .. m : list[i].symbol \in Operator
      PROVE  /\ CountIn(list, m) = CountIn(list, n) - (m - n)
             /\ OperatorsIn(list, m) = OperatorsIn(list, n) + (m - n)
  <2>1. s(m) = s(n) + (m - n) /\ r(m) = r(n) /\ s(n) \in Nat /\ r(n) \in Nat
    BY <1>2, <1>3, <1>5, <1>8
  <2>. QED
    BY <1>1, <2>1
<1>. QED
  BY <1>6, <1>7, <1>8

LEMMA CountsNext ==
    ASSUME NEW list, NEW n \in Nat
    PROVE  /\ list[n + 1].symbol \in Operator =>
                  /\ CountIn(list, n + 1) = CountIn(list, n) - 1
                  /\ OperatorsIn(list, n + 1) = OperatorsIn(list, n) + 1
           /\ list[n + 1].symbol \notin Operator =>
                  /\ CountIn(list, n + 1) = CountIn(list, n) + 1
                  /\ OperatorsIn(list, n + 1) = OperatorsIn(list, n)
BY CountsIn

LEMMA CountTypes ==
    ASSUME NEW list, NEW n \in Nat
    PROVE  CountIn(list, n) \in Int /\ OperatorsIn(list, n) \in Nat
BY CountsIn

LEMMA OperatorsCount ==
    ASSUME NEW list, NEW n \in Nat, NEW m \in Nat, n <= m,
           \A i \in n + 1 .. m : list[i].symbol \in Operator
    PROVE  /\ CountIn(list, m) = CountIn(list, n) - (m - n)
           /\ OperatorsIn(list, m) = OperatorsIn(list, n) + (m - n)
BY CountsIn

\* Only what is counted matters.
LEMMA SameCounts ==
    ASSUME NEW s, NEW t, NEW n \in Nat, \A i \in 1 .. n : s[i] = t[i]
    PROVE  CountIn(s, n) = CountIn(t, n) /\ OperatorsIn(s, n) = OperatorsIn(t, n)
<1>1. /\ {i \in 1 .. n : s[i].symbol \notin Operator} = {i \in 1 .. n : t[i].symbol \notin Operator}
      /\ {i \in 1 .. n : s[i].symbol \in Operator} = {i \in 1 .. n : t[i].symbol \in Operator}
  OBVIOUS
<1>. QED
  BY <1>1 DEF CountIn, OperatorsIn

\* Operators may be appended as long as there is one operand more than there are operators.
LEMMA OperatorsAppended ==
    ASSUME NEW list \in Seq(Token), NEW more \in Seq(Token), HaveTwo(list),
           \A i \in 1 .. Len(more) : more[i].symbol \in Operator,
           CountIn(list, Len(list)) > Len(more)
    PROVE  /\ HaveTwo(list \o more)
           /\ CountIn(list \o more, Len(list \o more)) = CountIn(list, Len(list)) - Len(more)
<1>. DEFINE n == Len(list)
            m == Len(more)
            all == list \o more
<1>1. /\ n \in Nat /\ m \in Nat /\ Len(all) = n + m
      /\ \A i \in 1 .. n : all[i] = list[i]
      /\ \A i \in n + 1 .. n + m : all[i] = more[i - n]
  BY ConcatFacts
<1>2. CountIn(list, n) > m
  OBVIOUS
<1>. HIDE DEF all, n, m
<1>3. \A i \in n + 1 .. n + m : all[i].symbol \in Operator
  <2>1. \A i \in n + 1 .. n + m : i - n \in 1 .. m
    BY <1>1
  <2>. QED
    BY <1>1, <2>1 DEF m
<1>4. ASSUME NEW i \in 0 .. n
      PROVE  CountIn(all, i) = CountIn(list, i)
  <2>1. i \in Nat /\ \A x \in 1 .. i : x \in 1 .. n
    BY <1>1
  <2>. QED
    BY <1>1, <2>1, SameCounts
<1>5. CountIn(list, n) \in Int
  BY <1>1, CountsIn
<1>6. ASSUME NEW i \in n .. n + m
      PROVE  CountIn(all, i) = CountIn(list, n) - (i - n)
  <2>1. /\ i \in Nat /\ n <= i /\ n \in 0 .. n
        /\ \A x \in n + 1 .. i : x \in n + 1 .. n + m
    BY <1>1
  <2>2. CountIn(all, i) = CountIn(all, n) - (i - n)
    BY <1>1, <1>3, <2>1, CountsIn
  <2>. QED
    BY <1>4, <2>1, <2>2
<1>7. ASSUME NEW i \in 1 .. n + m, all[i].symbol \in Operator
      PROVE  CountIn(all, i - 1) >= 2
  <2>1. CASE i <= n
    <3>1. i \in 1 .. n /\ i - 1 \in 0 .. n
      BY <1>1, <2>1
    <3>2. list[i].symbol \in Operator
      BY <1>1, <1>7, <3>1
    <3>. QED
      BY <1>4, <3>1, <3>2 DEF HaveTwo, n
  <2>2. CASE i > n
    <3>1. i - 1 \in n .. n + m /\ (i - 1) - n <= m - 1
      BY <1>1, <2>2
    <3>2. CountIn(all, i - 1) = CountIn(list, n) - ((i - 1) - n)
      BY <1>6, <3>1
    <3>. QED
      BY <1>1, <1>2, <1>5, <3>1, <3>2
  <2>. QED
    BY <1>1, <2>1, <2>2
<1>8. CountIn(all, n + m) = CountIn(list, n) - m
  <2>1. n + m \in n .. n + m /\ (n + m) - n = m
    BY <1>1
  <2>. QED
    BY <1>6, <2>1
<1>. QED
  BY <1>1, <1>7, <1>8 DEF HaveTwo, all, n, m

\* In a well-formed expression an operand has been read exactly when none begins.
LEMMA InfixFacts ==
    ASSUME tokens \in Seq(Token), IsInfix, NEW p \in DOMAIN tokens
    PROVE  /\ OperandRead(p) = IF OpensOperand(tokens[p]) THEN 0 ELSE 1
           /\ OperandRead(p + 1) = IF ClosesOperand(tokens[p]) THEN 1 ELSE 0
           /\ OperandRead(Len(tokens) + 1) = 1
           /\ IsOperation(tokens[p]) => tokens[p].symbol \in Operator
<1>1. p \in 1 .. Len(tokens) /\ Len(tokens) \in Nat /\ p \in Nat
  OBVIOUS
<1>2. /\ OpensOperand(tokens[1]) /\ ClosesOperand(tokens[Len(tokens)])
      /\ \A i \in 1 .. Len(tokens) - 1 : ClosesOperand(tokens[i]) <=> ~OpensOperand(tokens[i + 1])
      /\ IsOperation(tokens[p]) => tokens[p].symbol \in Operator
  BY DEF IsInfix
<1>3. OperandRead(p) = IF OpensOperand(tokens[p]) THEN 0 ELSE 1
  <2>1. CASE p = 1
    BY <1>2, <2>1 DEF OperandRead
  <2>2. CASE p # 1
    <3>1. p - 1 \in 1 .. Len(tokens) - 1 /\ (p - 1) + 1 = p /\ p > 1
      BY <1>1, <2>2
    <3>2. ClosesOperand(tokens[p - 1]) <=> ~OpensOperand(tokens[p])
      BY <1>2, <3>1
    <3>. QED
      BY <3>1, <3>2 DEF OperandRead
  <2>. QED
    BY <2>1, <2>2
<1>4. /\ p + 1 > 1 /\ (p + 1) - 1 = p
      /\ Len(tokens) + 1 > 1 /\ (Len(tokens) + 1) - 1 = Len(tokens)
  BY <1>1
<1>. QED
  BY <1>2, <1>3, <1>4 DEF OperandRead

LEMMA InfixStack ==
    ASSUME tokens \in Seq(Token), IsInfix, NEW p, NEW at, Stacked(ops, p, at),
           NEW j \in 1 .. Len(ops)
    PROVE  ops[j].symbol = "(" \/ ops[j].symbol \in Operator
<1>1. at[j] \in DOMAIN tokens /\ ops[j] = tokens[at[j]] /\ IsStacked(at[j], p)
  BY DEF Stacked
<1>. QED
  BY <1>1, InfixFacts DEF IsStacked, IsOperation

\* Popping operators once their operands have been read.
LEMMA BalancePopped ==
    ASSUME rpn \in Seq(Token), ops \in Seq(Token), NEW k \in 0 .. Len(ops),
           \A j \in k + 1 .. Len(ops) : ops[j].symbol \in Operator,
           CountIn(rpn, Len(rpn)) = OperatorsIn(ops, Len(ops)) + 1, HaveTwo(rpn)
    PROVE  LET list == rpn \o Popped(k)
           IN  HaveTwo(list) /\ CountIn(list, Len(list)) = OperatorsIn(ops, k) + 1
<1>. DEFINE h == Len(ops)
<1>1. h \in Nat /\ k \in Nat /\ k <= h
  OBVIOUS
<1>2. OperatorsIn(ops, h) = OperatorsIn(ops, k) + (h - k) /\ OperatorsIn(ops, k) \in Nat
  BY <1>1, CountsIn
<1>3. /\ Popped(k) \in Seq(Token) /\ Len(Popped(k)) = h - k
      /\ \A i \in 1 .. h - k : Popped(k)[i] = ops[h + 1 - i]
  BY PoppedAt
<1>4. \A i \in 1 .. Len(Popped(k)) : Popped(k)[i].symbol \in Operator
  <2>1. \A i \in 1 .. h - k : h + 1 - i \in k + 1 .. h
    BY <1>1
  <2>. QED
    BY <1>3, <2>1
<1>5. CountIn(rpn, Len(rpn)) > Len(Popped(k))
  BY <1>1, <1>2, <1>3
<1>6. /\ HaveTwo(rpn \o Popped(k))
      /\ CountIn(rpn \o Popped(k), Len(rpn \o Popped(k))) = CountIn(rpn, Len(rpn)) - (h - k)
  BY <1>3, <1>4, <1>5, OperatorsAppended
<1>. QED
  BY <1>1, <1>2, <1>6

LEMMA NumberBalance ==
    ASSUME TypeOK, NEW p \in DOMAIN tokens, IsInfix, Balanced(rpn, ops, p), tokens[p].isNumber
    PROVE  Balanced(Append(rpn, tokens[p]), ops, p + 1)
<1>. DEFINE n == Len(rpn)
            t == tokens[p]
            list == Append(rpn, t)
<1>1. /\ tokens \in Seq(Token) /\ rpn \in Seq(Token) /\ n \in Nat
      /\ ops \in Seq(Token) /\ Len(ops) \in Nat /\ p \in Nat \ {0} /\ t \in Token
  BY DEF TypeOK
<1>2. /\ Len(list) = n + 1
      /\ \A i \in 1 .. n + 1 : list[i] = IF i = n + 1 THEN t ELSE rpn[i]
  BY <1>1, AppendFacts
<1>3. t.symbol = "" /\ t.symbol \notin Operator
  BY <1>1, TokenFacts DEF Operator
<1>. HIDE DEF n, list, t
<1>4. ASSUME NEW i \in 0 .. n
      PROVE  CountIn(list, i) = CountIn(rpn, i)
  <2>1. i \in Nat /\ \A x \in 1 .. i : list[x] = rpn[x]
    BY <1>1, <1>2
  <2>. QED
    BY <2>1, SameCounts
<1>5. CountIn(list, n + 1) = CountIn(rpn, n) + 1
  <2>1. n \in 0 .. n /\ n + 1 \in 1 .. n + 1
    BY <1>1
  <2>2. list[n + 1].symbol \notin Operator
    BY <1>2, <1>3, <2>1
  <2>3. CountIn(list, n + 1) = CountIn(list, n) + 1
    BY <1>1, <2>2, CountsIn
  <2>. QED
    BY <1>4, <2>1, <2>3
<1>6. HaveTwo(list)
  <2>1. ASSUME NEW i \in 1 .. n + 1, list[i].symbol \in Operator
        PROVE  CountIn(list, i - 1) >= 2
    <3>1. i # n + 1
      BY <1>2, <1>3, <2>1
    <3>2. i \in 1 .. n /\ i - 1 \in 0 .. n
      BY <1>1, <3>1
    <3>. QED
      BY <1>2, <1>4, <2>1, <3>1, <3>2 DEF Balanced, HaveTwo, n
  <2>. QED
    BY <1>2, <2>1 DEF HaveTwo
<1>7. OperandRead(p) = 0 /\ OperandRead(p + 1) = 1
  BY <1>1, InfixFacts DEF OpensOperand, ClosesOperand
<1>8. OpenIn(ops, 0) = Level((p + 1) - 1)
  <2>1. (p + 1) - 1 = p
    BY <1>1
  <2>2. Level(p) = Level(p - 1)
    BY <1>1, <1>3, Levels DEF t
  <2>. QED
    BY <2>1, <2>2 DEF Balanced
<1>9. CountIn(rpn, n) = OperatorsIn(ops, Len(ops)) + 0 /\ OperatorsIn(ops, Len(ops)) \in Nat
  BY <1>1, <1>7, CountsIn DEF Balanced, n
<1>. QED
  BY <1>2, <1>5, <1>6, <1>7, <1>8, <1>9 DEF Balanced, list, t

LEMMA OpeningBalance ==
    ASSUME TypeOK, NEW p \in DOMAIN tokens, IsInfix, Balanced(rpn, ops, p), tokens[p].symbol = "("
    PROVE  Balanced(rpn, Append(ops, tokens[p]), p + 1)
<1>. DEFINE h == Len(ops)
            t == tokens[p]
            stack == Append(ops, t)
<1>1. /\ tokens \in Seq(Token) /\ ops \in Seq(Token) /\ h \in Nat
      /\ p \in Nat \ {0} /\ t \in Token /\ p - 1 \in Nat /\ (p + 1) - 1 = p
  BY DEF TypeOK
<1>2. /\ stack \in Seq(Token) /\ Len(stack) = h + 1
      /\ \A i \in 1 .. h + 1 : stack[i] = IF i = h + 1 THEN t ELSE ops[i]
  BY <1>1, AppendFacts
<1>3. stack[h + 1].symbol = "(" /\ \A i \in 1 .. h : ops[i] = stack[i]
  BY <1>1, <1>2
<1>4. ~t.isNumber
  BY <1>1, TokenFacts
<1>5. OperandRead(p) = 0 /\ OperandRead(p + 1) = 0
  BY <1>1, <1>4, InfixFacts DEF OpensOperand, ClosesOperand
<1>. HIDE DEF stack
<1>6. OperatorsIn(stack, h + 1) = OperatorsIn(ops, h)
  <2>1. OperatorsIn(stack, h) = OperatorsIn(ops, h)
    BY <1>1, <1>3, SameCounts
  <2>2. stack[h + 1].symbol \notin Operator
    BY <1>3 DEF Operator
  <2>3. OperatorsIn(stack, h + 1) = OperatorsIn(stack, h)
    BY <1>1, <2>2, CountsNext
  <2>. QED
    BY <2>1, <2>3
<1>7. OpenIn(stack, 0) = OpenIn(ops, 0) + 1
  <2>1. 0 \in 0 .. Len(ops) /\ Len(ops) < Len(stack) /\ stack[Len(ops) + 1].symbol = "("
        /\ \A i \in Len(ops) + 2 .. Len(stack) : FALSE
    BY <1>1, <1>2, <1>3
  <2>. QED
    BY <1>1, <1>2, <1>3, <2>1, OpenInTop
<1>8. Level(p) = Level(p - 1) + 1
  BY <1>1, Levels
<1>. QED
  BY <1>1, <1>2, <1>5, <1>6, <1>7, <1>8 DEF Balanced, stack

\* In a well-formed expression a closing parenthesis finds the opening one, and operators above.
LEMMA ClosingOperators ==
    ASSUME TypeOK, NEW p \in DOMAIN tokens, IsInfix, YardAt(rpn, ops, p),
           Balanced(rpn, ops, p), tokens[p].symbol = ")"
    PROVE  LET k == Kept({"("})
           IN  /\ k > 0 /\ ops[k].symbol = "("
               /\ \A j \in k + 1 .. Len(ops) : ops[j].symbol \in Operator
<1>. DEFINE k == Kept({"("})
            h == Len(ops)
<1>. PICK at : Stacked(ops, p, at)
  BY DEF YardAt
<1>1. /\ tokens \in Seq(Token) /\ ops \in Seq(Token) /\ h \in Nat
      /\ p \in Nat \ {0} /\ p - 1 \in Nat
  BY DEF TypeOK
<1>2. ~tokens[p].isNumber /\ tokens[p].symbol # "("
  BY <1>1, TokenFacts
<1>4. Level(p) = Level(p - 1) - 1 /\ Level(p - 1) = OpenIn(ops, 0) /\ Level(p) >= 0
  <2>1. Level(p) = Level(p - 1) - 1
    BY <1>1, <1>2, Levels
  <2>. QED
    BY <2>1 DEF Balanced, IsInfix
<1>5. /\ k \in 0 .. h /\ (k > 0 => ops[k].symbol = "(")
      /\ \A i \in k + 1 .. h : ops[i].symbol # "("
  BY <1>1, KeptFacts
<1>. HIDE DEF k
<1>6. k > 0
  <2>1. OpenIn(ops, 0) \in Nat /\ Level(p - 1) \in Int
    BY <1>1, Levels, OpenInType
  <2>2. OpenIn(ops, 0) # 0
    BY <1>4, <2>1
  <2>3. ~\A i \in 0 + 1 .. h : ops[i].symbol # "("
    BY <1>1, <2>2, OpenInType
  <2>4. k = 0 => \A i \in 0 + 1 .. h : ops[i].symbol # "("
    BY <1>5
  <2>. QED
    BY <1>1, <1>5, <2>3, <2>4
<1>7. \A j \in k + 1 .. h : j \in 1 .. Len(ops)
  BY <1>1, <1>5
<1>8. \A j \in k + 1 .. h : ops[j].symbol \in Operator
  BY <1>1, <1>5, <1>7, InfixStack
<1>. QED
  BY <1>5, <1>6, <1>8 DEF k

\* What is not weaker than an operator is one.
LEMMA OperationOperators ==
    ASSUME TypeOK, NEW p \in DOMAIN tokens, IsInfix, IsOperation(tokens[p])
    PROVE  LET k == Kept(Weaker(tokens[p].symbol))
           IN  \A j \in k + 1 .. Len(ops) : ops[j].symbol \in Operator
<1>. DEFINE s == tokens[p].symbol
            k == Kept(Weaker(s))
<1>1. tokens \in Seq(Token) /\ ops \in Seq(Token) /\ Len(ops) \in Nat
  BY DEF TypeOK
<1>2. s \in Operator
  BY <1>1, InfixFacts
<1>3. k \in 0 .. Len(ops) /\ \A i \in k + 1 .. Len(ops) : ops[i].symbol \notin Weaker(s)
  BY <1>1, KeptFacts
<1>. HIDE DEF k, s
<1>4. SUFFICES ASSUME NEW i \in k + 1 .. Len(ops)
               PROVE  ops[i].symbol \in Operator
  BY DEF k, s
<1>5. i \in DOMAIN ops
  BY <1>1, <1>3
<1>6. ~(Precedence(ops[i].symbol) < Precedence(s))
  BY <1>3, <1>5 DEF Weaker
<1>7. Precedence(s) # 0 /\ \A x : Precedence(x) \in Nat
  BY <1>2, Precedences
<1>8. Precedence(ops[i].symbol) # 0
  BY <1>6, <1>7
<1>. QED
  BY <1>8, Precedences

LEMMA EndOperators ==
    ASSUME TypeOK, IsInfix, YardAt(rpn, ops, Len(tokens) + 1),
           Balanced(rpn, ops, Len(tokens) + 1)
    PROVE  \A j \in 0 + 1 .. Len(ops) : ops[j].symbol \in Operator
<1>. PICK at : Stacked(ops, Len(tokens) + 1, at)
  BY DEF YardAt
<1>1. /\ tokens \in Seq(Token) /\ ops \in Seq(Token) /\ Len(tokens) \in Nat
      /\ (Len(tokens) + 1) - 1 = Len(tokens)
  BY DEF TypeOK
<1>2. OpenIn(ops, 0) = 0
  BY <1>1 DEF Balanced, IsInfix
<1>3. \A j \in 0 + 1 .. Len(ops) : ops[j].symbol # "("
  BY <1>1, <1>2, OpenInType
<1>. QED
  BY <1>1, <1>3, InfixStack

LEMMA ClosingBalance ==
    ASSUME TypeOK, NEW p \in DOMAIN tokens, IsInfix, YardAt(rpn, ops, p),
           Balanced(rpn, ops, p), tokens[p].symbol = ")"
    PROVE  LET k == Kept({"("})
           IN  Balanced(rpn \o Popped(k), SubSeq(ops, 1, k - 1), p + 1)
<1>. DEFINE k == Kept({"("})
            h == Len(ops)
            stack == SubSeq(ops, 1, k - 1)
            list == rpn \o Popped(k)
<1>1. /\ tokens \in Seq(Token) /\ rpn \in Seq(Token) /\ ops \in Seq(Token) /\ h \in Nat
      /\ p \in Nat \ {0} /\ p - 1 \in Nat /\ (p + 1) - 1 = p
  BY DEF TypeOK
<1>2. ~tokens[p].isNumber /\ tokens[p].symbol # "("
  BY <1>1, TokenFacts
<1>3. OperandRead(p) = 1 /\ OperandRead(p + 1) = 1
  BY <1>1, <1>2, InfixFacts DEF OpensOperand, ClosesOperand
<1>4. Level(p) = Level(p - 1) - 1 /\ Level(p - 1) = OpenIn(ops, 0)
  BY <1>1, <1>2, Levels DEF Balanced
<1>5. /\ k \in 0 .. h /\ \A i \in k + 1 .. h : ops[i].symbol # "("
  BY <1>1, KeptFacts
<1>6. /\ k > 0 /\ ops[k].symbol = "("
      /\ \A j \in k + 1 .. h : ops[j].symbol \in Operator
  BY ClosingOperators
<1>. HIDE DEF k
<1>7. /\ k \in Nat /\ k - 1 \in Nat /\ (k - 1) + 1 = k
      /\ stack \in Seq(Token) /\ Len(stack) = k - 1
      /\ \A i \in 1 .. k - 1 : stack[i] = ops[i]
  <2>1. k - 1 \in Int /\ k - 1 <= Len(ops) /\ ~(k - 1 < 0) /\ k \in Nat
    BY <1>1, <1>5, <1>6
  <2>. QED
    BY <1>1, <2>1, PrefixFacts
<1>8. HaveTwo(list) /\ CountIn(list, Len(list)) = OperatorsIn(ops, k) + 1
  <2>1. CountIn(rpn, Len(rpn)) = OperatorsIn(ops, Len(ops)) + 1 /\ HaveTwo(rpn)
    BY <1>3 DEF Balanced
  <2>. QED
    BY <1>1, <1>5, <1>6, <2>1, BalancePopped
<1>9. OperatorsIn(ops, k) = OperatorsIn(stack, k - 1)
  <2>1. OperatorsIn(stack, k - 1) = OperatorsIn(ops, k - 1)
    BY <1>7, SameCounts
  <2>2. ops[(k - 1) + 1].symbol \notin Operator
    BY <1>5, <1>6, <1>7 DEF Operator
  <2>3. OperatorsIn(ops, (k - 1) + 1) = OperatorsIn(ops, k - 1)
    BY <1>7, <2>2, CountsIn
  <2>. QED
    BY <1>7, <2>1, <2>3
<1>10. OpenIn(ops, 0) = OpenIn(stack, 0) + 1
  <2>1. /\ Len(stack) < Len(ops) /\ 0 \in 0 .. Len(stack) /\ Len(stack) + 1 = k
        /\ ops[Len(stack) + 1].symbol = "("
        /\ \A i \in Len(stack) + 2 .. Len(ops) : ops[i].symbol # "("
    BY <1>1, <1>5, <1>6, <1>7
  <2>2. \A i \in 1 .. Len(stack) : stack[i] = ops[i]
    BY <1>7
  <2>. QED
    BY <1>1, <1>7, <2>1, <2>2, OpenInTop
<1>11. OpenIn(stack, 0) \in Nat
  BY <1>7, OpenInType
<1>. QED
  BY <1>1, <1>3, <1>4, <1>7, <1>8, <1>9, <1>10, <1>11 DEF Balanced, k

LEMMA OperationBalance ==
    ASSUME TypeOK, NEW p \in DOMAIN tokens, IsInfix, Balanced(rpn, ops, p),
           IsOperation(tokens[p])
    PROVE  LET k == Kept(Weaker(tokens[p].symbol))
           IN  Balanced(rpn \o Popped(k), Append(SubSeq(ops, 1, k), tokens[p]), p + 1)
<1>. DEFINE t == tokens[p]
            k == Kept(Weaker(t.symbol))
            h == Len(ops)
            below == SubSeq(ops, 1, k)
            stack == Append(below, t)
            list == rpn \o Popped(k)
<1>1. /\ tokens \in Seq(Token) /\ rpn \in Seq(Token) /\ ops \in Seq(Token) /\ h \in Nat
      /\ p \in Nat \ {0} /\ p - 1 \in Nat /\ (p + 1) - 1 = p /\ t \in Token
  BY DEF TypeOK
<1>2. ~t.isNumber /\ t.symbol \notin {"(", ")"} /\ t.symbol \in Operator
  BY <1>1, InfixFacts DEF IsOperation
<1>3. OperandRead(p) = 1 /\ OperandRead(p + 1) = 0
  BY <1>1, <1>2, InfixFacts DEF OpensOperand, ClosesOperand
<1>4. Level(p) = Level(p - 1)
  BY <1>1, <1>2, Levels
<1>5. k \in 0 .. h
  BY <1>1, KeptFacts
<1>6. \A j \in k + 1 .. h : ops[j].symbol \in Operator
  BY OperationOperators
<1>. HIDE DEF k, t
<1>7. /\ k \in Nat /\ below \in Seq(Token) /\ Len(below) = k
      /\ \A i \in 1 .. k : below[i] = ops[i]
  <2>1. k \in Int /\ k <= Len(ops) /\ ~(k < 0) /\ k \in Nat
    BY <1>1, <1>5
  <2>. QED
    BY <1>1, <2>1, PrefixFacts
<1>8. /\ stack \in Seq(Token) /\ Len(stack) = k + 1
      /\ \A i \in 1 .. k : stack[i] = below[i]
      /\ stack[k + 1] = t
  <2>1. /\ stack \in Seq(Token) /\ Len(stack) = Len(below) + 1
        /\ \A i \in 1 .. Len(below) + 1 : stack[i] = IF i = Len(below) + 1 THEN t ELSE below[i]
    BY <1>1, <1>7, AppendFacts
  <2>. HIDE DEF stack, below
  <2>. QED
    BY <1>7, <2>1
<1>9. HaveTwo(list) /\ CountIn(list, Len(list)) = OperatorsIn(ops, k) + 1
  <2>1. CountIn(rpn, Len(rpn)) = OperatorsIn(ops, Len(ops)) + 1 /\ HaveTwo(rpn)
    BY <1>3 DEF Balanced
  <2>. QED
    BY <1>1, <1>5, <1>6, <2>1, BalancePopped
<1>. HIDE DEF stack, below
<1>10. OperatorsIn(stack, k + 1) = OperatorsIn(ops, k) + 1
  <2>1. OperatorsIn(stack, k) = OperatorsIn(ops, k)
    BY <1>7, <1>8, SameCounts
  <2>2. OperatorsIn(stack, k + 1) = OperatorsIn(stack, k) + 1
    <3>1. stack[k + 1].symbol \in Operator /\ k \in Nat
      BY <1>2, <1>7, <1>8
    <3>. QED
      BY <3>1, CountsNext
  <2>. QED
    BY <2>1, <2>2
<1>11. OpenIn(stack, 0) = OpenIn(ops, 0)
  <2>1. \A i \in k + 1 .. h : ops[i].symbol # "("
    BY <1>6 DEF Operator
  <2>2. OpenIn(ops, 0) = OpenIn(below, 0)
    <3>1. Len(below) <= Len(ops) /\ Len(below) = k /\ Len(ops) = h
      BY <1>1, <1>5, <1>7
    <3>2. \A i \in 1 .. Len(below) : below[i] = ops[i]
      BY <1>7, <3>1
    <3>3. \A i \in Len(below) + 1 .. Len(ops) : ops[i].symbol # "("
      BY <2>1, <3>1
    <3>. QED
      BY <1>1, <1>7, <3>1, <3>2, <3>3, OpenInBelow
  <2>3. OpenIn(stack, 0) = OpenIn(below, 0)
    <3>1. /\ Len(below) <= Len(stack)
          /\ \A i \in 1 .. Len(below) : below[i] = stack[i]
          /\ \A i \in Len(below) + 1 .. Len(stack) : stack[i].symbol # "("
      BY <1>2, <1>7, <1>8
    <3>. QED
      BY <1>7, <1>8, <3>1, OpenInBelow
  <2>. QED
    BY <2>2, <2>3
<1>12. OperatorsIn(ops, k) \in Nat
  BY <1>7, CountsIn
<1>. QED
  BY <1>1, <1>3, <1>4, <1>8, <1>9, <1>10, <1>11, <1>12 DEF Balanced, k, t, stack, below

LEMMA EndBalance ==
    ASSUME TypeOK, IsInfix, YardAt(rpn, ops, Len(tokens) + 1),
           Balanced(rpn, ops, Len(tokens) + 1)
    PROVE  LET list == rpn \o Popped(0)
           IN  CountIn(list, Len(list)) = 1 /\ HaveTwo(list)
<1>1. /\ tokens \in Seq(Token) /\ rpn \in Seq(Token) /\ ops \in Seq(Token)
      /\ Len(ops) \in Nat /\ Len(tokens) \in Nat /\ 0 \in 0 .. Len(ops)
      /\ (Len(tokens) + 1) - 1 = Len(tokens) /\ Len(tokens) \in DOMAIN tokens
  BY DEF TypeOK, IsInfix
<1>2. \A j \in 0 + 1 .. Len(ops) : ops[j].symbol \in Operator
  BY EndOperators
<1>3. CountIn(rpn, Len(rpn)) = OperatorsIn(ops, Len(ops)) + 1 /\ HaveTwo(rpn)
  BY <1>1, InfixFacts DEF Balanced
<1>4. OperatorsIn(ops, 0) = 0
  BY CountsIn
<1>. QED
  BY <1>1, <1>2, <1>3, <1>4, BalancePopped

\* Well-formedness is about the tokens, too.
LEMMA BalancePrimed ==
    ASSUME tokens' = tokens
    PROVE  /\ IsInfix' <=> IsInfix
           /\ Balanced(rpn, ops, pos)' <=> Balanced(rpn', ops', pos')
           /\ (CountIn(rpn, Len(rpn)) = 1 /\ HaveTwo(rpn))'
                  <=> CountIn(rpn', Len(rpn')) = 1 /\ HaveTwo(rpn')
<1>1. \A n : Level(n)' = Level(n)
  BY FormPrimed
<1>2. IsInfix' <=> IsInfix
  BY <1>1 DEF IsInfix, OpensOperand, ClosesOperand, IsOperation, Operator
<1>3. HaveTwo(rpn)' <=> HaveTwo(rpn')
  BY DEF HaveTwo, CountIn, Operator
<1>4. CountIn(rpn, Len(rpn))' = CountIn(rpn', Len(rpn'))
  BY DEF CountIn, Operator
<1>5. OperatorsIn(ops, Len(ops))' = OperatorsIn(ops', Len(ops'))
  BY DEF OperatorsIn, Operator
<1>6. OperandRead(pos)' = OperandRead(pos')
  BY DEF OperandRead, ClosesOperand
<1>7. OpenIn(ops, 0)' = OpenIn(ops', 0)
  BY DEF OpenIn
<1>8. Balanced(rpn, ops, pos)' <=> Balanced(rpn', ops', pos')
  BY <1>1, <1>3, <1>4, <1>5, <1>6, <1>7 DEF Balanced
<1>. QED
  BY <1>2, <1>3, <1>4, <1>8

LEMMA BalanceStarts ==
    ASSUME rpn = <<>>, ops = <<>>, pos = 1
    PROVE  Balanced(rpn, ops, pos)
<1>1. Len(<<>>) = 0 /\ 1 .. 0 = {} /\ 1 - 1 = 0
  OBVIOUS
<1>2. CountIn(<<>>, 0) = 0 /\ OperatorsIn(<<>>, 0) = 0
  BY CountsIn
<1>3. OperandRead(1) = 0
  BY DEF OperandRead
<1>4. OpenIn(<<>>, 0) = 0
  <2>1. <<>> \in Seq(Token) /\ 0 \in Nat /\ \A i \in 0 + 1 .. 0 : FALSE
    OBVIOUS
  <2>. QED
    BY <1>1, <2>1, OpenInType
<1>5. HaveTwo(<<>>)
  BY <1>1 DEF HaveTwo
<1>. QED
  BY <1>1, <1>2, <1>3, <1>4, <1>5, Levels DEF Balanced

LEMMA InitBalance == Init => Balance
BY DEF Init, Balance, Converted

LEMMA NextBalance == IInv /\ Yard /\ Balance /\ [Next]_vars => Balance'
<1>. SUFFICES ASSUME IInv, Yard, Balance, [Next]_vars
              PROVE  Balance'
  OBVIOUS
<1>. TypeOK /\ StackIsCounted
  BY DEF IInv
<1>1. CASE phase = "tokenize" /\ phase' = "tokenize"
  BY <1>1 DEF Balance, Converted
<1>2. CASE /\ phase' = "rejected" /\ UNCHANGED buf
           /\ buf # <<>> /\ ~IsDecimal(buf)
  BY <1>2 DEF Balance, Converted, IsDecimal
<1>3. CASE phase = "tokenize" /\ phase' = "toRPN" /\ pos' = 1 /\ UNCHANGED <<ops, rpn>>
  <2>1. (rpn = <<>> /\ ops = <<>> /\ pos = 1)'
    BY <1>3 DEF Yard
  <2>2. Balanced(rpn, ops, pos)'
    BY <2>1, BalanceStarts, PTL
  <2>. QED
    BY <1>3, <2>2 DEF Balance, Converted
<1>4. CASE ToRPN
  <2>. DEFINE p == pos
  <2>1. /\ phase = "toRPN" /\ phase' = "toRPN" /\ tokens' = tokens /\ pos' = p + 1
        /\ p \in DOMAIN tokens /\ tokens \in Seq(Token)
    BY <1>4 DEF ToRPN, TypeOK, Continue
  <2>2. SUFFICES ASSUME IsInfix
                 PROVE  Balanced(rpn', ops', p + 1)
    BY <2>1, BalancePrimed DEF Balance, Converted
  <2>3. YardAt(rpn, ops, p) /\ Balanced(rpn, ops, p)
    BY <2>1, <2>2 DEF Yard, Balance
  <2>. HIDE DEF p
  <2>4. CASE tokens[p].isNumber
    <3>1. tokens[p].symbol = ""
      BY <2>1, <2>4, TokenFacts
    <3>2. rpn' = Append(rpn, tokens[p]) /\ ops' = ops
      BY <1>4, <2>4, <3>1 DEF ToRPN, p
    <3>. QED
      BY <2>1, <2>2, <2>3, <2>4, <3>2, NumberBalance
  <2>5. CASE tokens[p].symbol = "("
    <3>1. ~tokens[p].isNumber /\ tokens[p].symbol # ")"
      BY <2>1, <2>5, TokenFacts
    <3>2. rpn' = rpn /\ ops' = Append(ops, tokens[p])
      BY <1>4, <2>5, <3>1 DEF ToRPN, p
    <3>. QED
      BY <2>1, <2>2, <2>3, <2>5, <3>2, OpeningBalance
  <2>6. CASE tokens[p].symbol = ")"
    <3>1. ~tokens[p].isNumber /\ tokens[p].symbol # "("
      BY <2>1, <2>6, TokenFacts
    <3>2. rpn' = rpn \o Popped(Kept({"("})) /\ ops' = SubSeq(ops, 1, Kept({"("}) - 1)
      BY <1>4, <2>6, <3>1 DEF ToRPN, p
    <3>. QED
      BY <2>1, <2>2, <2>3, <2>6, <3>2, ClosingBalance
  <2>7. CASE IsOperation(tokens[p])
    <3>1. /\ rpn' = rpn \o Popped(Kept(Weaker(tokens[p].symbol)))
          /\ ops' = Append(SubSeq(ops, 1, Kept(Weaker(tokens[p].symbol))), tokens[p])
      BY <1>4, <2>7 DEF ToRPN, IsOperation, p
    <3>. QED
      BY <2>1, <2>2, <2>3, <2>7, <3>1, OperationBalance
  <2>. QED
    BY <2>4, <2>5, <2>6, <2>7 DEF IsOperation
<1>5. CASE ToRPNEnd
  <2>1. /\ phase = "toRPN" /\ phase' = "validate" /\ tokens' = tokens
        /\ pos > Len(tokens) /\ rpn' = rpn \o Popped(0)
    BY <1>5 DEF ToRPNEnd, Goto
  <2>2. pos \in Nat /\ Len(tokens) \in Nat /\ pos <= Len(tokens) + 1
    BY <2>1 DEF TypeOK, Yard
  <2>3. pos = Len(tokens) + 1
    BY <2>1, <2>2
  <2>4. SUFFICES ASSUME IsInfix
                 PROVE  CountIn(rpn', Len(rpn')) = 1 /\ HaveTwo(rpn')
    BY <2>1, BalancePrimed DEF Balance
  <2>5. YardAt(rpn, ops, Len(tokens) + 1) /\ Balanced(rpn, ops, Len(tokens) + 1)
    BY <2>1, <2>3, <2>4 DEF Yard, Balance
  <2>. QED
    BY <2>1, <2>4, <2>5, EndBalance
<1>6. CASE Converted /\ Converted' /\ UNCHANGED <<tokens, rpn>>
  BY <1>6, BalancePrimed DEF Balance, Converted
<1>7. CASE phase = "validate" /\ phase' = "rejected" /\ (Validate \/ ValidateEnd)
  <2>1. /\ UNCHANGED <<tokens, rpn>>
        /\ pos <= Len(rpn) + 1 /\ depth = CountIn(rpn, pos - 1)
        /\ rpn \in Seq(Token) /\ Len(rpn) \in Nat /\ pos \in Nat \ {0}
    BY <1>7 DEF Validate, ValidateEnd, StackIsCounted, Counted, CountIn, TypeOK
  <2>2. SUFFICES ASSUME IsInfix
                 PROVE  FALSE
    BY <1>7, <2>1, BalancePrimed DEF Balance, Converted
  <2>3. CountIn(rpn, Len(rpn)) = 1 /\ HaveTwo(rpn)
    BY <1>7, <2>2 DEF Balance, Converted
  <2>4. CASE Validate
    <3>1. rpn[pos].symbol \in Operator /\ depth < 2 /\ pos \in 1 .. Len(rpn)
      BY <1>7, <2>1, <2>4 DEF Validate, Continue
    <3>2. depth >= 2 /\ depth \in Nat
      BY <2>1, <2>3, <3>1 DEF HaveTwo, TypeOK
    <3>. QED
      BY <3>1, <3>2
  <2>5. CASE ValidateEnd
    <3>1. depth # 1 /\ pos - 1 = Len(rpn)
      BY <1>7, <2>1, <2>5 DEF ValidateEnd, Goto
    <3>. QED
      BY <2>1, <2>3, <3>1
  <2>. QED
    BY <1>7, <2>4, <2>5
<1>8. CASE UNCHANGED vars
  <2>1. UNCHANGED <<phase, pos, buf, tokens, ops, rpn>>
    BY <1>8 DEF vars
  <2>2. /\ IsInfix' <=> IsInfix
        /\ Balanced(rpn, ops, pos)' <=> Balanced(rpn, ops, pos)
        /\ (CountIn(rpn, Len(rpn)) = 1 /\ HaveTwo(rpn))'
               <=> CountIn(rpn, Len(rpn)) = 1 /\ HaveTwo(rpn)
    BY <2>1, BalancePrimed
  <2>. QED
    BY <2>1, <2>2 DEF Balance, Converted, IsDecimal
<1>9. CASE TokenizeChar \/ TokenizeEnd
  BY <1>1, <1>2, <1>3, <1>9 DEF TokenizeChar, TokenizeEnd, Goto, Continue
<1>10. CASE Validate \/ ValidateEnd \/ Schedule \/ ScheduleEnd
  BY <1>6, <1>7, <1>10 DEF Validate, ValidateEnd, Schedule, ScheduleEnd, Goto, Continue, Converted
<1>11. CASE Returned
  BY <1>8, <1>11 DEF Returned
<1>. QED
  BY <1>4, <1>5, <1>8, <1>9, <1>10, <1>11 DEF Next

LEMMA BalanceInvariance == Spec => [](IInv /\ Yard /\ Balance)
<1>1. Init => IInv /\ Yard /\ Balance
  BY InitInv, InitYard, InitBalance
<1>2. IInv => TypeOK
  BY DEF IInv
<1>3. IInv /\ Yard /\ Balance /\ [Next]_vars => (IInv /\ Yard /\ Balance)'
  BY <1>2, NextInv, NextYard, NextBalance
<1>. QED
  BY <1>1, <1>3, PTL DEF Spec

LEMMA BalanceAccepts == Balance => WellFormedIsAccepted
BY DEF Balance, WellFormedIsAccepted

\* Parse refuses no well-formed expression with an operator (validateRPN, calc.go:142).
THEOREM Acceptance == Spec => []WellFormedIsAccepted
BY BalanceInvariance, BalanceAccepts, PTL

-----------------------------------------------------------------------------
(***************************************************************************)
(* The invariant behind PlanIsTheExpression.  The left operand of an        *)
(* operator ends where the result ended when toRPN came to the operator:    *)
(* from there on, the operator is emitted when the stack of an evaluation   *)
(* is higher by one and has not been lower.                                 *)
(***************************************************************************)
\* Of the first n symbols of the list, the first c are the last ones that leave b operands.
Above(list, c, n, b) ==
    /\ c \in 0 .. n
    /\ CountIn(list, c) = b
    /\ \A e \in c + 1 .. n : CountIn(list, e) > b

Spanned(list, p) ==
    /\ \A k \in 1 .. Len(list) : list[k].isNumber \/ list[k].symbol \in Operator
    /\ \A q \in Emitted :
           When[q] < p /\ tokens[q].symbol \in Operator =>
               Above(list, Completed(q), Rank[q] - 1, CountIn(list, Rank[q] - 1) - 1)

Waiting(list, stack, p) ==
    \A at : Stacked(stack, p, at) =>
        \A j \in 1 .. Len(stack) :
            stack[j].symbol \in Operator =>
                Above(list, Completed(at[j]), Len(list), OperatorsIn(stack, j))

Spans ==
    /\ phase = "toRPN" /\ IsInfix => Spanned(rpn, pos) /\ Waiting(rpn, ops, pos)
    /\ Converted /\ IsInfix => Spanned(rpn, Len(tokens) + 2)

\* What is stacked, and so where it comes from, is the same for both.
LEMMA StackedOnce ==
    ASSUME tokens \in Seq(Token), NEW p, NEW stack \in Seq(Token),
           NEW a, NEW b, Stacked(stack, p, a) /\ Stacked(stack, p, b)
    PROVE  \A j \in 1 .. Len(stack) : a[j] = b[j]
<1>. TAKE j \in 1 .. Len(stack)
<1>. DEFINE Up(q) == {r \in DOMAIN tokens : IsStacked(r, p) /\ r <= q}
<1>1. Len(stack) \in Nat /\ \A q \in DOMAIN tokens : q \in Nat
  OBVIOUS
<1>2. ASSUME NEW at, Stacked(stack, p, at), NEW k \in 1 .. Len(stack)
      PROVE  at[k] \in DOMAIN tokens /\ IsStacked(at[k], p) /\ Cardinality(Up(at[k])) = k
  <2>. DEFINE h == Len(stack)
              S == Up(at[k])
              f == [i \in 1 .. k |-> at[i]]
  <2>1. /\ \A i \in 1 .. h : at[i] \in DOMAIN tokens
        /\ \A i, m \in 1 .. h : i < m => at[i] < at[m]
        /\ \A q \in DOMAIN tokens : (\E i \in 1 .. h : at[i] = q) <=> IsStacked(q, p)
    BY <1>2 DEF Stacked
  <2>2. k \in Nat /\ \A i \in 1 .. k : i \in 1 .. h /\ f[i] = at[i]
    BY <1>1
  <2>3. \A i, m \in 1 .. h : i \in Nat /\ (at[i] = at[m] => i = m) /\ (at[i] <= at[m] => i <= m)
    BY <1>1, <2>1
  <2>4. \A i \in 1 .. k : at[i] <= at[k]
    <3>1. ASSUME NEW i \in 1 .. k
          PROVE  at[i] <= at[k]
      <4>1. i < k \/ i = k
        BY <2>2
      <4>2. at[i] \in Nat /\ at[k] \in Nat
        BY <1>1, <2>1, <2>2
      <4>3. i < k => at[i] < at[k]
        BY <2>1, <2>2
      <4>. QED
        BY <4>1, <4>2, <4>3
    <3>. QED
      BY <3>1
  <2>. HIDE DEF h
  <2>5. \A i \in 1 .. k : f[i] \in S
    BY <2>1, <2>2, <2>4
  <2>6. \A r \in S : \E i \in 1 .. k : f[i] = r
    <3>1. SUFFICES ASSUME NEW r \in S
                   PROVE  \E i \in 1 .. k : f[i] = r
      OBVIOUS
    <3>2. PICK i \in 1 .. h : at[i] = r
      BY <2>1
    <3>3. i <= k /\ i \in 1 .. k
      BY <2>2, <2>3, <3>2 DEF h
    <3>. QED
      BY <2>2, <3>2, <3>3
  <2>7. \A i, m \in 1 .. k : f[i] = f[m] => i = m
    BY <2>2, <2>3
  <2>8. f \in [1 .. k -> S]
    BY <2>5
  <2>9. Cardinality(S) = k
    <3>. HIDE DEF S, f
    <3>. QED
      BY <2>2, <2>6, <2>7, <2>8, CountingImages
  <2>. QED
    BY <2>1, <2>9 DEF h
<1>3. a[j] \in DOMAIN tokens /\ IsStacked(a[j], p) /\ Cardinality(Up(a[j])) = j
  BY <1>2
<1>4. PICK i \in 1 .. Len(stack) : b[i] = a[j]
  BY <1>3 DEF Stacked
<1>5. Cardinality(Up(b[i])) = i
  BY <1>2
<1>. QED
  BY <1>3, <1>4, <1>5

\* A longer list with the same beginning, which leaves more operands from there on.
LEMMA AboveOn ==
    ASSUME NEW list, NEW all, NEW c, NEW n \in Nat, NEW m \in Nat, n <= m, NEW b,
           Above(list, c, n, b), \A i \in 1 .. n : all[i] = list[i],
           \A e \in n + 1 .. m : CountIn(all, e) > b
    PROVE  Above(all, c, m, b)
<1>1. \A e \in 0 .. n : CountIn(all, e) = CountIn(list, e)
  <2>1. SUFFICES ASSUME NEW e \in 0 .. n
                 PROVE  CountIn(all, e) = CountIn(list, e)
    OBVIOUS
  <2>2. e \in Nat /\ \A i \in 1 .. e : all[i] = list[i]
    OBVIOUS
  <2>. QED
    BY <2>2, SameCounts
<1>2. c \in 0 .. n /\ CountIn(list, c) = b /\ \A e \in c + 1 .. n : CountIn(list, e) > b
  BY DEF Above
<1>3. c \in 0 .. m /\ \A e \in c + 1 .. m : e \in c + 1 .. n \/ e \in n + 1 .. m
  BY <1>2
<1>4. \A e \in c + 1 .. n : e \in 0 .. n
  BY <1>2
<1>. QED
  BY <1>1, <1>2, <1>3, <1>4 DEF Above

LEMMA OperatorsGrow ==
    ASSUME NEW stack, NEW m \in Nat, NEW n \in 0 .. m
    PROVE  OperatorsIn(stack, n) <= OperatorsIn(stack, m)
<1>. DEFINE small == {i \in 1 .. n : stack[i].symbol \in Operator}
            large == {i \in 1 .. m : stack[i].symbol \in Operator}
<1>1. IsFiniteSet(large)
  <2>1. IsFiniteSet(1 .. m) /\ large \subseteq 1 .. m
    BY FS_Interval
  <2>. QED
    BY <2>1, FS_Subset, Zenon
<1>2. small \subseteq large
  OBVIOUS
<1>3. Cardinality(small) <= Cardinality(large)
  <2>. HIDE DEF small, large
  <2>. QED
    BY <1>1, <1>2, FS_Subset
<1>. QED
  BY <1>3 DEF OperatorsIn

\* What a popping loop leaves: one operand for each operator that is still below.
LEMMA PoppedCounts ==
    ASSUME rpn \in Seq(Token), ops \in Seq(Token), NEW k \in 0 .. Len(ops),
           \A j \in k + 1 .. Len(ops) : ops[j].symbol \in Operator,
           CountIn(rpn, Len(rpn)) = OperatorsIn(ops, Len(ops)) + 1
    PROVE  /\ \A i \in 1 .. Len(rpn) : (rpn \o Popped(k))[i] = rpn[i]
           /\ \A i \in 0 .. Len(ops) - k :
                  CountIn(rpn \o Popped(k), Len(rpn) + i) = OperatorsIn(ops, Len(ops) - i) + 1
<1>. DEFINE n == Len(rpn)
            h == Len(ops)
            list == rpn \o Popped(k)
<1>1. n \in Nat /\ h \in Nat /\ k \in Nat /\ k <= h
  OBVIOUS
<1>2. /\ Popped(k) \in Seq(Token) /\ Len(Popped(k)) = h - k
      /\ \A i \in 1 .. h - k : Popped(k)[i] = ops[h + 1 - i]
  BY PoppedAt
<1>3. /\ \A i \in 1 .. n : list[i] = rpn[i]
      /\ \A i \in n + 1 .. n + (h - k) : list[i] = Popped(k)[i - n]
  BY <1>2, ConcatFacts
<1>4. \A i \in n + 1 .. n + (h - k) : list[i].symbol \in Operator
  <2>1. \A i \in n + 1 .. n + (h - k) : i - n \in 1 .. h - k /\ h + 1 - (i - n) \in k + 1 .. h
    BY <1>1
  <2>. QED
    BY <1>2, <1>3, <2>1
<1>5. CountIn(list, n) = OperatorsIn(ops, h) + 1
  BY <1>1, <1>3, SameCounts
<1>. HIDE DEF n, h, list
<1>6. ASSUME NEW i \in 0 .. h - k
      PROVE  CountIn(list, n + i) = OperatorsIn(ops, h - i) + 1
  <2>1. /\ n + i \in Nat /\ n <= n + i /\ h - i \in Nat /\ h - i <= h
        /\ \A x \in n + 1 .. n + i : x \in n + 1 .. n + (h - k)
        /\ \A x \in (h - i) + 1 .. h : x \in k + 1 .. h
    BY <1>1
  <2>2. CountIn(list, n + i) = CountIn(list, n) - i
    <3>1. PICK m \in Nat : m = n + i
      BY <2>1
    <3>2. \A x \in n + 1 .. m : list[x].symbol \in Operator
      BY <1>4, <2>1, <3>1
    <3>3. CountIn(list, m) = CountIn(list, n) - (m - n)
      BY <1>1, <2>1, <3>1, <3>2, OperatorsCount
    <3>4. m - n = i
      BY <1>1, <3>1
    <3>. QED
      BY <3>1, <3>3, <3>4
  <2>3. OperatorsIn(ops, h) = OperatorsIn(ops, h - i) + i /\ OperatorsIn(ops, h - i) \in Nat
    <3>1. \A x \in (h - i) + 1 .. h : ops[x].symbol \in Operator
      BY <2>1 DEF h
    <3>2. OperatorsIn(ops, h) = OperatorsIn(ops, h - i) + (h - (h - i))
      BY <1>1, <2>1, <3>1, OperatorsCount
    <3>3. OperatorsIn(ops, h - i) \in Nat
      BY <2>1, CountTypes
    <3>4. h - (h - i) = i
      BY <1>1
    <3>. QED
      BY <3>2, <3>3, <3>4
  <2>. QED
    BY <1>5, <2>2, <2>3
<1>. QED
  BY <1>3, <1>6 DEF n, h, list

\* Popping operators keeps what is known of the ones that are popped and of the ones that stay.
LEMMA SpansPopped ==
    ASSUME TypeOK, NEW p \in Nat, NEW src, Listed(rpn, p, src), NEW at, Stacked(ops, p, at),
           NEW k \in 0 .. Len(ops),
           \A j \in 1 .. Len(ops) : j > k <=> at[j] \in Emitted /\ When[at[j]] = p,
           p \in DOMAIN tokens => ~tokens[p].isNumber,
           \A j \in k + 1 .. Len(ops) : ops[j].symbol \in Operator,
           CountIn(rpn, Len(rpn)) = OperatorsIn(ops, Len(ops)) + 1,
           Spanned(rpn, p), Waiting(rpn, ops, p)
    PROVE  LET list == rpn \o Popped(k) IN
           /\ Spanned(list, p + 1)
           /\ \A j \in 1 .. k : ops[j].symbol \in Operator =>
                  Above(list, Completed(at[j]), Len(list), OperatorsIn(ops, j))
<1>. DEFINE n == Len(rpn)
            h == Len(ops)
            list == rpn \o Popped(k)
            new == [i \in 1 .. n + (h - k) |-> IF i <= n THEN src[i] ELSE at[h + 1 - (i - n)]]
<1>1. /\ tokens \in Seq(Token) /\ rpn \in Seq(Token) /\ ops \in Seq(Token)
      /\ n \in Nat /\ h \in Nat /\ k \in Nat /\ k <= h
  BY DEF TypeOK
<1>2. /\ Popped(k) \in Seq(Token) /\ Len(Popped(k)) = h - k
      /\ \A i \in 1 .. h - k : Popped(k)[i] = ops[h + 1 - i]
  BY <1>1, PoppedAt
<1>3. /\ Len(list) = n + (h - k)
      /\ \A i \in 1 .. n : list[i] = rpn[i]
      /\ \A i \in n + 1 .. n + (h - k) : list[i] = Popped(k)[i - n]
  <2>1. /\ Len(list) = n + Len(Popped(k))
        /\ \A i \in 1 .. n : list[i] = rpn[i]
        /\ \A i \in n + 1 .. n + Len(Popped(k)) : list[i] = Popped(k)[i - n]
    BY <1>1, <1>2, ConcatFacts
  <2>. HIDE DEF list
  <2>. QED
    BY <1>2, <2>1
<1>4. Listed(list, p + 1, new)
  BY <1>1, ListPopped
<1>5. \A i \in 0 .. h - k : CountIn(list, n + i) = OperatorsIn(ops, h - i) + 1
  BY <1>1, PoppedCounts
<1>6. \A j \in 1 .. h : at[j] \in DOMAIN tokens /\ ops[j] = tokens[at[j]]
  BY DEF Stacked
<1>7. \A j \in k + 1 .. h : new[n + (h + 1 - j)] = at[j]
  <2>1. ASSUME NEW j \in k + 1 .. h
        PROVE  new[n + (h + 1 - j)] = at[j]
    <3>1. /\ n + (h + 1 - j) \in 1 .. n + (h - k) /\ ~(n + (h + 1 - j) <= n)
          /\ h + 1 - ((n + (h + 1 - j)) - n) = j
      BY <1>1
    <3>. HIDE DEF n, h
    <3>. QED
      BY <3>1
  <2>. QED
    BY <2>1
<1>. HIDE DEF n, h, list, new
<1>8. ASSUME NEW i \in 1 .. Len(list)
      PROVE  list[i].isNumber \/ list[i].symbol \in Operator
  <2>1. CASE i \in 1 .. n
    BY <1>3, <2>1 DEF Spanned, n
  <2>2. CASE i \in n + 1 .. n + (h - k)
    <3>1. i - n \in 1 .. h - k /\ h + 1 - (i - n) \in k + 1 .. h
      BY <1>1, <2>2
    <3>2. list[i] = ops[h + 1 - (i - n)]
      <4>1. list[i] = Popped(k)[i - n] /\ Popped(k)[i - n] = ops[h + 1 - (i - n)]
        BY <1>2, <1>3, <2>2, <3>1
      <4>. QED
        BY <4>1
    <3>. QED
      BY <3>1, <3>2 DEF h
  <2>. QED
    BY <1>1, <1>3, <2>1, <2>2
\* What waits on the stack goes on waiting while what lies above it is popped.
<1>9. ASSUME NEW j \in 1 .. h, ops[j].symbol \in Operator,
             NEW m \in 0 .. h - k, m <= h - j
      PROVE  Above(list, Completed(at[j]), n + m, OperatorsIn(ops, j))
  <2>1. Above(rpn, Completed(at[j]), n, OperatorsIn(ops, j))
    BY <1>9 DEF Waiting, n, h
  <2>2. ASSUME NEW e \in n + 1 .. n + m
        PROVE  CountIn(list, e) > OperatorsIn(ops, j)
    <3>1. PICK i \in 1 .. m : e = n + i
      <4>1. e - n \in 1 .. m /\ e = n + (e - n)
        BY <1>1
      <4>. QED
        BY <4>1
    <3>2. /\ i \in 0 .. h - k /\ h - i \in Nat /\ j \in 0 .. h - i
      BY <1>1, <1>9, <3>1
    <3>3. CountIn(list, e) = OperatorsIn(ops, h - i) + 1
      BY <1>5, <3>1, <3>2
    <3>4. OperatorsIn(ops, j) <= OperatorsIn(ops, h - i)
      BY <3>2, OperatorsGrow
    <3>5. OperatorsIn(ops, j) \in Nat /\ OperatorsIn(ops, h - i) \in Nat
      BY <1>1, <3>2, CountTypes
    <3>. QED
      BY <3>3, <3>4, <3>5
  <2>3. PICK l \in Nat : l = n + m
    BY <1>1
  <2>4. n <= l /\ \A e \in n + 1 .. l : CountIn(list, e) > OperatorsIn(ops, j)
    BY <1>1, <2>2, <2>3
  <2>5. Above(list, Completed(at[j]), l, OperatorsIn(ops, j))
    BY <1>1, <1>3, <2>1, <2>4, AboveOn
  <2>. QED
    BY <2>3, <2>5
<1>10. ASSUME NEW q \in Emitted, When[q] < p + 1, tokens[q].symbol \in Operator
       PROVE  Above(list, Completed(q), Rank[q] - 1, CountIn(list, Rank[q] - 1) - 1)
  <2>1. /\ q \in DOMAIN tokens /\ ~tokens[q].isNumber
        /\ When[q] \in Nat /\ q \in Nat /\ q < When[q] /\ tokens[q].symbol # ")"
    <3>1. q \in DOMAIN tokens
      BY DEF Emitted
    <3>2. ~tokens[q].isNumber /\ tokens[q].symbol # ")"
      BY <1>1, <1>10, <3>1, TokenFacts DEF Operator
    <3>3. When[q] \in q + 1 .. Len(tokens) + 1 /\ q \in Nat /\ Len(tokens) \in Nat
      BY <1>1, <3>1, <3>2, WhenFacts
    <3>. QED
      BY <3>1, <3>2, <3>3
  <2>2. CASE When[q] < p
    <3>1. PICK i \in 1 .. n : src[i] = q
      BY <2>1, <2>2 DEF Listed, n
    <3>2. Rank[q] = i
      BY <1>1, <3>1, Ranked DEF n
    <3>3. Above(rpn, Completed(q), i - 1, CountIn(rpn, i - 1) - 1)
      BY <1>10, <2>2, <3>2 DEF Spanned
    <3>4. /\ i - 1 \in Nat /\ i - 1 <= i - 1
          /\ \A x \in 1 .. i - 1 : list[x] = rpn[x]
          /\ \A e \in (i - 1) + 1 .. i - 1 : FALSE
      BY <1>1, <1>3
    <3>5. CountIn(list, i - 1) = CountIn(rpn, i - 1)
      BY <3>4, SameCounts
    <3>6. Above(list, Completed(q), i - 1, CountIn(rpn, i - 1) - 1)
      BY <3>3, <3>4, AboveOn
    <3>. QED
      BY <3>2, <3>5, <3>6
  <2>3. CASE When[q] = p
    <3>1. IsStacked(q, p)
      BY <2>1, <2>3 DEF IsStacked
    <3>2. PICK j \in 1 .. h : at[j] = q
      BY <2>1, <3>1 DEF Stacked, h
    <3>3. j \in k + 1 .. h /\ ops[j].symbol \in Operator
      BY <1>1, <1>6, <1>10, <2>3, <3>2 DEF h
    <3>4. PICK m \in 0 .. h - k : m = h - j
      BY <1>1, <3>3
    <3>5. n + (h + 1 - j) = (n + m) + 1 /\ (n + m) + 1 \in 1 .. n + (h - k) /\ h - m = j
      BY <1>1, <3>3, <3>4
    <3>6. Rank[q] = (n + m) + 1
      <4>1. new[(n + m) + 1] = q
        BY <1>7, <3>2, <3>3, <3>5
      <4>2. (n + m) + 1 \in 1 .. Len(list) /\ Len(list) \in Nat /\ p + 1 \in Nat
        BY <1>1, <1>3, <3>5
      <4>. QED
        BY <1>1, <1>4, <4>1, <4>2, Ranked
    <3>7. Rank[q] - 1 = n + m
      BY <1>1, <3>6
    <3>8. CountIn(list, n + m) - 1 = OperatorsIn(ops, j)
      <4>1. CountIn(list, n + m) = OperatorsIn(ops, j) + 1
        BY <1>5, <3>5
      <4>2. OperatorsIn(ops, j) \in Nat
        BY <1>1, CountTypes
      <4>. QED
        BY <4>1, <4>2
    <3>9. Above(list, Completed(q), n + m, OperatorsIn(ops, j))
      <4>1. m <= h - j
        BY <1>1, <3>4
      <4>2. Above(list, Completed(at[j]), n + m, OperatorsIn(ops, j))
        BY ONLY <1>9, <3>3, <4>1, m \in 0 .. h - k, j \in 1 .. h
      <4>. QED
        BY <3>2, <4>2
    <3>. QED
      BY <3>7, <3>8, <3>9
  <2>. QED
    BY <1>10, <2>1, <2>2, <2>3
<1>11. ASSUME NEW j \in 1 .. k, ops[j].symbol \in Operator
       PROVE  Above(list, Completed(at[j]), Len(list), OperatorsIn(ops, j))
  <2>1. j \in 1 .. h /\ h - k \in 0 .. h - k /\ h - k <= h - j
    BY <1>1
  <2>. QED
    BY <1>3, <1>9, <1>11, <2>1
<1>. QED
  BY <1>8, <1>10, <1>11 DEF Spanned, list

LEMMA NumberSpans ==
    ASSUME TypeOK, NEW p \in DOMAIN tokens, IsInfix, YardAt(rpn, ops, p), Balanced(rpn, ops, p),
           Spanned(rpn, p), Waiting(rpn, ops, p), tokens[p].isNumber
    PROVE  LET list == Append(rpn, tokens[p])
           IN  Spanned(list, p + 1) /\ Waiting(list, ops, p + 1)
<1>. DEFINE n == Len(rpn)
            h == Len(ops)
            t == tokens[p]
            list == Append(rpn, t)
<1>. PICK src : Listed(rpn, p, src)
  BY DEF YardAt
<1>1. /\ tokens \in Seq(Token) /\ rpn \in Seq(Token) /\ ops \in Seq(Token)
      /\ n \in Nat /\ h \in Nat /\ p \in Nat /\ t \in Token
  BY DEF TypeOK
<1>2. /\ Len(list) = n + 1
      /\ \A i \in 1 .. n + 1 : list[i] = IF i = n + 1 THEN t ELSE rpn[i]
  BY <1>1, AppendFacts
<1>3. \A i \in 1 .. n : i \in 1 .. n + 1 /\ list[i] = rpn[i]
  <2>. HIDE DEF list
  <2>. QED
    BY <1>1, <1>2
<1>4. \A q \in DOMAIN tokens : /\ When[q] \in Nat
                               /\ When[q] = p => q = p
                               /\ When[q] < p + 1 /\ q # p => When[q] < p
  <2>1. ASSUME NEW q \in DOMAIN tokens
        PROVE  When[q] \in Nat /\ (When[q] = p => q = p)
    <3>1. When[q] \in q .. Len(tokens) + 1 /\ q \in Nat /\ Len(tokens) \in Nat
      BY <1>1, WhenFacts
    <3>. QED
      BY <1>1, <3>1, NothingEnds
  <2>. QED
    BY <1>1, <2>1
<1>5. t.symbol \notin Operator
  BY <1>1, TokenFacts DEF Operator
<1>. HIDE DEF n, h, t, list
<1>6. \A i \in 1 .. Len(list) : list[i].isNumber \/ list[i].symbol \in Operator
  <2>1. \A i \in 1 .. n + 1 : i \in 1 .. n \/ i = n + 1
    BY <1>1
  <2>2. \A i \in 1 .. n : rpn[i].isNumber \/ rpn[i].symbol \in Operator
    BY DEF Spanned, n
  <2>. QED
    BY <1>2, <1>3, <2>1, <2>2 DEF t
<1>7. ASSUME NEW q \in Emitted, When[q] < p + 1, tokens[q].symbol \in Operator
      PROVE  Above(list, Completed(q), Rank[q] - 1, CountIn(list, Rank[q] - 1) - 1)
  <2>1. q \in DOMAIN tokens /\ q # p /\ When[q] < p
    BY <1>4, <1>5, <1>7 DEF Emitted, t
  <2>2. PICK i \in 1 .. n : src[i] = q
    BY <2>1 DEF Listed, n
  <2>3. Rank[q] = i
    BY <1>1, <2>2, Ranked DEF n
  <2>4. Above(rpn, Completed(q), i - 1, CountIn(rpn, i - 1) - 1)
    BY <1>7, <2>1, <2>3 DEF Spanned
  <2>5. /\ i - 1 \in Nat /\ i - 1 <= i - 1
        /\ \A x \in 1 .. i - 1 : list[x] = rpn[x]
        /\ \A e \in (i - 1) + 1 .. i - 1 : FALSE
    BY <1>1, <1>3
  <2>6. CountIn(list, i - 1) = CountIn(rpn, i - 1)
    BY <2>5, SameCounts
  <2>7. Above(list, Completed(q), i - 1, CountIn(rpn, i - 1) - 1)
    BY <2>4, <2>5, AboveOn
  <2>. QED
    BY <2>3, <2>6, <2>7
<1>8. CountIn(list, n + 1) = OperatorsIn(ops, h) + 1
  <2>1. Balanced(list, ops, p + 1)
    BY NumberBalance DEF list, t
  <2>2. OperandRead(p + 1) = 1
    BY <1>1, InfixFacts DEF ClosesOperand
  <2>. QED
    BY <1>2, <2>1, <2>2 DEF Balanced, h
<1>9. ASSUME NEW at, Stacked(ops, p + 1, at), NEW j \in 1 .. h, ops[j].symbol \in Operator
      PROVE  Above(list, Completed(at[j]), Len(list), OperatorsIn(ops, j))
  <2>1. \A q \in DOMAIN tokens : IsStacked(q, p + 1) <=> IsStacked(q, p)
    <3>1. ASSUME NEW q \in DOMAIN tokens
          PROVE  IsStacked(q, p + 1) <=> IsStacked(q, p) /\ When[q] # p
      BY <1>1, StackedNext
    <3>2. ASSUME NEW q \in DOMAIN tokens, When[q] = p
          PROVE  ~IsStacked(q, p)
      BY <1>1, <1>4, <3>2 DEF IsStacked
    <3>. QED
      BY <3>1, <3>2
  <2>2. Stacked(ops, p, at)
    BY <1>9, <2>1 DEF Stacked
  <2>3. Above(rpn, Completed(at[j]), n, OperatorsIn(ops, j))
    BY <1>9, <2>2 DEF Waiting, n, h
  <2>4. ASSUME NEW e \in n + 1 .. n + 1
        PROVE  CountIn(list, e) > OperatorsIn(ops, j)
    <3>1. e = n + 1 /\ j \in 0 .. h /\ j \in Nat
      BY <1>1
    <3>2. /\ OperatorsIn(ops, j) <= OperatorsIn(ops, h)
          /\ OperatorsIn(ops, j) \in Nat /\ OperatorsIn(ops, h) \in Nat
      BY <1>1, <3>1, OperatorsGrow, CountTypes
    <3>. QED
      BY <1>8, <3>1, <3>2
  <2>5. n + 1 \in Nat /\ n <= n + 1
    BY <1>1
  <2>6. Above(list, Completed(at[j]), n + 1, OperatorsIn(ops, j))
    BY <1>1, <1>3, <2>3, <2>4, <2>5, AboveOn
  <2>. QED
    BY <1>2, <2>6
<1>. QED
  BY <1>6, <1>7, <1>9 DEF Spanned, Waiting, list, h, t

LEMMA OpeningSpans ==
    ASSUME TypeOK, NEW p \in DOMAIN tokens, YardAt(rpn, ops, p),
           Spanned(rpn, p), Waiting(rpn, ops, p), tokens[p].symbol = "("
    PROVE  Spanned(rpn, p + 1) /\ Waiting(rpn, Append(ops, tokens[p]), p + 1)
<1>. DEFINE h == Len(ops)
            t == tokens[p]
            stack == Append(ops, t)
<1>. PICK at : Stacked(ops, p, at)
  BY DEF YardAt
<1>1. /\ tokens \in Seq(Token) /\ ops \in Seq(Token) /\ h \in Nat /\ p \in Nat /\ t \in Token
  BY DEF TypeOK
<1>2. ~t.isNumber /\ t.symbol # ")" /\ t.symbol \notin Operator
  BY <1>1, TokenFacts DEF Operator
<1>3. \A q \in DOMAIN tokens : When[q] \in Nat /\ When[q] # p
  <2>1. ASSUME NEW q \in DOMAIN tokens
        PROVE  When[q] \in Nat /\ When[q] # p
    <3>1. When[q] \in q .. Len(tokens) + 1 /\ q \in Nat /\ Len(tokens) \in Nat
      BY <1>1, WhenFacts
    <3>. QED
      BY <1>1, <1>2, <3>1, NothingEnds
  <2>. QED
    BY <2>1
<1>4. Spanned(rpn, p + 1)
  <2>1. \A q \in Emitted : When[q] < p + 1 => When[q] < p
    BY <1>1, <1>3 DEF Emitted
  <2>. QED
    BY <2>1 DEF Spanned
<1>5. /\ stack \in Seq(Token) /\ Len(stack) = h + 1
      /\ \A i \in 1 .. h + 1 : stack[i] = IF i = h + 1 THEN t ELSE ops[i]
  BY <1>1, AppendFacts
<1>6. Stacked(stack, p + 1, [j \in 1 .. h + 1 |-> IF j = h + 1 THEN p ELSE at[j]])
  <2>1. h \in 0 .. Len(ops) /\ SubSeq(ops, 1, h) = ops
    BY <1>1
  <2>2. \A j \in 1 .. Len(ops) : j <= h <=> When[at[j]] # p
    <3>1. \A j \in 1 .. Len(ops) : at[j] \in DOMAIN tokens
      BY <1>1, StackedPlaces
    <3>2. \A j \in 1 .. Len(ops) : j <= h
      BY <1>1
    <3>. QED
      BY <1>3, <3>1, <3>2
  <2>. HIDE DEF h
  <2>. QED
    BY <1>1, <1>2, <2>1, <2>2, StackPushed DEF stack
<1>7. ASSUME NEW a, Stacked(stack, p + 1, a), NEW j \in 1 .. Len(stack),
             stack[j].symbol \in Operator
      PROVE  Above(rpn, Completed(a[j]), Len(rpn), OperatorsIn(stack, j))
  <2>. HIDE DEF h, stack
  <2>1. j \in 1 .. h + 1 /\ j # h + 1
    BY <1>2, <1>5, <1>7
  <2>2. j \in 1 .. h /\ j \in Nat
    BY <1>1, <2>1
  <2>3. \A i \in 1 .. j : i \in 1 .. h + 1 /\ i # h + 1 /\ stack[i] = ops[i]
    BY <1>1, <1>5, <2>2
  <2>4. a[j] = at[j]
    <3>. DEFINE new == [i \in 1 .. h + 1 |-> IF i = h + 1 THEN p ELSE at[i]]
    <3>1. new[j] = at[j]
      BY <2>1
    <3>. HIDE DEF new
    <3>2. Stacked(stack, p + 1, a) /\ Stacked(stack, p + 1, new)
      BY <1>6, <1>7 DEF new
    <3>3. \A i \in 1 .. Len(stack) : a[i] = new[i]
      BY <1>1, <1>5, <3>2, StackedOnce
    <3>. QED
      BY <3>1, <3>3
  <2>5. OperatorsIn(stack, j) = OperatorsIn(ops, j)
    BY <2>2, <2>3, SameCounts
  <2>6. ops[j].symbol \in Operator
    BY <1>7, <2>2, <2>3
  <2>7. Above(rpn, Completed(at[j]), Len(rpn), OperatorsIn(ops, j))
    BY <2>2, <2>6 DEF Waiting, h
  <2>. QED
    BY <2>4, <2>5, <2>7
<1>. QED
  BY <1>4, <1>7 DEF Waiting, stack, t

\* The part of the stack that stays.
LEMMA WaitingBelow ==
    ASSUME tokens \in Seq(Token), NEW list, NEW at,
           NEW k \in Nat, \A j \in 1 .. k : ops[j].symbol \in Operator =>
                              Above(list, Completed(at[j]), Len(list), OperatorsIn(ops, j)),
           NEW p, NEW stack \in Seq(Token), NEW b, Stacked(stack, p, b),
           NEW a, Stacked(stack, p, a),
           NEW j \in 1 .. Len(stack), j <= k, b[j] = at[j], \A i \in 1 .. j : stack[i] = ops[i],
           stack[j].symbol \in Operator
    PROVE  Above(list, Completed(a[j]), Len(list), OperatorsIn(stack, j))
<1>1. j \in Nat /\ j \in 1 .. k /\ j \in 1 .. j
  OBVIOUS
<1>2. a[j] = at[j]
  <2>1. /\ tokens \in Seq(Token) /\ stack \in Seq(Token)
        /\ Stacked(stack, p, a) /\ Stacked(stack, p, b)
    OBVIOUS
  <2>2. \A i \in 1 .. Len(stack) : a[i] = b[i]
    BY ONLY <2>1, StackedOnce
  <2>. QED
    BY <2>2
<1>3. OperatorsIn(stack, j) = OperatorsIn(ops, j)
  BY <1>1, SameCounts
<1>. QED
  BY <1>1, <1>2, <1>3

LEMMA ClosingSpans ==
    ASSUME TypeOK, NEW p \in DOMAIN tokens, IsInfix, YardAt(rpn, ops, p), Balanced(rpn, ops, p),
           Spanned(rpn, p), Waiting(rpn, ops, p), tokens[p].symbol = ")"
    PROVE  LET k == Kept({"("})
               list == rpn \o Popped(k)
           IN  Spanned(list, p + 1) /\ Waiting(list, SubSeq(ops, 1, k - 1), p + 1)
<1>. PICK src, at : Listed(rpn, p, src) /\ Stacked(ops, p, at) /\ Nested(ops, p, at)
  BY DEF YardAt
<1>. DEFINE k == Kept({"("})
            h == Len(ops)
            list == rpn \o Popped(k)
            stack == SubSeq(ops, 1, k - 1)
            rest == [j \in 1 .. k - 1 |-> at[j]]
<1>1. /\ tokens \in Seq(Token) /\ rpn \in Seq(Token) /\ ops \in Seq(Token) /\ h \in Nat
      /\ p \in Nat \ {0}
  BY DEF TypeOK
<1>2. ~tokens[p].isNumber /\ tokens[p].symbol # "("
  BY <1>1, TokenFacts
<1>3. k \in 0 .. h
  BY <1>1, KeptFacts
<1>4. k > 0 /\ \A j \in k + 1 .. h : ops[j].symbol \in Operator
  BY ClosingOperators
<1>5. \A j \in 1 .. h : /\ When[at[j]] = p <=> j >= k
                        /\ at[j] \in Emitted /\ When[at[j]] = p <=> j > k
  BY <1>1, ClosingPops
<1>6. CountIn(rpn, Len(rpn)) = OperatorsIn(ops, Len(ops)) + 1
  BY <1>1, <1>2, InfixFacts DEF Balanced, OpensOperand
<1>. HIDE DEF k
<1>7. /\ k - 1 \in 0 .. h /\ k - 1 \in Nat
      /\ \A j \in 1 .. h : j <= k - 1 <=> When[at[j]] # p
  <2>1. k \in Nat /\ k - 1 \in 0 .. h /\ k - 1 \in Nat
    BY <1>1, <1>3, <1>4
  <2>2. \A j \in 1 .. h : j <= k - 1 <=> ~(j >= k)
    BY <1>1, <2>1
  <2>. QED
    BY <1>5, <2>1, <2>2
<1>8. /\ Spanned(list, p + 1)
      /\ \A j \in 1 .. k : ops[j].symbol \in Operator =>
             Above(list, Completed(at[j]), Len(list), OperatorsIn(ops, j))
  BY <1>1, <1>2, <1>3, <1>4, <1>5, <1>6, SpansPopped
<1>9. Stacked(stack, p + 1, rest)
  BY <1>1, <1>7, StackPopped
<1>10. /\ stack \in Seq(Token) /\ Len(stack) = k - 1
       /\ \A i \in 1 .. k - 1 : stack[i] = ops[i]
  <2>1. k - 1 \in Int /\ k - 1 <= Len(ops) /\ ~(k - 1 < 0)
    BY <1>1, <1>7
  <2>. QED
    BY <1>1, <2>1, PrefixFacts
<1>. HIDE DEF stack, list, h
<1>11. ASSUME NEW a, Stacked(stack, p + 1, a), NEW j \in 1 .. Len(stack),
              stack[j].symbol \in Operator
       PROVE  Above(list, Completed(a[j]), Len(list), OperatorsIn(stack, j))
  <2>1. /\ j <= k /\ rest[j] = at[j] /\ k \in Nat
        /\ \A i \in 1 .. j : stack[i] = ops[i]
    BY <1>3, <1>7, <1>10
  <2>. HIDE DEF rest
  <2>. QED
    BY <1>1, <1>8, <1>9, <1>10, <1>11, <2>1, WaitingBelow
<1>. QED
  BY <1>8, <1>11 DEF Waiting, list, stack, k

LEMMA OperationSpans ==
    ASSUME TypeOK, NEW p \in DOMAIN tokens, IsInfix, YardAt(rpn, ops, p), Balanced(rpn, ops, p),
           Spanned(rpn, p), Waiting(rpn, ops, p), IsOperation(tokens[p])
    PROVE  LET k == Kept(Weaker(tokens[p].symbol))
               list == rpn \o Popped(k)
           IN  /\ Spanned(list, p + 1)
               /\ Waiting(list, Append(SubSeq(ops, 1, k), tokens[p]), p + 1)
<1>. PICK src, at : Listed(rpn, p, src) /\ Stacked(ops, p, at) /\ Nested(ops, p, at)
  BY DEF YardAt
<1>. DEFINE t == tokens[p]
            k == Kept(Weaker(t.symbol))
            h == Len(ops)
            list == rpn \o Popped(k)
            below == SubSeq(ops, 1, k)
            stack == Append(below, t)
            new == [j \in 1 .. k + 1 |-> IF j = k + 1 THEN p ELSE at[j]]
<1>1. /\ tokens \in Seq(Token) /\ rpn \in Seq(Token) /\ ops \in Seq(Token) /\ h \in Nat
      /\ p \in Nat \ {0} /\ t \in Token
  BY DEF TypeOK
<1>2. ~t.isNumber /\ t.symbol \notin {"(", ")"} /\ t.symbol \in Operator
  BY <1>1, InfixFacts DEF IsOperation
<1>3. k \in 0 .. h
  BY <1>1, KeptFacts
<1>4. \A j \in k + 1 .. h : ops[j].symbol \in Operator
  BY OperationOperators
<1>5. \A j \in 1 .. h : /\ When[at[j]] = p <=> j > k
                        /\ When[at[j]] = p => at[j] \in Emitted
  BY <1>1, OperationPops
<1>6. CountIn(rpn, Len(rpn)) = OperatorsIn(ops, Len(ops)) + 1
  BY <1>1, <1>2, InfixFacts DEF Balanced, OpensOperand
<1>. HIDE DEF k
<1>7. /\ k \in Nat
      /\ \A j \in 1 .. h : j <= k <=> When[at[j]] # p
      /\ \A j \in 1 .. h : j > k <=> at[j] \in Emitted /\ When[at[j]] = p
  <2>1. k \in Nat /\ \A j \in 1 .. h : j <= k <=> ~(j > k)
    BY <1>1, <1>3
  <2>. QED
    BY <1>5, <2>1
<1>8. /\ Spanned(list, p + 1)
      /\ \A j \in 1 .. k : ops[j].symbol \in Operator =>
             Above(list, Completed(at[j]), Len(list), OperatorsIn(ops, j))
  BY <1>1, <1>2, <1>3, <1>4, <1>6, <1>7, SpansPopped
<1>9. Stacked(stack, p + 1, new)
  BY <1>1, <1>2, <1>3, <1>7, StackPushed
<1>10. /\ stack \in Seq(Token) /\ Len(stack) = k + 1
       /\ \A i \in 1 .. k : stack[i] = ops[i]
       /\ stack[k + 1] = t
  <2>1. k \in Int /\ k <= Len(ops) /\ ~(k < 0)
    BY <1>1, <1>3, <1>7
  <2>2. below \in Seq(Token) /\ Len(below) = k /\ \A i \in 1 .. k : below[i] = ops[i]
    BY <1>1, <2>1, PrefixFacts
  <2>3. /\ stack \in Seq(Token) /\ Len(stack) = Len(below) + 1
        /\ \A i \in 1 .. Len(below) + 1 : stack[i] = IF i = Len(below) + 1 THEN t ELSE below[i]
    BY <1>1, <2>2, AppendFacts
  <2>. HIDE DEF stack, below
  <2>. QED
    BY <1>7, <2>2, <2>3
\* The operator itself is read when everything up to here has been emitted.
<1>11. Completed(p) = Len(list) /\ Len(list) \in Nat
  <2>1. \E s : Listed(list, p + 1, s)
    BY <1>1, <1>2, <1>3, <1>7, ListPopped
  <2>2. list \in Seq(Token)
    BY <1>1, <1>3, PoppedAt, ConcatFacts
  <2>3. Len(list) \in Nat /\ p \in Nat
    BY <1>1, <2>2
  <2>. QED
    BY <1>1, <2>1, <2>3, CompletedAt
<1>12. CountIn(list, Len(list)) = OperatorsIn(stack, k + 1)
  <2>1. CountIn(list, Len(list)) = OperatorsIn(ops, k) + 1
    BY <1>1, <1>3, <1>4, <1>6, BalancePopped DEF Balanced
  <2>. HIDE DEF stack
  <2>2. OperatorsIn(stack, k) = OperatorsIn(ops, k)
    <3>1. k \in Nat /\ \A i \in 1 .. k : stack[i] = ops[i]
      BY <1>7, <1>10
    <3>. QED
      BY ONLY <3>1, SameCounts
  <2>3. OperatorsIn(stack, k + 1) = OperatorsIn(stack, k) + 1
    <3>1. stack[k + 1].symbol \in Operator
      BY <1>2, <1>10
    <3>. QED
      BY <1>7, <3>1, CountsNext
  <2>. QED
    BY <2>1, <2>2, <2>3
<1>13. new[k + 1] = p /\ \A j \in 1 .. k : new[j] = at[j]
  BY <1>7
<1>. HIDE DEF stack, list, h, new
<1>14. ASSUME NEW a, Stacked(stack, p + 1, a), NEW j \in 1 .. Len(stack),
              stack[j].symbol \in Operator
       PROVE  Above(list, Completed(a[j]), Len(list), OperatorsIn(stack, j))
  <2>1. CASE j \in 1 .. k
    <3>1. /\ j <= k /\ new[j] = at[j]
          /\ \A i \in 1 .. j : stack[i] = ops[i]
      BY <1>7, <1>10, <1>13, <2>1
    <3>. QED
      BY <1>1, <1>7, <1>8, <1>9, <1>10, <1>14, <3>1, WaitingBelow
  <2>2. CASE j = k + 1
    <3>1. Stacked(stack, p + 1, a) /\ Stacked(stack, p + 1, new)
      BY <1>9, <1>14
    <3>2. \A i \in 1 .. Len(stack) : a[i] = new[i]
      BY <1>1, <1>10, <3>1, StackedOnce
    <3>3. a[j] = p
      BY <1>13, <2>2, <3>2
    <3>4. Len(list) \in 0 .. Len(list) /\ \A e \in Len(list) + 1 .. Len(list) : FALSE
      BY <1>11
    <3>. QED
      BY <1>11, <1>12, <2>2, <3>3, <3>4 DEF Above
  <2>. QED
    BY <1>7, <1>10, <2>1, <2>2
<1>. QED
  BY <1>8, <1>14 DEF Waiting, list, stack, k

LEMMA EndSpans ==
    ASSUME TypeOK, IsInfix, YardAt(rpn, ops, Len(tokens) + 1),
           Balanced(rpn, ops, Len(tokens) + 1),
           Spanned(rpn, Len(tokens) + 1), Waiting(rpn, ops, Len(tokens) + 1)
    PROVE  Spanned(rpn \o Popped(0), Len(tokens) + 2)
<1>. DEFINE p == Len(tokens) + 1
<1>. PICK src, at : Listed(rpn, p, src) /\ Stacked(ops, p, at)
  BY DEF YardAt
<1>1. /\ tokens \in Seq(Token) /\ ops \in Seq(Token)
      /\ p \in Nat /\ p + 1 = Len(tokens) + 2 /\ 0 \in 0 .. Len(ops) /\ p \notin DOMAIN tokens
      /\ Len(tokens) \in DOMAIN tokens
  BY DEF TypeOK, IsInfix
<1>2. \A j \in 1 .. Len(ops) : j > 0 <=> at[j] \in Emitted /\ When[at[j]] = p
  <2>1. ASSUME NEW j \in 1 .. Len(ops)
        PROVE  at[j] \in Emitted /\ When[at[j]] = p
    BY <1>1, EndPops
  <2>. QED
    BY <2>1
<1>3. \A j \in 0 + 1 .. Len(ops) : ops[j].symbol \in Operator
  BY EndOperators
<1>4. CountIn(rpn, Len(rpn)) = OperatorsIn(ops, Len(ops)) + 1
  BY <1>1, InfixFacts DEF Balanced
<1>5. Spanned(rpn, p) /\ Waiting(rpn, ops, p)
  OBVIOUS
<1>. HIDE DEF p
<1>6. Spanned(rpn \o Popped(0), p + 1)
  BY <1>1, <1>2, <1>3, <1>4, <1>5, SpansPopped
<1>. QED
  BY <1>1, <1>6
LEMMA SpansPrimed ==
    ASSUME tokens' = tokens
    PROVE  /\ IsInfix' <=> IsInfix
           /\ Spanned(rpn, pos)' <=> Spanned(rpn', pos')
           /\ Waiting(rpn, ops, pos)' <=> Waiting(rpn', ops', pos')
           /\ Spanned(rpn, Len(tokens) + 2)' <=> Spanned(rpn', Len(tokens) + 2)
<1>1. IsInfix' <=> IsInfix
  BY BalancePrimed
<1>2. When' = When /\ Emitted' = Emitted /\ Rank' = Rank
  BY FormPrimed
<1>3. \A q : Completed(q)' = Completed(q)
  BY <1>2 DEF Completed
<1>4. /\ Spanned(rpn, pos)' <=> Spanned(rpn', pos')
      /\ Spanned(rpn, Len(tokens) + 2)' <=> Spanned(rpn', Len(tokens) + 2)
  <2>1. \A n : CountIn(rpn, n)' = CountIn(rpn', n)
    BY DEF CountIn, Operator
  <2>2. \A c, n, b : Above(rpn, c, n, b)' <=> Above(rpn', c, n, b)
    BY <2>1 DEF Above
  <2>. QED
    BY <1>2, <1>3, <2>1, <2>2 DEF Spanned, Operator
<1>5. \A at : Stacked(ops, pos, at)' <=> Stacked(ops', pos', at)
  BY <1>2 DEF Stacked, IsStacked
<1>6. Waiting(rpn, ops, pos)' <=> Waiting(rpn', ops', pos')
  BY <1>3, <1>5 DEF Waiting, Above, CountIn, OperatorsIn, Operator
<1>. QED
  BY <1>1, <1>4, <1>6

LEMMA SpansStarts ==
    ASSUME tokens \in Seq(Token), rpn = <<>>, ops = <<>>, pos = 1
    PROVE  Spanned(rpn, pos) /\ Waiting(rpn, ops, pos)
<1>1. Len(<<>>) = 0 /\ 1 .. 0 = {}
  OBVIOUS
<1>2. ASSUME NEW q \in Emitted
      PROVE  ~(When[q] < 1)
  <2>1. q \in DOMAIN tokens
    BY DEF Emitted
  <2>2. When[q] \in q .. Len(tokens) + 1 /\ q \in Nat \ {0} /\ Len(tokens) \in Nat
    BY <2>1, WhenFacts
  <2>. QED
    BY <2>2
<1>. QED
  BY <1>1, <1>2 DEF Spanned, Waiting

LEMMA InitSpans == Init => Spans
BY DEF Init, Spans, Converted

LEMMA NextSpans == IInv /\ Yard /\ Balance /\ Spans /\ [Next]_vars => Spans'
<1>. SUFFICES ASSUME IInv, Yard, Balance, Spans, [Next]_vars
              PROVE  Spans'
  OBVIOUS
<1>. TypeOK
  BY DEF IInv
<1>1. CASE phase' \in {"tokenize", "rejected"}
  BY <1>1 DEF Spans, Converted
<1>2. CASE phase = "tokenize" /\ phase' = "toRPN" /\ pos' = 1 /\ UNCHANGED <<ops, rpn>>
  <2>1. TypeOK'
    BY NextType
  <2>2. (tokens \in Seq(Token) /\ rpn = <<>> /\ ops = <<>> /\ pos = 1)'
    BY <1>2, <2>1 DEF Yard, TypeOK
  <2>3. (Spanned(rpn, pos) /\ Waiting(rpn, ops, pos))'
    BY <2>2, SpansStarts, PTL
  <2>. QED
    BY <1>2, <2>3 DEF Spans, Converted
<1>3. CASE ToRPN
  <2>. DEFINE p == pos
  <2>1. /\ phase = "toRPN" /\ phase' = "toRPN" /\ tokens' = tokens /\ pos' = p + 1
        /\ p \in DOMAIN tokens /\ tokens \in Seq(Token)
    BY <1>3 DEF ToRPN, TypeOK, Continue
  <2>2. SUFFICES ASSUME IsInfix
                 PROVE  Spanned(rpn', p + 1) /\ Waiting(rpn', ops', p + 1)
    BY <2>1, SpansPrimed DEF Spans, Converted
  <2>3. /\ YardAt(rpn, ops, p) /\ Balanced(rpn, ops, p)
        /\ Spanned(rpn, p) /\ Waiting(rpn, ops, p)
    BY <2>1, <2>2 DEF Yard, Balance, Spans
  <2>. HIDE DEF p
  <2>4. CASE tokens[p].isNumber
    <3>1. tokens[p].symbol = ""
      BY <2>1, <2>4, TokenFacts
    <3>2. rpn' = Append(rpn, tokens[p]) /\ ops' = ops
      BY <1>3, <2>4, <3>1 DEF ToRPN, p
    <3>. QED
      BY <2>1, <2>2, <2>3, <2>4, <3>2, NumberSpans
  <2>5. CASE tokens[p].symbol = "("
    <3>1. ~tokens[p].isNumber /\ tokens[p].symbol # ")"
      BY <2>1, <2>5, TokenFacts
    <3>2. rpn' = rpn /\ ops' = Append(ops, tokens[p])
      BY <1>3, <2>5, <3>1 DEF ToRPN, p
    <3>. QED
      BY <2>1, <2>3, <2>5, <3>2, OpeningSpans
  <2>6. CASE tokens[p].symbol = ")"
    <3>1. ~tokens[p].isNumber /\ tokens[p].symbol # "("
      BY <2>1, <2>6, TokenFacts
    <3>2. rpn' = rpn \o Popped(Kept({"("})) /\ ops' = SubSeq(ops, 1, Kept({"("}) - 1)
      BY <1>3, <2>6, <3>1 DEF ToRPN, p
    <3>. QED
      BY <2>1, <2>2, <2>3, <2>6, <3>2, ClosingSpans
  <2>7. CASE IsOperation(tokens[p])
    <3>1. /\ rpn' = rpn \o Popped(Kept(Weaker(tokens[p].symbol)))
          /\ ops' = Append(SubSeq(ops, 1, Kept(Weaker(tokens[p].symbol))), tokens[p])
      BY <1>3, <2>7 DEF ToRPN, IsOperation, p
    <3>. QED
      BY <2>1, <2>2, <2>3, <2>7, <3>1, OperationSpans
  <2>. QED
    BY <2>4, <2>5, <2>6, <2>7 DEF IsOperation
<1>4. CASE ToRPNEnd
  <2>1. /\ phase = "toRPN" /\ phase' = "validate" /\ tokens' = tokens
        /\ pos > Len(tokens) /\ rpn' = rpn \o Popped(0)
    BY <1>4 DEF ToRPNEnd, Goto
  <2>2. pos \in Nat /\ Len(tokens) \in Nat /\ pos <= Len(tokens) + 1
    BY <2>1 DEF TypeOK, Yard
  <2>3. pos = Len(tokens) + 1
    BY <2>1, <2>2
  <2>4. SUFFICES ASSUME IsInfix
                 PROVE  Spanned(rpn', Len(tokens) + 2)
    BY <2>1, SpansPrimed DEF Spans
  <2>5. /\ YardAt(rpn, ops, Len(tokens) + 1) /\ Balanced(rpn, ops, Len(tokens) + 1)
        /\ Spanned(rpn, Len(tokens) + 1) /\ Waiting(rpn, ops, Len(tokens) + 1)
    BY <2>1, <2>3, <2>4 DEF Yard, Balance, Spans
  <2>. QED
    BY <2>1, <2>4, <2>5, EndSpans
<1>5. CASE Converted /\ Converted' /\ UNCHANGED <<tokens, rpn>>
  BY <1>5, SpansPrimed DEF Spans, Converted
<1>6. CASE UNCHANGED vars
  <2>1. UNCHANGED <<phase, pos, tokens, ops, rpn>>
    BY <1>6 DEF vars
  <2>2. /\ IsInfix' <=> IsInfix
        /\ Spanned(rpn, pos)' <=> Spanned(rpn, pos)
        /\ Waiting(rpn, ops, pos)' <=> Waiting(rpn, ops, pos)
        /\ Spanned(rpn, Len(tokens) + 2)' <=> Spanned(rpn, Len(tokens) + 2)
    BY <2>1, SpansPrimed
  <2>. QED
    BY <2>1, <2>2 DEF Spans, Converted
<1>7. CASE TokenizeChar \/ TokenizeEnd
  BY <1>1, <1>2, <1>7 DEF TokenizeChar, TokenizeEnd, Goto, Continue
<1>8. CASE Validate \/ ValidateEnd \/ Schedule \/ ScheduleEnd
  BY <1>1, <1>5, <1>8 DEF Validate, ValidateEnd, Schedule, ScheduleEnd, Goto, Continue, Converted
<1>9. CASE Returned
  BY <1>6, <1>9 DEF Returned
<1>. QED
  BY <1>3, <1>4, <1>6, <1>7, <1>8, <1>9 DEF Next
-----------------------------------------------------------------------------
(***************************************************************************)
(* The invariant behind PlanIsTheExpression.  After n symbols of the result *)
(* of toRPN, operand j on the stack of Schedule was computed by the last    *)
(* symbol that left j operands, and the tasks of these symbols are planned. *)
(***************************************************************************)
Task(q) == [operation |-> tokens[q].symbol,
            left |-> Result(Completed(q)), right |-> Result(Rank[q] - 1)]

Planned(list, n) ==
    /\ Len(list) = TasksOf(n)
    /\ \A q \in Emitted :
           IsOperation(tokens[q]) /\ Rank[q] <= n => list[TasksOf(Rank[q])] = Task(q)

Evaluated(stack, n) ==
    /\ Len(stack) = CountIn(rpn, n)
    /\ \A j \in 1 .. Len(stack) : \E e \in 1 .. n : stack[j] = Result(e) /\ Above(rpn, e, n, j)

Assembled ==
    /\ phase = "schedule" /\ IsInfix => Planned(plan, pos - 1) /\ Evaluated(items, pos - 1)
    /\ phase = "scheduled" /\ IsInfix => Planned(plan, Len(rpn))

LEMMA TasksCount ==
    /\ TasksOf(0) = 0
    /\ \A n \in Nat : /\ TasksOf(n) \in Nat
                      /\ TasksOf(n + 1) = IF rpn[n + 1].isNumber THEN TasksOf(n)
                                                                 ELSE TasksOf(n) + 1
<1>. DEFINE S == {i \in Nat : ~rpn[i].isNumber}
<1>1. ASSUME NEW n \in Nat
      PROVE  TasksOf(n) = Cardinality((1 .. n) \cap S)
  <2>1. {i \in 1 .. n : ~rpn[i].isNumber} = (1 .. n) \cap S
    OBVIOUS
  <2>. QED
    BY <2>1 DEF TasksOf
<1>2. ASSUME NEW n \in Nat
      PROVE  n + 1 \in Nat /\ (n + 1 \in S <=> ~rpn[n + 1].isNumber)
  OBVIOUS
<1>3. ASSUME NEW n \in Nat
      PROVE  /\ Cardinality((1 .. n) \cap S) \in Nat /\ Cardinality((1 .. 0) \cap S) = 0
             /\ Cardinality((1 .. n + 1) \cap S) =
                    IF n + 1 \in S THEN Cardinality((1 .. n) \cap S) + 1
                                   ELSE Cardinality((1 .. n) \cap S)
  <2>. HIDE DEF S
  <2>. QED
    BY CountingUp, Zenon
<1>. HIDE DEF S
<1>4. 0 \in Nat
  OBVIOUS
<1>. QED
  BY <1>1, <1>2, <1>3, <1>4

LEMMA TasksGrow ==
    ASSUME NEW m \in Nat, NEW n \in 0 .. m
    PROVE  TasksOf(n) <= TasksOf(m)
<1>. DEFINE small == {i \in 1 .. n : ~rpn[i].isNumber}
            large == {i \in 1 .. m : ~rpn[i].isNumber}
<1>1. IsFiniteSet(large)
  <2>1. IsFiniteSet(1 .. m) /\ large \subseteq 1 .. m
    BY FS_Interval
  <2>. QED
    BY <2>1, FS_Subset, Zenon
<1>2. small \subseteq large
  OBVIOUS
<1>3. Cardinality(small) <= Cardinality(large)
  <2>. HIDE DEF small, large
  <2>. QED
    BY <1>1, <1>2, FS_Subset
<1>. QED
  BY <1>3 DEF TasksOf

\* There is one last symbol that leaves b operands.
LEMMA AboveOnce ==
    ASSUME NEW list, NEW n \in Nat, NEW b \in Int, NEW c, NEW d,
           Above(list, c, n, b), Above(list, d, n, b)
    PROVE  c = d
<1>1. /\ c \in 0 .. n /\ d \in 0 .. n
      /\ CountIn(list, c) = b /\ CountIn(list, d) = b
      /\ d \in c + 1 .. n => CountIn(list, d) > b
      /\ c \in d + 1 .. n => CountIn(list, c) > b
  BY DEF Above
<1>2. ~(d \in c + 1 .. n) /\ ~(c \in d + 1 .. n)
  BY <1>1
<1>. QED
  BY <1>1, <1>2

\* A symbol of the result leaves its own result on top, and what lies below was there before.
LEMMA EvaluatedNext ==
    ASSUME NEW k \in Nat \ {0}, Evaluated(items, k - 1),
           NEW stack, NEW h \in Nat, h = Len(stack), h = CountIn(rpn, k),
           h > 0 => h - 1 <= Len(items),
           \A j \in 1 .. h - 1 : stack[j] = items[j],
           h > 0 /\ stack[h] = Result(k)
    PROVE  Evaluated(stack, k)
<1>1. /\ k \in Nat /\ k - 1 \in Nat /\ k - 1 <= k
      /\ Len(items) = CountIn(rpn, k - 1) /\ Len(items) \in Int
  <2>1. k - 1 \in Nat /\ k - 1 <= k /\ Len(items) = CountIn(rpn, k - 1)
    BY DEF Evaluated
  <2>. QED
    BY <2>1, CountTypes
<1>2. ASSUME NEW j \in 1 .. h - 1
      PROVE  \E e \in 1 .. k : stack[j] = Result(e) /\ Above(rpn, e, k, j)
  <2>1. j \in 1 .. Len(items) /\ h > j
    BY <1>1
  <2>2. PICK e \in 1 .. k - 1 : items[j] = Result(e) /\ Above(rpn, e, k - 1, j)
    BY <2>1 DEF Evaluated
  <2>3. \A i \in (k - 1) + 1 .. k : CountIn(rpn, i) > j
    <3>1. \A i \in (k - 1) + 1 .. k : i = k
      BY <1>1
    <3>. QED
      BY <2>1, <3>1
  <2>4. Above(rpn, e, k, j)
    BY <1>1, <2>2, <2>3, AboveOn
  <2>5. e \in 1 .. k /\ stack[j] = Result(e)
    BY <1>1, <2>2
  <2>. QED
    BY <2>4, <2>5
<1>3. \E e \in 1 .. k : stack[h] = Result(e) /\ Above(rpn, e, k, h)
  <2>1. k \in 0 .. k /\ k \in 1 .. k /\ \A i \in k + 1 .. k : FALSE
    BY <1>1
  <2>2. Above(rpn, k, k, h)
    BY <2>1 DEF Above
  <2>. QED
    BY <2>1, <2>2
<1>4. \A j \in 1 .. h : j = h \/ j \in 1 .. h - 1
  OBVIOUS
<1>. QED
  BY <1>2, <1>3, <1>4 DEF Evaluated
LEMMA NumberAssembled ==
    ASSUME TypeOK, Schedule, rpn[pos].isNumber, NEW src, Listed(rpn, Len(tokens) + 2, src),
           Planned(plan, pos - 1), Evaluated(items, pos - 1)
    PROVE  Planned(plan', pos) /\ Evaluated(items', pos)
<1>. DEFINE k == pos
            n == k - 1
            h == Len(items)
<1>1. /\ tokens \in Seq(Token) /\ rpn \in Seq(Token) /\ items \in Seq(Item) /\ h \in Nat
      /\ k \in Nat \ {0} /\ k \in 1 .. Len(rpn) /\ n \in Nat /\ n + 1 = k /\ rpn[k] \in Token
  <2>1. /\ tokens \in Seq(Token) /\ rpn \in Seq(Token) /\ items \in Seq(Item)
        /\ k \in Nat \ {0} /\ k <= Len(rpn)
    BY DEF TypeOK, Schedule
  <2>. QED
    BY <2>1
<1>2. rpn[k].symbol \notin Operator
  BY <1>1 DEF Token, Operator
<1>3. plan' = plan /\ items' = Append(items, NumberItem(rpn[k].number))
  BY DEF Schedule
<1>4. Len(items') = h + 1 /\ \A j \in 1 .. h : items'[j] = items[j]
  BY ScheduleNumber
<1>5. items'[h + 1] = Result(k)
  <2>1. items'[h + 1] = NumberItem(rpn[k].number)
    BY <1>1, <1>3
  <2>. QED
    BY <2>1 DEF Result
<1>. HIDE DEF k, h
<1>6. TasksOf(k) = TasksOf(n)
  <2>1. TasksOf(n + 1) = TasksOf(n)
    BY <1>1, TasksCount DEF k
  <2>. QED
    BY <1>1, <2>1
<1>7. ASSUME NEW q \in Emitted, IsOperation(tokens[q]), Rank[q] <= k
      PROVE  Rank[q] <= n
  <2>1. Len(rpn) \in Nat
    BY <1>1
  <2>2. PICK i \in 1 .. Len(rpn) : src[i] = q
    BY <1>1, <2>1, Emission
  <2>3. Rank[q] = i /\ rpn[i] = tokens[q]
    BY <1>1, <2>1, <2>2, Emission
  <2>4. i # k
    BY <1>7, <2>3 DEF IsOperation, k
  <2>. QED
    BY <1>1, <1>7, <2>3, <2>4
<1>8. Planned(plan', k)
  <2>1. Len(plan) = TasksOf(n)
    BY DEF Planned, k
  <2>2. \A q \in Emitted :
            IsOperation(tokens[q]) /\ Rank[q] <= n => plan[TasksOf(Rank[q])] = Task(q)
    BY DEF Planned, k
  <2>. QED
    BY <1>3, <1>6, <1>7, <2>1, <2>2 DEF Planned
<1>9. Evaluated(items', k)
  <2>1. CountIn(rpn, k) = CountIn(rpn, n) + 1
    <3>1. rpn[n + 1].symbol \notin Operator
      BY <1>1, <1>2
    <3>2. CountIn(rpn, n + 1) = CountIn(rpn, n) + 1
      BY <1>1, <3>1, CountsIn
    <3>. QED
      BY <1>1, <3>2
  <2>2. h = CountIn(rpn, n)
    BY DEF Evaluated, h, k
  <2>3. PICK m \in Nat : m = h + 1
    BY <1>1
  <2>4. /\ m = Len(items') /\ m = CountIn(rpn, k) /\ m > 0 /\ m - 1 <= Len(items)
        /\ m - 1 = h /\ items'[m] = Result(k)
    BY <1>1, <1>4, <1>5, <2>1, <2>2, <2>3 DEF h
  <2>5. \A j \in 1 .. m - 1 : items'[j] = items[j]
    BY <1>4, <2>4
  <2>6. Evaluated(items, k - 1)
    BY DEF k
  <2>. QED
    BY <1>1, <2>4, <2>5, <2>6, EvaluatedNext
<1>. QED
  BY <1>8, <1>9 DEF k

LEMMA TaskAssembled ==
    ASSUME TypeOK, Schedule, ~rpn[pos].isNumber, NEW src, Listed(rpn, Len(tokens) + 2, src),
           HaveTwo(rpn), Spanned(rpn, Len(tokens) + 2),
           Planned(plan, pos - 1), Evaluated(items, pos - 1)
    PROVE  Planned(plan', pos) /\ Evaluated(items', pos)
<1>. DEFINE k == pos
            n == k - 1
            h == Len(items)
            t == Len(plan)
            q == src[k]
<1>1. /\ tokens \in Seq(Token) /\ rpn \in Seq(Token) /\ items \in Seq(Item) /\ h \in Nat
      /\ plan \in Seq(PlannedTask) /\ t \in Nat /\ Len(rpn) \in Nat /\ Len(tokens) \in Nat
      /\ k \in Nat \ {0} /\ k \in 1 .. Len(rpn) /\ n \in Nat /\ n + 1 = k
  <2>1. /\ tokens \in Seq(Token) /\ rpn \in Seq(Token) /\ items \in Seq(Item)
        /\ plan \in Seq(PlannedTask) /\ k \in Nat \ {0} /\ k <= Len(rpn)
    BY DEF TypeOK, Schedule
  <2>. QED
    BY <2>1
<1>2. rpn[k].symbol \in Operator /\ ~rpn[k].isNumber
  BY <1>1 DEF Spanned
<1>3. q \in Emitted /\ rpn[k] = tokens[q] /\ Rank[q] = k
  BY <1>1, Emission
<1>4. plan' = Append(plan, [operation |-> rpn[k].symbol,
                            left |-> ItemFromTop(1), right |-> ItemFromTop(0)])
  BY DEF Schedule
<1>5. /\ Len(plan') = t + 1 /\ \A i \in 1 .. t : plan'[i] = plan[i]
      /\ plan'[t + 1] = [operation |-> rpn[k].symbol,
                         left |-> ItemFromTop(1), right |-> ItemFromTop(0)]
  <2>. DEFINE task == [operation |-> rpn[k].symbol,
                       left |-> ItemFromTop(1), right |-> ItemFromTop(0)]
  <2>1. plan' = Append(plan, task)
    BY <1>4
  <2>. HIDE DEF task
  <2>2. Len(plan') = t + 1 /\ (\A i \in 1 .. t : plan'[i] = plan[i]) /\ plan'[t + 1] = task
    BY <1>1, <2>1
  <2>. QED
    BY <2>2 DEF task
<1>6. items' = Append(ItemsBelow(2), TaskItem(t + 1))
  BY DEF Schedule
<1>7. /\ Len(items') = IF h < 2 THEN 1 ELSE h - 1
      /\ \A j \in 1 .. Len(items') - 1 : items'[j] = items[j]
  BY ScheduleTask
<1>8. items'[Len(items')] = TaskItem(t + 1)
  <2>1. ItemsBelow(2) \in Seq(Item)
    BY <1>1, PrefixFacts DEF ItemsBelow
  <2>2. Len(ItemsBelow(2)) \in Nat
    BY <2>1
  <2>. HIDE DEF t
  <2>. QED
    BY <1>6, <2>1, <2>2
<1>. HIDE DEF k, h, t, q
<1>9. h = CountIn(rpn, n) /\ h >= 2
  BY <1>1, <1>2 DEF Evaluated, HaveTwo, h, k
<1>10. CountIn(rpn, k) = h - 1
  <2>1. rpn[n + 1].symbol \in Operator
    BY <1>1, <1>2
  <2>2. CountIn(rpn, n + 1) = CountIn(rpn, n) - 1
    BY <1>1, <2>1, CountsIn
  <2>. QED
    BY <1>1, <1>9, <2>2
<1>11. t = TasksOf(n) /\ TasksOf(k) = t + 1
  <2>1. t = TasksOf(n)
    BY DEF Planned, t, k
  <2>2. TasksOf(n + 1) = TasksOf(n) + 1
    <3>1. ~rpn[n + 1].isNumber
      BY <1>1, <1>2
    <3>. QED
      BY <1>1, <3>1, TasksCount
  <2>. QED
    BY <1>1, <2>1, <2>2
<1>12. ItemFromTop(0) = Result(k - 1)
  <2>1. PICK e \in 1 .. n : items[h] = Result(e) /\ Above(rpn, e, n, h)
    <3>1. h \in 1 .. h
      BY <1>1, <1>9
    <3>. QED
      BY <3>1 DEF Evaluated, h, k
  <2>2. ~(n \in e + 1 .. n)
    BY <1>1, <1>9, <2>1 DEF Above
  <2>3. e = n
    BY <1>1, <2>1, <2>2
  <2>4. ItemFromTop(0) = items[h]
    BY <1>1, <1>9 DEF ItemFromTop, h
  <2>. QED
    BY <2>1, <2>3, <2>4
<1>13. ItemFromTop(1) = Result(Completed(q))
  <2>1. PICK e \in 1 .. n : items[h - 1] = Result(e) /\ Above(rpn, e, n, h - 1)
    <3>1. h - 1 \in 1 .. h
      BY <1>1, <1>9
    <3>. QED
      BY <3>1 DEF Evaluated, h, k
  <2>2. When[q] < Len(tokens) + 2
    <3>1. q \in DOMAIN tokens
      BY <1>3 DEF Emitted
    <3>2. When[q] \in q .. Len(tokens) + 1 /\ q \in Nat
      BY <1>1, <3>1, WhenFacts
    <3>. QED
      BY <1>1, <3>2
  <2>3. Above(rpn, Completed(q), Rank[q] - 1, CountIn(rpn, Rank[q] - 1) - 1)
    BY <1>2, <1>3, <2>2 DEF Spanned
  <2>4. Above(rpn, Completed(q), n, h - 1)
    BY <1>3, <1>9, <2>3
  <2>5. h - 1 \in Int
    BY <1>1
  <2>6. e = Completed(q)
    BY <1>1, <2>1, <2>4, <2>5, AboveOnce
  <2>7. ItemFromTop(1) = items[h - 1]
    BY <1>1, <1>9 DEF ItemFromTop, h
  <2>. QED
    BY <2>1, <2>6, <2>7
<1>14. plan'[TasksOf(k)] = Task(q)
  BY <1>3, <1>5, <1>11, <1>12, <1>13 DEF Task
<1>15. ASSUME NEW r \in Emitted, IsOperation(tokens[r]), Rank[r] <= k
       PROVE  plan'[TasksOf(Rank[r])] = Task(r)
  <2>1. PICK i \in 1 .. Len(rpn) : src[i] = r
    BY <1>1, Emission
  <2>2. Rank[r] = i /\ rpn[i] = tokens[r]
    BY <1>1, <2>1, Emission
  <2>3. CASE i = k
    BY <1>14, <2>1, <2>2, <2>3 DEF q
  <2>4. CASE i # k
    <3>1. i \in 1 .. n /\ i \in 0 .. n /\ i - 1 \in Nat /\ (i - 1) + 1 = i
      BY <1>1, <1>15, <2>2, <2>4
    <3>2. plan[TasksOf(i)] = Task(r)
      <4>1. Rank[r] <= n
        BY <1>1, <2>2, <3>1
      <4>. QED
        BY <1>15, <2>2, <4>1 DEF Planned, k
    <3>3. TasksOf(i) \in 1 .. t
      <4>1. TasksOf(i - 1) \in Nat /\ TasksOf(i) = TasksOf(i - 1) + 1
        <5>1. ~rpn[(i - 1) + 1].isNumber
          BY <1>15, <2>2, <3>1 DEF IsOperation
        <5>2. TasksOf((i - 1) + 1) = TasksOf(i - 1) + 1 /\ TasksOf(i - 1) \in Nat
          BY <3>1, <5>1, TasksCount
        <5>. QED
          BY <3>1, <5>2
      <4>2. TasksOf(i) <= TasksOf(n)
        BY <1>1, <3>1, TasksGrow
      <4>3. TasksOf(n) = t /\ t \in Nat
        BY <1>1, <1>11
      <4>. QED
        BY <4>1, <4>2, <4>3
    <3>. QED
      BY <1>5, <2>2, <3>2, <3>3
  <2>. QED
    BY <2>3, <2>4
<1>16. Planned(plan', k)
  BY <1>5, <1>11, <1>15 DEF Planned
<1>17. Evaluated(items', k)
  <2>1. PICK m \in Nat : m = h - 1
    BY <1>1, <1>9
  <2>2. m = Len(items') /\ m = CountIn(rpn, k) /\ m > 0 /\ m - 1 <= Len(items)
    BY <1>1, <1>7, <1>9, <1>10, <2>1 DEF h
  <2>3. items'[m] = Result(k)
    <3>1. Result(k) = TaskItem(t + 1)
      BY <1>2, <1>11 DEF Result
    <3>. QED
      BY <1>8, <2>2, <3>1
  <2>4. \A j \in 1 .. m - 1 : items'[j] = items[j]
    BY <1>7, <2>2
  <2>5. Evaluated(items, k - 1)
    BY DEF k
  <2>. QED
    BY <1>1, <2>2, <2>3, <2>4, <2>5, EvaluatedNext
<1>. QED
  BY <1>16, <1>17 DEF k
LEMMA AssembledPrimed ==
    ASSUME UNCHANGED <<tokens, rpn>>
    PROVE  /\ IsInfix' <=> IsInfix
           /\ Planned(plan, pos - 1)' <=> Planned(plan', pos' - 1)
           /\ Evaluated(items, pos - 1)' <=> Evaluated(items', pos' - 1)
           /\ Planned(plan, Len(rpn))' <=> Planned(plan', Len(rpn))
<1>1. IsInfix' <=> IsInfix
  BY BalancePrimed
<1>2. When' = When /\ Emitted' = Emitted /\ Rank' = Rank
  BY FormPrimed
<1>3. \A q : Completed(q)' = Completed(q)
  BY <1>2 DEF Completed
<1>4. \A n : TasksOf(n)' = TasksOf(n)
  BY DEF TasksOf
<1>5. \A n : Result(n)' = Result(n)
  BY <1>4 DEF Result, NumberItem, TaskItem
<1>6. \A q : Task(q)' = Task(q)
  BY <1>2, <1>3, <1>5 DEF Task
<1>7. /\ Planned(plan, pos - 1)' <=> Planned(plan', pos' - 1)
      /\ Planned(plan, Len(rpn))' <=> Planned(plan', Len(rpn))
  BY <1>2, <1>4, <1>6 DEF Planned, IsOperation
<1>8. Evaluated(items, pos - 1)' <=> Evaluated(items', pos' - 1)
  <2>1. \A n : CountIn(rpn, n)' = CountIn(rpn, n)
    BY DEF CountIn, Operator
  <2>2. \A e, n, j : Above(rpn, e, n, j)' <=> Above(rpn, e, n, j)
    BY <2>1 DEF Above
  <2>. QED
    BY <1>5, <2>1, <2>2 DEF Evaluated
<1>. QED
  BY <1>1, <1>7, <1>8

\* Before its first symbol, Schedule has planned nothing.
LEMMA AssembledStarts ==
    ASSUME tokens \in Seq(Token), rpn \in Seq(Token), NEW src, Listed(rpn, Len(tokens) + 2, src)
    PROVE  Planned(<<>>, 0) /\ Evaluated(<<>>, 0)
<1>1. Len(<<>>) = 0 /\ 1 .. 0 = {} /\ Len(rpn) \in Nat
  OBVIOUS
<1>2. ASSUME NEW q \in Emitted
      PROVE  ~(Rank[q] <= 0)
  <2>1. PICK k \in 1 .. Len(rpn) : src[k] = q
    BY <1>1, Emission
  <2>2. Rank[q] = k
    BY <1>1, <2>1, Emission
  <2>. QED
    BY <2>2
<1>3. TasksOf(0) = 0 /\ CountIn(rpn, 0) = 0
  BY TasksCount, CountsIn
<1>. QED
  BY <1>1, <1>2, <1>3 DEF Planned, Evaluated

LEMMA InitAssembled == Init => Assembled
BY DEF Init, Assembled

LEMMA NextAssembled ==
    IInv /\ Yard /\ Balance /\ Spans /\ Assembled /\ [Next]_vars => Assembled'
<1>. SUFFICES ASSUME IInv, Yard, Balance, Spans, Assembled, [Next]_vars
              PROVE  Assembled'
  OBVIOUS
<1>. TypeOK /\ StackIsCounted
  BY DEF IInv
<1>1. CASE phase' \notin {"schedule", "scheduled"}
  BY <1>1 DEF Assembled
<1>2. CASE ValidateEnd /\ phase' = "schedule"
  <2>1. /\ phase = "validate" /\ UNCHANGED <<tokens, rpn>> /\ pos' - 1 = 0
        /\ items' = <<>> /\ plan' = <<>>
    BY <1>2 DEF ValidateEnd, Goto, StackIsCounted
  <2>2. tokens \in Seq(Token) /\ rpn \in Seq(Token)
    BY DEF TypeOK
  <2>3. Planned(<<>>, 0) /\ Evaluated(<<>>, 0)
    BY <2>1, <2>2, AssembledStarts DEF Yard, Converted
  <2>. QED
    BY <1>2, <2>1, <2>3, AssembledPrimed DEF Assembled
<1>3. CASE Schedule
  <2>1. /\ phase = "schedule" /\ phase' = "schedule" /\ UNCHANGED <<tokens, rpn>>
        /\ pos' = pos + 1 /\ pos \in Nat
    BY <1>3 DEF Schedule, Continue, TypeOK
  <2>2. pos' - 1 = pos
    BY <2>1
  <2>3. SUFFICES ASSUME IsInfix
                 PROVE  Planned(plan', pos) /\ Evaluated(items', pos)
    BY <2>1, <2>2, AssembledPrimed DEF Assembled
  <2>4. /\ Planned(plan, pos - 1) /\ Evaluated(items, pos - 1)
        /\ HaveTwo(rpn) /\ Spanned(rpn, Len(tokens) + 2)
    BY <2>1, <2>3 DEF Assembled, Balance, Spans, Converted
  <2>5. PICK src : Listed(rpn, Len(tokens) + 2, src)
    BY <2>1 DEF Yard, Converted
  <2>6. CASE rpn[pos].isNumber
    BY <1>3, <2>4, <2>5, <2>6, NumberAssembled
  <2>7. CASE ~rpn[pos].isNumber
    BY <1>3, <2>4, <2>5, <2>7, TaskAssembled
  <2>. QED
    BY <2>6, <2>7
<1>4. CASE ScheduleEnd
  <2>1. /\ phase = "schedule" /\ phase' = "scheduled" /\ UNCHANGED <<tokens, rpn, plan>>
        /\ pos > Len(rpn) /\ pos <= Len(rpn) + 1
    BY <1>4 DEF ScheduleEnd, Goto, StackIsCounted
  <2>2. pos \in Nat /\ Len(rpn) \in Nat
    BY DEF TypeOK
  <2>3. pos - 1 = Len(rpn)
    BY <2>1, <2>2
  <2>. QED
    BY <2>1, <2>3, AssembledPrimed DEF Assembled
<1>5. CASE UNCHANGED vars
  <2>1. UNCHANGED <<phase, pos, tokens, rpn, items, plan>>
    BY <1>5 DEF vars
  <2>2. /\ IsInfix' <=> IsInfix
        /\ Planned(plan, pos - 1)' <=> Planned(plan, pos - 1)
        /\ Evaluated(items, pos - 1)' <=> Evaluated(items, pos - 1)
        /\ Planned(plan, Len(rpn))' <=> Planned(plan, Len(rpn))
    BY <2>1, AssembledPrimed
  <2>. QED
    BY <2>1, <2>2 DEF Assembled
<1>6. CASE TokenizeChar \/ TokenizeEnd \/ ToRPN \/ ToRPNEnd \/ Validate
  BY <1>1, <1>6 DEF TokenizeChar, TokenizeEnd, ToRPN, ToRPNEnd, Validate, Goto, Continue
<1>7. CASE ValidateEnd
  BY <1>1, <1>2, <1>7 DEF ValidateEnd, Goto
<1>8. CASE Returned
  BY <1>5, <1>8 DEF Returned
<1>. QED
  BY <1>3, <1>4, <1>5, <1>6, <1>7, <1>8 DEF Next

LEMMA AssemblyInvariance == Spec => [](IInv /\ Yard /\ Balance /\ Spans /\ Assembled)
<1>1. Init => IInv /\ Yard /\ Balance /\ Spans /\ Assembled
  BY InitInv, InitYard, InitBalance, InitSpans, InitAssembled
<1>2. IInv => TypeOK
  BY DEF IInv
<1>3. IInv /\ Yard /\ Balance /\ Spans /\ Assembled /\ [Next]_vars
          => (IInv /\ Yard /\ Balance /\ Spans /\ Assembled)'
  BY <1>2, NextInv, NextYard, NextBalance, NextSpans, NextAssembled
<1>. QED
  BY <1>1, <1>3, PTL DEF Spec

LEMMA AssembledIsTheExpression ==
    IInv /\ Yard /\ Assembled => PlanIsTheExpression
<1>. SUFFICES ASSUME IInv, Yard, Assembled, phase = "scheduled", IsInfix
              PROVE  LET when == When
                         rank == Rank
                         Complete(q) == Cardinality({r \in DOMAIN rank : when[r] <= q})
                     IN  /\ Len(plan) = TasksOf(Len(rpn))
                         /\ \A q \in {i \in DOMAIN tokens : IsOperation(tokens[i])} :
                                plan[TasksOf(rank[q])] = [operation |-> tokens[q].symbol,
                                                          left |-> Result(Complete(q)),
                                                          right |-> Result(rank[q] - 1)]
  BY DEF PlanIsTheExpression
<1>1. PICK src : Listed(rpn, Len(tokens) + 2, src)
  BY DEF Yard, Converted
<1>2. tokens \in Seq(Token) /\ rpn \in Seq(Token) /\ Len(rpn) \in Nat
  BY DEF IInv, TypeOK
<1>3. DOMAIN Rank = Emitted
  BY DEF Rank
<1>4. Planned(plan, Len(rpn))
  BY DEF Assembled
<1>5. \A q : Cardinality({r \in DOMAIN Rank : When[r] <= q}) = Completed(q)
  BY <1>3 DEF Completed
<1>6. ASSUME NEW q \in DOMAIN tokens, IsOperation(tokens[q])
      PROVE  plan[TasksOf(Rank[q])] = Task(q)
  <2>1. q \in Emitted
    BY <1>6 DEF Emitted, IsPaired, IsOperation
  <2>2. PICK k \in 1 .. Len(rpn) : src[k] = q
    BY <1>1, <1>2, <2>1, Emission
  <2>3. Rank[q] = k
    BY <1>1, <1>2, <2>2, Emission
  <2>. QED
    BY <1>2, <1>4, <1>6, <2>1, <2>3 DEF Planned
<1>. QED
  BY <1>4, <1>5, <1>6 DEF Planned, Task

\* Schedule makes of every operator of a well-formed expression a task on its own operands, and
\* plans nothing else.
THEOREM PlanCorrect == Spec => []PlanIsTheExpression
BY AssemblyInvariance, AssembledIsTheExpression, PTL
=============================================================================
