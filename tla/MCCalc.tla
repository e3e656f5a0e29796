------------------------------- MODULE MCCalc -------------------------------
(***************************************************************************)
(* Inputs for TLC: all short strings, and longer well-formed ones.          *)
(***************************************************************************)
EXTENDS CalcReference, ShuntingYard, TLC

CONSTANTS MaxLength,    \* bound: characters in any string
          MaxWellFormed \* bound: characters in a well-formed string

MCDigit == {"1", "2", "3", "4", "5"}

MCChar == MCDigit \cup Operator \cup {"0", ".", " ", "(", ")", "x"}

\* "x" stands for any other character.
AnyStrings ==
    UNION {[1 .. n -> {"1", ".", " ", "+", "*", "(", ")", "x"}] :
              n \in 0 .. MaxLength}

RECURSIVE WellFormed(_)
WellFormed(n) ==
    IF n = 1 THEN {<<"1">>}
    ELSE {<<"(">> \o s \o <<")">> : s \in IF n > 2 THEN WellFormed(n - 2) ELSE {}} \cup
         UNION {{l \o <<o>> \o r : l \in WellFormed(i - 1), r \in WellFormed(n - i),
                                    o \in Operator} :
                   i \in 2 .. n - 1}

\* The numbers of s become 1, 2, 3, ... so that their places can be told apart.
Numbered(s) ==
    [i \in DOMAIN s |->
        IF s[i] = "1" THEN ToString(Cardinality({j \in 1 .. i : s[j] = "1"})) ELSE s[i]]

WellFormedStrings ==
    UNION {{Numbered(s) : s \in WellFormed(n)} : n \in 1 .. MaxWellFormed}

MCInputs == AnyStrings \cup WellFormedStrings
=============================================================================
