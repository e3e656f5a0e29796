\* Every short string, and longer well-formed ones.
SPECIFICATION Spec
CONSTANTS
    Char <- MCChar
    Inputs <- MCInputs
    Digit <- MCDigit
    MaxLength = 4
    MaxWellFormed = 9
INVARIANTS
    TypeOK
    IInv
    PlanIsATree
    CompilesWhatIsMeant
    RPNIsPostfix
    WellFormedIsAccepted
    PlanIsTheExpression
