SPECIFICATION Spec
CONSTANTS
    Expr <- MCExpr
    Task <- MCTask
    NoTask = ""
    ExprOf <- MCExprOf
    Parent1 <- MCParent1
    Parent2 <- MCParent2
    Literal1 <- MCLiteral1
    Literal2 <- MCLiteral2
    Operation <- MCOperation
    Remaining <- MCRemaining
    Float <- MCFloat
    Zero = 0
    NaN = NaN
    NULL = NULL
    Add <- MCAdd
    Subtract <- MCSubtract
    Multiply <- MCMultiply
    Divide <- MCDivide
    Value <- MCValue
    Time <- MCTime
    w1 = w1
    w2 = w2
    Worker <- MCWorker
    MaxRepeats = 1
    MaxUnclaimed = 1
    MaxLost = 1
SYMMETRY WorkerSymmetry
INVARIANTS
    TypeOK
    IInv
    RunnableTasksAreReady
    CompletedMeansEverythingRan
    NoTaskIsStranded
    QueueInv
    ClaimInv
    FirstClaimIsExclusive
    CompletedExpressionIsQuiet
PROPERTIES
    KeepsThePromise
    StoredValuesStay
    NoTaskRunsTwice
