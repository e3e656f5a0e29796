\* The statement of FinishTask fails, and a handler answers that there is no such task.
SPECIFICATION Spec
CONSTANTS
    Expr <- MCExpr
    Task <- MCTask
    NoTask = ""
    ExprOf <- MCExprOf
    Parent1 <- MCParent1
    Parent2 <- MCParent2
    Literal1 <- MCLiteral
    Literal2 <- MCLiteral
    Operation <- MCOperation
    Remaining <- MCRemaining
    Float <- MCFloat
    Zero = 0
    NaN = NaN
    NULL = NULL
    Add <- MCOperator
    Subtract <- MCOperator
    Multiply <- MCOperator
    Divide <- MCOperator
    Value <- MCLiteral
    Time = {1}
    r1 = r1
    r2 = r2
    Request <- MCRequest
    NoRequest = NoRequest
PROPERTIES
    NotFoundMeansAbsent
