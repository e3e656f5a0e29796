\* An HTTP request and a call of an agent, in a process that is told to stop at any moment.
SPECIFICATION FairSpec
CONSTANTS
    Request = {r1}
    Call = {c1}
    Target <- MCTarget
    Server = {"grpc", "http"}
INVARIANTS
    IInv
    CodeTellsOutcome
    ExitIsGraceful
PROPERTIES
    ProcessEnds
\* The process ends.
CHECK_DEADLOCK FALSE
