------------------------------ MODULE Gateway -------------------------------
(***************************************************************************)
(* What the API is made of: the routes of the HTTP gateway, the methods of  *)
(* the three gRPC services with what their handlers can reply, and the      *)
(* status code an HTTP client is shown for a reply.                         *)
(*                                                                          *)
(* A reply has a gRPC code, the x-http-code header the handler may have set *)
(* and, as a fact about the store and not a field of the message, whether   *)
(* the handler has left its effect there.  That an error of CreateExpression *)
(* or FinishTask means no effect, and that the claim of a task may or may   *)
(* not be committed whatever GetTask answers, is what module                *)
(* StoreTransactions shows of the repository.  The same of Register, which  *)
(* is one INSERT outside of any transaction, is taken from SQLite.          *)
(***************************************************************************)
EXTENDS Naturals

NoHeader == 0

Reply(code, header, stored) == [code |-> code, header |-> header, stored |-> stored]

-----------------------------------------------------------------------------
\* The routes of each service: what the gateway decodes before it calls the method.

CalculatorRoutes ==
    [Calculate |-> "body", ListExpressions |-> "nothing",
     GetExpression |-> "path", ListExpressionTasks |-> "path"]

UserRoutes == [Register |-> "body", Login |-> "body"]

AgentRoutes == [GetTask |-> "nothing", SubmitTaskResult |-> "body"]

Routes ==
    [CalculatorService |-> CalculatorRoutes, UserService |-> UserRoutes,
     AgentService |-> AgentRoutes]

Service == DOMAIN Routes

Method == UNION {{s} \X DOMAIN Routes[s] : s \in Service}

-----------------------------------------------------------------------------
\* The handlers.

InternalError == Reply("Internal", NoHeader, FALSE)

\* Seeded mutant: the code 201 is set before the expression is stored.
CalculateRepliesEarly ==
    {Reply("InvalidArgument", 422, FALSE), Reply("Internal", 201, FALSE), Reply("OK", 201, TRUE)}

CalculateReplies ==
    {Reply("InvalidArgument", 422, FALSE), InternalError, Reply("OK", 201, TRUE)}

ListExpressionsReplies == {InternalError, Reply("OK", NoHeader, FALSE)}

GetExpressionReplies ==
    {Reply("NotFound", NoHeader, FALSE), InternalError, Reply("OK", NoHeader, FALSE)}

ListExpressionTasksReplies == GetExpressionReplies

RegisterReplies ==
    {Reply("AlreadyExists", 400, FALSE), InternalError, Reply("OK", NoHeader, TRUE)}

LoginReplies ==
    {Reply("FailedPrecondition", 400, FALSE), InternalError, Reply("OK", NoHeader, FALSE)}

GetTaskReplies ==
    {Reply("NotFound", NoHeader, FALSE), InternalError, Reply("Internal", NoHeader, TRUE),
     Reply("OK", NoHeader, FALSE), Reply("OK", NoHeader, TRUE)}

SubmitTaskResultReplies ==
    {Reply("NotFound", NoHeader, FALSE), InternalError, Reply("OK", NoHeader, TRUE)}

\* The service descriptors, by which the gRPC server finds the handler of a method.

CalculatorServiceDesc ==
    [Calculate |-> CalculateReplies, ListExpressions |-> ListExpressionsReplies,
     GetExpression |-> GetExpressionReplies, ListExpressionTasks |-> ListExpressionTasksReplies]

UserServiceDesc == [Register |-> RegisterReplies, Login |-> LoginReplies]

AgentServiceDesc == [GetTask |-> GetTaskReplies, SubmitTaskResult |-> SubmitTaskResultReplies]

ServiceDesc ==
    [CalculatorService |-> CalculatorServiceDesc, UserService |-> UserServiceDesc,
     AgentService |-> AgentServiceDesc]

\* The interceptor in front of the handlers asks for a token for one service only.
Unauthenticated(m) ==
    {Reply("Unauthenticated", NoHeader, FALSE) : s \in {m[1]} \cap {"CalculatorService"}}

Replies(m) == Unauthenticated(m) \cup ServiceDesc[m[1]][m[2]]

-----------------------------------------------------------------------------
\* The status codes.

HTTPStatusFromCode ==
    [OK |-> 200, InvalidArgument |-> 400, FailedPrecondition |-> 400, Unauthenticated |-> 401,
     NotFound |-> 404, AlreadyExists |-> 409, Canceled |-> 499, Internal |-> 500,
     Unavailable |-> 503, DeadlineExceeded |-> 504]

\* The x-http-code header, when there is one, overrides the code of the answer, of a message
\* (grpcGatewayResponseModifier) and of an error (grpcGatewayErrorHandler) alike.
HTTPStatus(code, header) ==
    IF header # NoHeader THEN header ELSE HTTPStatusFromCode[code]

\* Codes of an RPC that was cut off: its client does not know what has become of it.
Undetermined == {HTTPStatusFromCode[c] : c \in {"Canceled", "Unavailable", "DeadlineExceeded"}}

\* The methods that write what the client asks for.  GetTask writes a claim, for the agent
\* that gets the answer.
Writes == {<<"CalculatorService", "Calculate">>, <<"UserService", "Register">>,
           <<"AgentService", "SubmitTaskResult">>}
=============================================================================
