---------------------- MODULE CalculatorProcessTheorems ----------------------
(***************************************************************************)
(* Whatever the requests and calls, and however many there are: the status  *)
(* codes of the gateway tell the truth about the store, and a process that  *)
(* exits on its own cuts no handler off.                                    *)
(***************************************************************************)
EXTENDS CalculatorProcess, TLAPS

ReplyRecord == [code : DOMAIN HTTPStatusFromCode, header : Nat, stored : BOOLEAN]

\* The gRPC codes the handlers and the gateway use (HTTPStatusFromCode).
LEMMA Codes ==
    DOMAIN HTTPStatusFromCode =
        {"OK", "InvalidArgument", "FailedPrecondition", "Unauthenticated", "NotFound",
         "AlreadyExists", "Canceled", "Internal", "Unavailable", "DeadlineExceeded"}
BY DEF HTTPStatusFromCode

\* A gRPC code, a header and what was stored make a reply.
LEMMA AReply ==
    ASSUME NEW code \in DOMAIN HTTPStatusFromCode, NEW header \in Nat, NEW stored \in BOOLEAN
    PROVE  Reply(code, header, stored) \in ReplyRecord
BY DEF Reply, ReplyRecord

\* What a handler or the interceptor replies is a reply (Gateway).
LEMMA ReplyType ==
    ASSUME NEW m \in Method, NEW r \in Replies(m)
    PROVE  r \in ReplyRecord
<1>2. /\ Reply("OK", NoHeader, FALSE) \in ReplyRecord
      /\ Reply("OK", NoHeader, TRUE) \in ReplyRecord
      /\ Reply("OK", 201, TRUE) \in ReplyRecord
      /\ Reply("NotFound", NoHeader, FALSE) \in ReplyRecord
      /\ Reply("Unauthenticated", NoHeader, FALSE) \in ReplyRecord
    <2>1. {"NotFound", "OK", "Unauthenticated"} \subseteq DOMAIN HTTPStatusFromCode
        BY Codes
    <2>2. Reply("OK", NoHeader, FALSE) \in ReplyRecord
        BY <2>1 DEF Reply, ReplyRecord, NoHeader
    <2>3. Reply("OK", NoHeader, TRUE) \in ReplyRecord
        BY <2>1 DEF Reply, ReplyRecord, NoHeader
    <2>4. Reply("OK", 201, TRUE) \in ReplyRecord
        BY <2>1 DEF Reply, ReplyRecord, NoHeader
    <2>5. Reply("NotFound", NoHeader, FALSE) \in ReplyRecord
        BY <2>1 DEF Reply, ReplyRecord, NoHeader
    <2>6. Reply("Unauthenticated", NoHeader, FALSE) \in ReplyRecord
        BY <2>1 DEF Reply, ReplyRecord, NoHeader
    <2>7. QED BY <2>2, <2>3, <2>4, <2>5, <2>6
<1>3. /\ Reply("Internal", NoHeader, FALSE) \in ReplyRecord
      /\ Reply("Internal", NoHeader, TRUE) \in ReplyRecord
      /\ Reply("InvalidArgument", 422, FALSE) \in ReplyRecord
      /\ Reply("AlreadyExists", 400, FALSE) \in ReplyRecord
      /\ Reply("FailedPrecondition", 400, FALSE) \in ReplyRecord
    <2>1. {"AlreadyExists", "FailedPrecondition", "Internal", "InvalidArgument"}
              \subseteq DOMAIN HTTPStatusFromCode
        BY Codes
    <2>2. Reply("Internal", NoHeader, FALSE) \in ReplyRecord
        BY <2>1 DEF Reply, ReplyRecord, NoHeader
    <2>3. Reply("Internal", NoHeader, TRUE) \in ReplyRecord
        BY <2>1 DEF Reply, ReplyRecord, NoHeader
    <2>4. Reply("InvalidArgument", 422, FALSE) \in ReplyRecord
        BY <2>1 DEF Reply, ReplyRecord, NoHeader
    <2>5. Reply("AlreadyExists", 400, FALSE) \in ReplyRecord
        BY <2>1 DEF Reply, ReplyRecord, NoHeader
    <2>6. Reply("FailedPrecondition", 400, FALSE) \in ReplyRecord
        BY <2>1 DEF Reply, ReplyRecord, NoHeader
    <2>7. QED BY <2>2, <2>3, <2>4, <2>5, <2>6
<1>4. PICK s \in Service : m \in {s} \X DOMAIN Routes[s]
    BY DEF Method
<1>5. PICK n \in DOMAIN Routes[s] : m = <<s, n>> /\ m[1] = s /\ m[2] = n
    BY <1>4
<1>6. ASSUME r \in Unauthenticated(m)
      PROVE  r \in ReplyRecord
    BY <1>2, <1>6 DEF Unauthenticated
<1>7. ASSUME r \in ServiceDesc[s][n]
      PROVE  r \in ReplyRecord
    <2>1. CASE s = "CalculatorService"
        <3>1. n \in {"Calculate", "ListExpressions", "GetExpression", "ListExpressionTasks"}
            BY <1>5, <2>1 DEF Routes, CalculatorRoutes
        <3>2. r \in CalculateReplies \cup ListExpressionsReplies \cup GetExpressionReplies
            BY <1>7, <2>1, <3>1 DEF ServiceDesc, CalculatorServiceDesc, ListExpressionTasksReplies
        <3>3. CASE r \in CalculateReplies
            BY <1>2, <1>3, <3>3, ZenonT(40) DEF CalculateReplies, InternalError
        <3>4. CASE r \in ListExpressionsReplies \cup GetExpressionReplies
            BY <1>2, <1>3, <3>4, ZenonT(40)
            DEF ListExpressionsReplies, GetExpressionReplies, InternalError
        <3>5. QED BY <3>2, <3>3, <3>4
    <2>2. CASE s = "UserService"
        <3>1. n \in {"Register", "Login"}
            BY <1>5, <2>2 DEF Routes, UserRoutes
        <3>2. r \in RegisterReplies \cup LoginReplies
            BY <1>7, <2>2, <3>1 DEF ServiceDesc, UserServiceDesc
        <3>3. CASE r \in RegisterReplies
            BY <1>2, <1>3, <3>3, ZenonT(40) DEF RegisterReplies, InternalError
        <3>4. CASE r \in LoginReplies
            BY <1>2, <1>3, <3>4, ZenonT(40) DEF LoginReplies, InternalError
        <3>5. QED BY <3>2, <3>3, <3>4
    <2>3. CASE s = "AgentService"
        <3>1. n \in {"GetTask", "SubmitTaskResult"}
            BY <1>5, <2>3 DEF Routes, AgentRoutes
        <3>2. r \in GetTaskReplies \cup SubmitTaskResultReplies
            BY <1>7, <2>3, <3>1 DEF ServiceDesc, AgentServiceDesc
        <3>3. CASE r \in GetTaskReplies
            BY <1>2, <1>3, <3>3, ZenonT(40) DEF GetTaskReplies, InternalError
        <3>4. CASE r \in SubmitTaskResultReplies
            BY <1>2, <1>3, <3>4, ZenonT(40) DEF SubmitTaskResultReplies, InternalError
        <3>5. QED BY <3>2, <3>3, <3>4
    <2>4. Service = {"CalculatorService", "UserService", "AgentService"}
        BY DEF Service, Routes
    <2>5. QED BY <2>1, <2>2, <2>3, <2>4
<1>8. QED BY <1>5, <1>6, <1>7 DEF Replies

\* Every gRPC code has a status code, and the header overrides it with a number (getHTTPStatus).
LEMMA StatusType ==
    ASSUME NEW code \in DOMAIN HTTPStatusFromCode, NEW header \in Nat
    PROVE  HTTPStatus(code, header) \in Nat
BY DEF HTTPStatus, HTTPStatusFromCode

\* The codes a client can make nothing of.
LEMMA UndeterminedCodes == Undetermined = {499, 503, 504}
BY DEF Undetermined, HTTPStatusFromCode

\* The reply to a write, complete or cut off after its headers, is shown as a success exactly
\* when the handler has stored something: the header is set after the store has answered.
LEMMA HonestReplies ==
    ASSUME NEW m \in Writes, NEW r \in Replies(m),
           NEW code \in {r.code, "Canceled", "Unavailable"},
           HTTPStatus(code, r.header) \notin Undetermined
    PROVE  HTTPStatus(code, r.header) \in 200..299 <=> r.stored
<1>1. CASE m = <<"CalculatorService", "Calculate">>
    BY <1>1, UndeterminedCodes DEF Replies, Unauthenticated, ServiceDesc, CalculatorServiceDesc,
        CalculateReplies, InternalError, Reply, HTTPStatus, HTTPStatusFromCode, NoHeader
<1>2. CASE m = <<"UserService", "Register">>
    BY <1>2, UndeterminedCodes DEF Replies, Unauthenticated, ServiceDesc, UserServiceDesc,
        RegisterReplies, InternalError, Reply, HTTPStatus, HTTPStatusFromCode, NoHeader
<1>3. CASE m = <<"AgentService", "SubmitTaskResult">>
    BY <1>3, UndeterminedCodes DEF Replies, Unauthenticated, ServiceDesc, AgentServiceDesc,
        SubmitTaskResultReplies, InternalError, Reply, HTTPStatus, HTTPStatusFromCode, NoHeader
<1>4. QED BY <1>1, <1>2, <1>3 DEF Writes

-----------------------------------------------------------------------------
ProcessAct ==
    Starting \/ Signal \/ (\E s \in Service : CloseConn(s)) \/ (\E s \in Server : Serving(s))

\* The part of the process that does not touch the requests and calls.
LEMMA ProcessFrame == ProcessAct => UNCHANGED callVars
BY DEF ProcessAct, Starting, Serving, RegisterCalculatorService, RegisterUserService,
    RegisterAgentService, Register, SetupFails, Run, Signal, CloseConn, Listen, ServerFails,
    Shutdown, Stopped, ShutdownTimesOut

\* The type invariant holds when main begins.
LEMMA TypeInit == Init => TypeOK
<1> SUFFICES ASSUME Init PROVE TypeOK
    OBVIOUS
<1>1. NoReply \in ReplyRecord
    BY AReply, Codes DEF NoReply, NoHeader
<1>2. reply \in [Rpc -> ReplyRecord]
    BY <1>1 DEF Init
<1>3. QED BY <1>2 DEF Init, TypeOK, ReplyRecord, NoStatus

\* Answer, the common part of all that answer a request, keeps the types.
LEMMA AnswerType ==
    ASSUME TypeOK, NEW i \in Request, NEW code \in Nat,
           NEW outcome \in {"none", "sent", "handling", "replied", "received", "refused",
                            "dropped"},
           Answer(i, code, outcome)
    PROVE  TypeOK'
BY DEF TypeOK, Answer, processVars, Rpc

\* Every step keeps the type invariant.
LEMMA TypeNext == TypeOK /\ RepliesFit /\ [Next]_vars => TypeOK'
<1> SUFFICES ASSUME TypeOK, RepliesFit, [Next]_vars PROVE TypeOK'
    OBVIOUS
<1>1. CASE ProcessAct
    <2>1. UNCHANGED callVars
        BY <1>1, ProcessFrame
    <2>2. CASE Starting \/ Signal \/ \E s \in Service : CloseConn(s)
        BY <2>1, <2>2
        DEF TypeOK, callVars, Starting, RegisterCalculatorService, RegisterUserService,
            RegisterAgentService, Register, SetupFails, Run, Signal, CloseConn
    <2>3. CASE \E s \in Server : Serving(s)
        <3>1. PICK s \in Server : Serving(s)
            BY <2>3
        <3>2. CASE Listen(s) \/ Shutdown(s) \/ Stopped(s)
            BY <2>1, <3>2 DEF TypeOK, callVars, Listen, Shutdown, Stopped
        <3>3. CASE ServerFails(s) \/ ShutdownTimesOut(s)
            BY <2>1, <3>3 DEF TypeOK, callVars, ServerFails, ShutdownTimesOut
        <3>4. QED BY <3>1, <3>2, <3>3 DEF Serving
    <2>4. QED BY <1>1, <2>2, <2>3 DEF ProcessAct
<1>2. CASE Exit \/ Kill
    <2>1. phase' = "exited" /\ killed' \in BOOLEAN /\ CutOff
              /\ UNCHANGED <<signalled, conn, server, failed>>
        BY <1>2 DEF Exit, Kill, TypeOK
    <2>2. http' \in [Request -> {"none", "received", "calling", "answered", "dropped"}]
        BY <2>1 DEF CutOff, TypeOK
    <2>3. rpc' \in [Rpc -> {"none", "sent", "handling", "replied", "received", "refused",
                            "dropped"}]
        BY <2>1 DEF CutOff, TypeOK
    <2>4. QED BY <2>1, <2>2, <2>3 DEF CutOff, TypeOK
<1>3. ASSUME NEW i \in Request, Requesting(i)
      PROVE  TypeOK'
    <2> DEFINE Outcome == {"none", "sent", "handling", "replied", "received", "refused", "dropped"}
    <2>1. rpc[i] \in Outcome /\ reply[i] \in ReplyRecord /\ i \in Rpc
        BY DEF TypeOK, Rpc, ReplyRecord
    <2>2. CASE Receive(i) \/ Invoke(i) \/ ClientGone(i)
        <3>1. CASE Receive(i)
            BY <3>1 DEF TypeOK, Receive, processVars
        <3>2. CASE Invoke(i)
            BY <2>1, <3>2 DEF TypeOK, Invoke, processVars
        <3>3. CASE ClientGone(i)
            BY <3>3 DEF TypeOK, ClientGone, processVars
        <3>4. QED BY <2>2, <3>1, <3>2, <3>3
    <2>3. \A c \in DOMAIN HTTPStatusFromCode : HTTPStatusFromCode[c] \in Nat
        BY DEF HTTPStatusFromCode
    <2>4. CASE AnswerPage(i)
        BY <2>1, <2>4, AnswerType DEF AnswerPage
    <2>5. CASE Reject(i) \/ InvokeUnavailable(i) \/ InvokeClosed(i) \/ TimeOut(i)
        BY <2>1, <2>3, <2>5, AnswerType, Codes
        DEF Reject, InvokeUnavailable, InvokeClosed, TimeOut
    <2>6. CASE Deliver(i)
        <3>1. HTTPStatus(reply[i].code, reply[i].header) \in Nat
            BY <2>1, StatusType DEF ReplyRecord
        <3>2. QED BY <2>6, <3>1, AnswerType DEF Deliver
    <2>7. CASE CutByClose(i)
        <3>1. PICK code \in {"Canceled", "Unavailable"},
                   header \in {NoHeader} \cup
                       (IF rpc[i] = "replied" THEN {reply[i].header} ELSE {}) :
                       Answer(i, HTTPStatus(code, header), rpc[i])
            BY <2>7 DEF CutByClose
        <3>2. header \in Nat /\ code \in DOMAIN HTTPStatusFromCode
            BY <2>1, Codes DEF ReplyRecord, NoHeader
        <3>3. QED BY <2>1, <3>1, <3>2, StatusType, AnswerType
    <2>8. QED BY <1>3, <2>2, <2>4, <2>5, <2>6, <2>7 DEF Requesting
<1>4. ASSUME NEW c \in Rpc, Answering(c)
      PROVE  TypeOK'
    <2>1. CASE Dispatch(c) \/ Vanish(c)
        BY <2>1 DEF TypeOK, Dispatch, Vanish, processVars
    <2>2. CASE Refuse(c) /\ c \in Request
        <3>1. HTTPStatusFromCode["Unavailable"] \in Nat
            BY DEF HTTPStatusFromCode
        <3>2. QED BY <2>2, <3>1, AnswerType DEF Refuse
    <2>3. CASE Refuse(c) /\ c \notin Request
        BY <2>3 DEF TypeOK, Refuse, processVars
    <2>4. CASE Handle(c)
        <3>1. PICK r \in Replies(target[c]) : reply' = [reply EXCEPT ![c] = r]
            BY <2>4 DEF Handle
        <3>2. rpc[c] = "handling" /\ target[c] \in Method
            BY <2>4 DEF Handle, RepliesFit
        <3>3. r \in ReplyRecord
            BY <3>1, <3>2, ReplyType
        <3>4. QED BY <2>4, <3>1, <3>3 DEF TypeOK, Handle, ReplyRecord, processVars
    <2>5. QED BY <1>4, <2>1, <2>2, <2>3, <2>4 DEF Answering
<1>5. ASSUME NEW c \in Call, CallDirectly(c) \/ DeliverDirectly(c)
      PROVE  TypeOK'
    BY <1>5 DEF TypeOK, CallDirectly, DeliverDirectly, processVars, Rpc
<1>6. CASE UNCHANGED vars
    BY <1>6 DEF TypeOK, vars, processVars, callVars
<1>7. QED BY <1>1, <1>2, <1>3, <1>4, <1>5, <1>6 DEF Next, ProcessAct

\* Calls have methods, not pages: a page belongs to a server, a method to a service.
LEMMA AgentMethods == AgentMethod \subseteq Method
BY TargetAssumption DEF AgentMethod, Page

LEMMA PagesAreNoMethods == Page \cap Method = {}
BY DEF Page, Method, Service, Routes

\* The invariant holds when main begins.
LEMMA InitInv == Init => IInv
<1> SUFFICES ASSUME Init PROVE IInv
    OBVIOUS
<1>1. TypeOK
    BY TypeInit
<1>2. StartsQuiet /\ RequestsFit /\ RepliesFit
    BY DEF Init, StartsQuiet, RequestsFit, RepliesFit, Rpc
<1>3. AnswersFit /\ HandlersRunToTheirEnd
    BY ServerAssumption DEF Init, AnswersFit, HandlersRunToTheirEnd
<1>4. QED BY <1>1, <1>2, <1>3 DEF IInv

\* Before the servers run there are no requests (main, runy.Start comes last).
LEMMA QuietNext == IInv /\ [Next]_vars => StartsQuiet'
<1> SUFFICES ASSUME IInv, [Next]_vars, phase' = "starting" PROVE \A c \in Rpc : rpc'[c] = "none"
    BY DEF StartsQuiet
<1>1. CASE ProcessAct
    <2>1. phase = "starting"
        BY <1>1 DEF ProcessAct, Starting, Serving, RegisterCalculatorService, RegisterUserService,
            RegisterAgentService, Register, SetupFails, Run, Signal, CloseConn, Listen, ServerFails,
            Shutdown, Stopped, ShutdownTimesOut, Running
    <2>2. QED BY <1>1, <2>1, ProcessFrame DEF callVars, IInv, StartsQuiet
<1>2. CASE Exit \/ Kill
    BY <1>2 DEF Exit, Kill
<1>3. CASE UNCHANGED vars
    BY <1>3 DEF vars, processVars, callVars, IInv, StartsQuiet
<1>4. ASSUME NEW i \in Request, Requesting(i)
      PROVE  FALSE
    BY <1>4 DEF Requesting, Receive, AnswerPage, Reject, Invoke, InvokeUnavailable, InvokeClosed,
        Deliver, CutByClose, TimeOut, ClientGone, Answer, Running, processVars
<1>5. ASSUME NEW c \in Rpc, Answering(c)
      PROVE  FALSE
    BY <1>5 DEF Answering, Dispatch, Refuse, Vanish, Handle, Running, Answer, processVars
<1>6. ASSUME NEW c \in Call, CallDirectly(c) \/ DeliverDirectly(c)
      PROVE  FALSE
    <2>1. c \in Rpc
        BY DEF Rpc
    <2>2. phase = "starting"
        BY <1>6 DEF CallDirectly, DeliverDirectly, processVars
    <2>3. rpc[c] = "none"
        BY <2>1, <2>2 DEF IInv, StartsQuiet
    <2>4. QED BY <1>6, <2>2, <2>3 DEF CallDirectly, DeliverDirectly, Running
<1>7. QED BY <1>1, <1>2, <1>3, <1>4, <1>5, <1>6 DEF Next, ProcessAct

\* An RPC that changes its state is answered by what its handler has replied (Handle), and a
\* request goes where its RPC goes.
LEMMA CallsNext == IInv /\ [Next]_vars => RequestsFit' /\ RepliesFit'
<1> SUFFICES ASSUME IInv, [Next]_vars PROVE RequestsFit' /\ RepliesFit'
    OBVIOUS
<1> USE DEF IInv
<1>1. CASE ProcessAct \/ UNCHANGED vars
    BY <1>1, ProcessFrame DEF RequestsFit, RepliesFit, vars, callVars
<1>2. CASE Exit \/ Kill
    BY <1>2 DEF RequestsFit, RepliesFit, Exit, Kill, CutOff, TypeOK, Rpc
<1>3. ASSUME NEW i \in Request, Requesting(i)
      PROVE  RequestsFit' /\ RepliesFit'
    <2>1. CASE Receive(i) \/ Invoke(i) \/ ClientGone(i)
        BY <2>1 DEF RequestsFit, RepliesFit, TypeOK, Receive, Invoke, ClientGone, Rpc
    <2>2. CASE AnswerPage(i) \/ Reject(i) \/ InvokeUnavailable(i) \/ InvokeClosed(i) \/ TimeOut(i)
        BY <2>2 DEF RequestsFit, RepliesFit, TypeOK, AnswerPage, Reject, InvokeUnavailable,
            InvokeClosed, TimeOut, Answer, Rpc
    <2>3. CASE Deliver(i) \/ CutByClose(i)
        BY <2>3 DEF RequestsFit, RepliesFit, TypeOK, Deliver, CutByClose, Answer, Rpc
    <2>4. QED BY <1>3, <2>1, <2>2, <2>3 DEF Requesting
<1>4. ASSUME NEW c \in Rpc, Answering(c)
      PROVE  RequestsFit' /\ RepliesFit'
    <2>1. CASE Dispatch(c) \/ Vanish(c)
        BY <2>1 DEF RequestsFit, RepliesFit, TypeOK, Dispatch, Vanish, Waiting, Rpc
    <2>2. CASE Refuse(c)
        BY <2>2 DEF RequestsFit, RepliesFit, TypeOK, Refuse, Answer, Rpc
    <2>3. CASE Handle(c)
        BY <2>3 DEF RequestsFit, RepliesFit, TypeOK, Handle, Rpc
    <2>4. QED BY <1>4, <2>1, <2>2, <2>3 DEF Answering
<1>5. ASSUME NEW c \in Call, CallDirectly(c) \/ DeliverDirectly(c)
      PROVE  RequestsFit' /\ RepliesFit'
    BY <1>5, CallAssumption, AgentMethods DEF RequestsFit, RepliesFit, TypeOK, CallDirectly,
        DeliverDirectly, Rpc
<1>6. QED BY <1>1, <1>2, <1>3, <1>4, <1>5 DEF Next, ProcessAct

\* The code of an answer is that of the reply, or one that says nothing, or the gateway's own.
LEMMA AnswersNext == IInv /\ [Next]_vars => AnswersFit'
<1> SUFFICES ASSUME IInv, [Next]_vars,
                    NEW j \in Request, http'[j] = "answered", status'[j] \notin Undetermined
             PROVE  \/ rpc'[j] = "none" /\ status'[j] = IF target'[j] \in Page THEN 200 ELSE 400
                    \/ /\ rpc'[j] \in {"replied", "received"}
                       /\ \E code \in {reply'[j].code, "Canceled", "Unavailable"} :
                              status'[j] = HTTPStatus(code, reply'[j].header)
    BY DEF AnswersFit
<1> DEFINE Fit == \/ rpc'[j] = "none" /\ status'[j] = IF target'[j] \in Page THEN 200 ELSE 400
                  \/ /\ rpc'[j] \in {"replied", "received"}
                     /\ \E code \in {reply'[j].code, "Canceled", "Unavailable"} :
                            status'[j] = HTTPStatus(code, reply'[j].header)
<1> USE DEF IInv
<1>0. HTTPStatusFromCode["InvalidArgument"] = 400
      /\ {HTTPStatusFromCode["Unavailable"], HTTPStatusFromCode["Canceled"],
          HTTPStatusFromCode["DeadlineExceeded"]} \subseteq Undetermined
    BY DEF Undetermined, HTTPStatusFromCode
<1>a. j \in Rpc
    BY DEF Rpc
<1>b. ASSUME http[j] = "answered", status'[j] = status[j], target'[j] = target[j],
             reply'[j] = reply[j], rpc'[j] = rpc[j]
      PROVE  Fit
    BY <1>b DEF AnswersFit
<1>1. CASE ProcessAct \/ UNCHANGED vars
    BY <1>1, <1>b, ProcessFrame DEF vars, callVars
<1>2. CASE Exit \/ Kill
    <2>1. http[j] = "answered" /\ status' = status /\ target' = target /\ reply' = reply
        BY <1>2 DEF Exit, Kill, CutOff, TypeOK
    <2>2. rpc[j] \in {"none", "replied", "received"}
        BY <2>1 DEF AnswersFit
    <2>3. rpc'[j] = rpc[j]
        BY <1>2, <1>a, <2>2 DEF Exit, Kill, CutOff
    <2>4. QED BY <1>b, <2>1, <2>3
<1>3. ASSUME NEW i \in Request, Requesting(i)
      PROVE  Fit
    <2>1. CASE i # j
        <3>1. /\ http'[j] = http[j] /\ status'[j] = status[j] /\ target'[j] = target[j]
              /\ reply'[j] = reply[j] /\ rpc'[j] = rpc[j]
            BY <1>3, <1>a, <2>1
            DEF Requesting, Receive, AnswerPage, Reject, Invoke, InvokeUnavailable,
                InvokeClosed, Deliver, CutByClose, TimeOut, ClientGone, Answer, TypeOK
        <3>2. QED BY <1>b, <3>1
    <2>2. CASE i = j
        <3>1. CASE Receive(j) \/ Invoke(j) \/ ClientGone(j)
            BY <3>1 DEF Receive, Invoke, ClientGone, TypeOK
        <3>2. CASE AnswerPage(j) \/ Reject(j)
            BY <1>0, <1>a, <3>2, PagesAreNoMethods
            DEF AnswerPage, Reject, Answer, TypeOK, RequestsFit
        <3>3. CASE InvokeUnavailable(j) \/ InvokeClosed(j) \/ TimeOut(j)
            BY <1>0, <3>3 DEF InvokeUnavailable, InvokeClosed, TimeOut, Answer, TypeOK
        <3>4. CASE Deliver(j)
            BY <1>a, <3>4 DEF Deliver, Answer, TypeOK
        <3>5. CASE CutByClose(j)
            <4>1. PICK code \in {"Canceled", "Unavailable"},
                       header \in {NoHeader} \cup
                           (IF rpc[j] = "replied" THEN {reply[j].header} ELSE {}) :
                           Answer(j, HTTPStatus(code, header), rpc[j])
                BY <3>5 DEF CutByClose
            <4>2. status'[j] = HTTPStatus(code, header) /\ rpc'[j] = rpc[j] /\ reply' = reply
                BY <4>1, <1>a DEF Answer, TypeOK
            <4>3. header # NoHeader
                BY <1>0, <4>2 DEF HTTPStatus
            <4>4. rpc[j] = "replied" /\ header = reply[j].header
                BY <4>3
            <4>5. QED BY <4>2, <4>4
        <3>6. QED BY <1>3, <2>2, <3>1, <3>2, <3>3, <3>4, <3>5 DEF Requesting
    <2>3. QED BY <2>1, <2>2
<1>4. ASSUME NEW c \in Rpc, Answering(c)
      PROVE  Fit
    <2>1. CASE Refuse(c) /\ c \in Request /\ c = j
        BY <1>0, <2>1 DEF Refuse, Answer, TypeOK
    <2>2. CASE ~(Refuse(c) /\ c \in Request /\ c = j)
        <3>1. /\ http'[j] = http[j] /\ status'[j] = status[j] /\ target'[j] = target[j]
            BY <1>4, <2>2 DEF Answering, Dispatch, Refuse, Vanish, Handle, Answer, TypeOK
        <3>2. rpc[j] \in {"none", "replied", "received"}
            BY <3>1 DEF AnswersFit
        <3>3. c # j
            BY <1>4, <3>2 DEF Answering, Dispatch, Refuse, Vanish, Handle
        <3>4. reply'[j] = reply[j] /\ rpc'[j] = rpc[j]
            BY <1>4, <1>a, <3>3 DEF Answering, Dispatch, Refuse, Vanish, Handle, Answer, TypeOK
        <3>5. QED BY <1>b, <3>1, <3>4
    <2>3. QED BY <2>1, <2>2
<1>5. ASSUME NEW c \in Call, CallDirectly(c) \/ DeliverDirectly(c)
      PROVE  Fit
    <2>1. c # j
        BY CallAssumption
    <2>2. QED BY <1>5, <1>a, <1>b, <2>1 DEF CallDirectly, DeliverDirectly, TypeOK
<1>6. QED BY <1>1, <1>2, <1>3, <1>4, <1>5 DEF Next, ProcessAct

\* GracefulStop waits for the handlers, and runy for GracefulStop.
LEMMA HandlersNext == IInv /\ [Next]_vars => HandlersRunToTheirEnd'
<1> SUFFICES ASSUME IInv, [Next]_vars PROVE HandlersRunToTheirEnd'
    OBVIOUS
<1> USE DEF IInv, HandlersRunToTheirEnd
<1>1. CASE UNCHANGED vars
    BY <1>1 DEF vars, processVars, callVars
<1>2. CASE ProcessAct
    <2>1. UNCHANGED callVars
        BY <1>2, ProcessFrame
    <2>2. CASE Signal \/ \E s \in Service : CloseConn(s)
        BY <2>1, <2>2 DEF callVars, Signal, CloseConn
    <2>3. CASE Starting
        BY <2>1, <2>3 DEF callVars, Starting, RegisterCalculatorService, RegisterUserService,
            RegisterAgentService, Register, SetupFails, Run, StartsQuiet
    <2>4. ASSUME NEW s \in Server, Serving(s)
          PROVE  HandlersRunToTheirEnd'
        <3>1. CASE s = "grpc"
            BY <2>1, <2>4, <3>1 DEF callVars, Serving, Listen, ServerFails, Shutdown, Stopped,
                ShutdownTimesOut, Running, TypeOK
        <3>2. CASE s # "grpc"
            <4>1. server'["grpc"] = server["grpc"] /\ ("grpc" \in failed' <=> "grpc" \in failed)
                BY <2>4, <3>2, ServerAssumption
                DEF Serving, Listen, ServerFails, Shutdown, Stopped,
                    ShutdownTimesOut, TypeOK
            <4>2. phase' = phase /\ killed' = killed
                BY <2>4 DEF Serving, Listen, ServerFails, Shutdown, Stopped, ShutdownTimesOut
            <4>3. QED BY <2>1, <4>1, <4>2 DEF callVars
        <3>3. QED BY <3>1, <3>2
    <2>5. QED BY <1>2, <2>2, <2>3, <2>4 DEF ProcessAct
<1>3. CASE Kill
    BY <1>3 DEF Kill, CutOff, Running, TypeOK
<1>4. CASE Exit
    BY <1>4, ServerAssumption DEF Exit, CutOff, Running, TypeOK
<1>5. ASSUME NEW i \in Request, Requesting(i)
      PROVE  HandlersRunToTheirEnd'
    BY <1>5 DEF Requesting, Receive, AnswerPage, Reject, Invoke, InvokeUnavailable, InvokeClosed,
        Deliver, CutByClose, TimeOut, ClientGone, Answer, Running, TypeOK, Rpc, processVars
<1>6. ASSUME NEW c \in Rpc, Answering(c)
      PROVE  HandlersRunToTheirEnd'
    BY <1>6 DEF Answering, Dispatch, Refuse, Vanish, Handle, Answer, Running, TypeOK, processVars
<1>7. ASSUME NEW c \in Call, CallDirectly(c) \/ DeliverDirectly(c)
      PROVE  HandlersRunToTheirEnd'
    BY <1>7 DEF CallDirectly, DeliverDirectly, Running, TypeOK, Rpc, processVars
<1>8. QED BY <1>1, <1>2, <1>3, <1>4, <1>5, <1>6, <1>7 DEF Next, ProcessAct

-----------------------------------------------------------------------------
\* The invariant holds throughout: requests, RPCs, replies and answers fit together, and the
\* handlers run to their end.
THEOREM Invariance == Spec => []IInv
<1>1. IInv /\ [Next]_vars => IInv'
    BY TypeNext, QuietNext, CallsNext, AnswersNext, HandlersNext DEF IInv
<1>2. QED BY <1>1, InitInv, PTL DEF Spec

\* The status code of an answered write tells whether its effect is stored.
THEOREM StatusCodes == Spec => []CodeTellsOutcome
<1>1. ASSUME IInv, NEW i \in Request, http[i] = "answered", target[i] \in Writes,
             status[i] \notin Undetermined
      PROVE  Succeeded(i) <=> rpc[i] # "none" /\ reply[i].stored
    <2>1. i \in Rpc
        BY DEF Rpc
    <2>2. CASE rpc[i] = "none"
        <3>1. target[i] \notin Page
            BY <1>1 DEF Writes, Page
        <3>2. status[i] = 400
            BY <1>1, <2>2, <3>1 DEF IInv, AnswersFit
        <3>3. QED BY <2>2, <3>2 DEF Succeeded
    <2>3. CASE rpc[i] # "none"
        <3>1. PICK code \in {reply[i].code, "Canceled", "Unavailable"} :
                  status[i] = HTTPStatus(code, reply[i].header)
            BY <1>1, <2>3 DEF IInv, AnswersFit
        <3>2. reply[i] \in Replies(target[i])
            BY <1>1, <2>1, <2>3 DEF IInv, AnswersFit, RepliesFit
        <3>3. QED BY <1>1, <2>3, <3>1, <3>2, HonestReplies DEF Succeeded
    <2>4. QED BY <2>2, <2>3
<1>2. IInv => CodeTellsOutcome
    BY <1>1 DEF CodeTellsOutcome
<1>3. QED BY <1>2, Invariance, PTL

\* A process that exits by itself, with a gRPC server that has not failed, has no handler cut
\* off.
THEOREM GracefulExit == Spec => []ExitIsGraceful
<1>1. IInv => ExitIsGraceful
    BY DEF IInv, HandlersRunToTheirEnd, ExitIsGraceful
<1>2. QED BY <1>1, Invariance, PTL
=============================================================================
