------------------------- MODULE CalculatorProcess --------------------------
(***************************************************************************)
(* The calculator process: how it starts, serves and stops.  It runs a gRPC *)
(* server for the agents, an HTTP server whose gateway calls the gRPC       *)
(* server of the same process through one client connection per service,   *)
(* and a management server.                                                 *)
(*                                                                          *)
(* A signal ends the context of main.  Then, in any order, the gateway's    *)
(* connections are closed, GracefulStop waits for the running handlers      *)
(* without a time limit, and the HTTP servers wait for their requests for   *)
(* five seconds.  A server that fails ends the others but leaves the        *)
(* connections alone.                                                       *)
(***************************************************************************)
EXTENDS Gateway

CONSTANTS
    Request,    \* requests of HTTP clients
    Call,       \* gRPC calls of agents
    Target,     \* what the requests are for: methods and pages
    Server      \* the servers of the process

\* Pages are answered by the server itself, without an RPC.
Page == {<<"http", "docs">>, <<"mgmt", "healthz">>}

ASSUME TargetAssumption == Target \subseteq Method \cup Page

ASSUME CallAssumption == Request \cap Call = {}

ASSUME ServerAssumption ==
    {"grpc", "http"} \subseteq Server /\ Server \subseteq {"mgmt", "grpc", "http"}

AgentMethod == {m \in Target : m[1] = "AgentService"}
Rpc == Request \cup Call

VARIABLES
    phase,      \* "starting", "running" or "exited"
    signalled,  \* the context of main is done
    killed,     \* the process was ended without running any of this code
    conn,       \* the gateway's connection of each service
    server,     \* where the Start of each server is
    failed,     \* the servers whose Start returned an error
    target,     \* what a request or a call is for
    http,       \* the state of an HTTP request
    status,     \* the status code it was answered with
    rpc,        \* the state of an RPC, of the gateway or of an agent
    reply       \* what its handler has replied

processVars == <<phase, signalled, killed, conn, server, failed>>
callVars == <<target, http, status, rpc, reply>>
vars == <<processVars, callVars>>

NoStatus == 0
NoReply == Reply("OK", NoHeader, FALSE)

\* The context of the servers is done: runy cancels it on a signal and on the first failure.
Stopping == signalled \/ failed # {}

Running == phase = "running"

Init ==
    /\ phase = "starting"
    /\ signalled = FALSE
    /\ killed = FALSE
    /\ conn = [s \in Service |-> "none"]
    /\ server = [s \in Server |-> "new"]
    /\ failed = {}
    /\ target \in [Rpc -> Target]
    /\ \A c \in Call : target[c] \in AgentMethod
    /\ http = [i \in Request |-> "none"]
    /\ status = [i \in Request |-> NoStatus]
    /\ rpc = [c \in Rpc |-> "none"]
    /\ reply = [c \in Rpc |-> NoReply]

-----------------------------------------------------------------------------
\* Starting: main registers the services one after the other, then starts the servers.

\* RegisterWith and RegisterGRPCGateway.  Dialling does not wait for the server.
Register(s) ==
    /\ phase = "starting"
    /\ conn[s] = "none"
    /\ conn' = [conn EXCEPT ![s] = "open"]
    /\ UNCHANGED <<phase, signalled, killed, server, failed, callVars>>

RegisterCalculatorService == Register("CalculatorService")

RegisterUserService == conn["CalculatorService"] # "none" /\ Register("UserService")

RegisterAgentService == conn["UserService"] # "none" /\ Register("AgentService")

\* The configuration, the database or the registration of a service.
SetupFails ==
    /\ phase = "starting"
    /\ phase' = "exited"
    /\ UNCHANGED <<signalled, killed, conn, server, failed, callVars>>

Run ==
    /\ phase = "starting"
    /\ \A s \in Service : conn[s] # "none"
    /\ phase' = "running"
    /\ UNCHANGED <<signalled, killed, conn, server, failed, callVars>>

Listen(s) ==
    /\ Running
    /\ server[s] = "new"
    /\ server' = [server EXCEPT ![s] = "serving"]
    /\ UNCHANGED <<phase, signalled, killed, conn, failed, callVars>>

\* Start returns the error: of net.Listen, before anything is served, or of accepting, which
\* leaves the connections and requests it had to themselves.
ServerFails(s) ==
    /\ Running
    /\ server[s] \in {"new", "serving"}
    /\ server' = [server EXCEPT ![s] = IF @ = "new" THEN "stopped" ELSE "abandoned"]
    /\ failed' = failed \cup {s}
    /\ UNCHANGED <<phase, signalled, killed, conn, callVars>>

-----------------------------------------------------------------------------
\* Stopping.

Signal ==
    /\ phase # "exited"
    /\ ~signalled
    /\ signalled' = TRUE
    /\ UNCHANGED <<phase, killed, conn, server, failed, callVars>>

\* The goroutine that RegisterXHandlerFromEndpoint leaves behind waits for the context of
\* main, not for that of the servers.
CloseConn(s) ==
    /\ phase # "exited"
    /\ signalled
    /\ conn[s] = "open"
    /\ conn' = [conn EXCEPT ![s] = "closed"]
    /\ UNCHANGED <<phase, signalled, killed, server, failed, callVars>>

\* The select of Start takes ctx.Done.  The gRPC server listens before it gets there.
Shutdown(s) ==
    /\ Running
    /\ Stopping
    /\ server[s] \in IF s = "grpc" THEN {"serving"} ELSE {"new", "serving"}
    /\ server' = [server EXCEPT ![s] = "closing"]
    /\ UNCHANGED <<phase, signalled, killed, conn, failed, callVars>>

HostOf(i) == IF target[i][1] = "mgmt" THEN "mgmt" ELSE "http"

Active(s) == {i \in Request : HostOf(i) = s /\ http[i] \in {"received", "calling"}}

\* Seeded mutant: Stop instead of GracefulStop.
StoppedAtOnce(s) ==
    /\ Running
    /\ server[s] = "closing"
    /\ s # "grpc" => Active(s) = {}
    /\ server' = [server EXCEPT ![s] = "stopped"]
    /\ UNCHANGED <<phase, signalled, killed, conn, failed, callVars>>

\* GracefulStop returns when the handlers have, Shutdown when the requests are answered.
Stopped(s) ==
    /\ Running
    /\ server[s] = "closing"
    /\ IF s = "grpc" THEN \A c \in Rpc : rpc[c] # "handling" ELSE Active(s) = {}
    /\ server' = [server EXCEPT ![s] = "stopped"]
    /\ UNCHANGED <<phase, signalled, killed, conn, failed, callVars>>

\* Seeded mutant: Shutdown is given a context without a deadline.
ShutdownTimesOutNever(s) ==
    /\ FALSE
    /\ UNCHANGED vars

\* The five seconds of an HTTP server are over.  The requests go on until the process exits.
ShutdownTimesOut(s) ==
    /\ Running
    /\ s # "grpc"
    /\ server[s] = "closing"
    /\ Active(s) # {}
    /\ server' = [server EXCEPT ![s] = "stopped"]
    /\ failed' = failed \cup {s}
    /\ UNCHANGED <<phase, signalled, killed, conn, callVars>>

\* What the end of the process does to the requests and RPCs of that moment.
CutOff ==
    /\ http' = [i \in Request |->
                    IF http[i] \in {"received", "calling"} THEN "dropped" ELSE http[i]]
    /\ rpc' = [c \in Rpc |-> CASE rpc[c] = "sent" -> "refused"
                                [] rpc[c] = "handling" -> "dropped"
                                [] OTHER -> rpc[c]]
    /\ UNCHANGED <<target, status, reply>>

\* runy.Start returns when all the servers have.
Exit ==
    /\ Running
    /\ \A s \in Server : server[s] \in {"stopped", "abandoned"}
    /\ phase' = "exited"
    /\ CutOff
    /\ UNCHANGED <<signalled, killed, conn, server, failed>>

Kill ==
    /\ Running
    /\ phase' = "exited"
    /\ killed' = TRUE
    /\ CutOff
    /\ UNCHANGED <<signalled, conn, server, failed>>

-----------------------------------------------------------------------------
\* The request path.

Receive(i) ==
    /\ Running
    /\ http[i] = "none"
    /\ server[HostOf(i)] = "serving"
    /\ http' = [http EXCEPT ![i] = "received"]
    /\ UNCHANGED <<processVars, target, status, rpc, reply>>

\* A request is answered and, if it was waiting for an RPC, the RPC is what outcome says.
Answer(i, code, outcome) ==
    /\ Running
    /\ http' = [http EXCEPT ![i] = "answered"]
    /\ status' = [status EXCEPT ![i] = code]
    /\ rpc' = [rpc EXCEPT ![i] = outcome]
    /\ UNCHANGED <<processVars, target, reply>>

AnswerPage(i) ==
    /\ http[i] = "received"
    /\ target[i] \in Page
    /\ Answer(i, 200, rpc[i])

\* AnnotateContext or the decoder of the body finds the request malformed.
Reject(i) ==
    /\ http[i] = "received"
    /\ target[i] \in Method
    /\ Answer(i, HTTPStatusFromCode["InvalidArgument"], rpc[i])

\* Seeded mutant: the RPC is sent from a goroutine, and the request goes on by itself.
InvokeAsync(i) ==
    /\ Running
    /\ http[i] = "received"
    /\ target[i] \in Method
    /\ conn[target[i][1]] = "open"
    /\ server["grpc"] \in {"serving", "abandoned"}
    /\ rpc' = [rpc EXCEPT ![i] = "sent"]
    /\ UNCHANGED <<processVars, target, http, status, reply>>

Invoke(i) ==
    /\ Running
    /\ http[i] = "received"
    /\ target[i] \in Method
    /\ conn[target[i][1]] = "open"
    /\ server["grpc"] \in {"serving", "abandoned"}
    /\ http' = [http EXCEPT ![i] = "calling"]
    /\ rpc' = [rpc EXCEPT ![i] = "sent"]
    /\ UNCHANGED <<processVars, target, status, reply>>

\* The connection is not up: the server does not listen, not yet or no more, or a failed
\* attempt to connect has not been repeated yet.
InvokeUnavailable(i) ==
    /\ http[i] = "received"
    /\ target[i] \in Method
    /\ conn[target[i][1]] = "open"
    /\ Answer(i, HTTPStatusFromCode["Unavailable"], rpc[i])

InvokeClosed(i) ==
    /\ http[i] = "received"
    /\ target[i] \in Method
    /\ conn[target[i][1]] = "closed"
    /\ Answer(i, HTTPStatusFromCode["Canceled"], rpc[i])

\* An agent calls.
CallDirectly(c) ==
    /\ Running
    /\ rpc[c] = "none"
    /\ server["grpc"] = "serving"
    /\ rpc' = [rpc EXCEPT ![c] = "sent"]
    /\ UNCHANGED <<processVars, target, http, status, reply>>

\* The caller still waits on a connection that is still there.
Waiting(c) == c \in Request => http[c] = "calling" /\ conn[target[c][1]] = "open"

\* It is not asked whether the caller still waits: the RPC may be under way to the server when
\* its connection is closed.
Dispatch(c) ==
    /\ Running
    /\ rpc[c] = "sent"
    /\ server["grpc"] \in {"serving", "closing", "abandoned"}
    /\ rpc' = [rpc EXCEPT ![c] = "handling"]
    /\ UNCHANGED <<processVars, target, http, status, reply>>

\* The server is draining: the RPC came too late, and its client learns that it was not run.
Refuse(c) ==
    /\ Running
    /\ rpc[c] = "sent"
    /\ Waiting(c)
    /\ server["grpc"] \in {"closing", "stopped"}
    /\ IF c \in Request
       THEN Answer(c, HTTPStatusFromCode["Unavailable"], "refused")
       ELSE /\ rpc' = [rpc EXCEPT ![c] = "refused"]
            /\ UNCHANGED <<processVars, target, http, status, reply>>

\* Nobody waits for it, and it never reaches a handler.
Vanish(c) ==
    /\ Running
    /\ rpc[c] = "sent"
    /\ ~Waiting(c)
    /\ rpc' = [rpc EXCEPT ![c] = "refused"]
    /\ UNCHANGED <<processVars, target, http, status, reply>>

\* A handler returns.  It does so also when its client has gone: the repository gives up when
\* the context is done, and waits for the lock of the database for a limited time.
Handle(c) ==
    /\ Running
    /\ rpc[c] = "handling"
    /\ rpc' = [rpc EXCEPT ![c] = "replied"]
    /\ \E r \in Replies(target[c]) : reply' = [reply EXCEPT ![c] = r]
    /\ UNCHANGED <<processVars, target, http, status>>

Deliver(i) ==
    /\ http[i] = "calling"
    /\ rpc[i] = "replied"
    /\ Waiting(i)
    /\ Answer(i, HTTPStatus(reply[i].code, reply[i].header), "received")

DeliverDirectly(c) ==
    /\ rpc[c] = "replied"
    /\ rpc' = [rpc EXCEPT ![c] = "received"]
    /\ UNCHANGED <<processVars, target, http, status, reply>>

\* The connection is closed under the RPC.  The headers may have arrived already.
CutByClose(i) ==
    /\ http[i] = "calling"
    /\ conn[target[i][1]] = "closed"
    /\ \E code \in {"Canceled", "Unavailable"},
          header \in {NoHeader} \cup (IF rpc[i] = "replied" THEN {reply[i].header} ELSE {}) :
           Answer(i, HTTPStatus(code, header), rpc[i])

\* The time the client has asked for is over.
TimeOut(i) ==
    /\ http[i] = "calling"
    /\ Answer(i, HTTPStatusFromCode["DeadlineExceeded"], rpc[i])

ClientGone(i) ==
    /\ Running
    /\ http[i] \in {"received", "calling"}
    /\ http' = [http EXCEPT ![i] = "dropped"]
    /\ UNCHANGED <<processVars, target, status, rpc, reply>>

-----------------------------------------------------------------------------
Starting ==
    \/ RegisterCalculatorService \/ RegisterUserService \/ RegisterAgentService
    \/ SetupFails \/ Run

Serving(s) == Listen(s) \/ ServerFails(s) \/ Shutdown(s) \/ Stopped(s) \/ ShutdownTimesOut(s)

Requesting(i) ==
    \/ Receive(i) \/ AnswerPage(i) \/ Reject(i) \/ Invoke(i)
    \/ InvokeUnavailable(i) \/ InvokeClosed(i)
    \/ Deliver(i) \/ CutByClose(i) \/ TimeOut(i) \/ ClientGone(i)

Answering(c) == Dispatch(c) \/ Refuse(c) \/ Vanish(c) \/ Handle(c)

Next ==
    \/ Starting
    \/ Signal \/ Exit \/ Kill
    \/ \E s \in Service : CloseConn(s)
    \/ \E s \in Server : Serving(s)
    \/ \E i \in Request : Requesting(i)
    \/ \E c \in Rpc : Answering(c)
    \/ \E c \in Call : CallDirectly(c) \/ DeliverDirectly(c)

Spec == Init /\ [][Next]_vars

\* The goroutines of the process run, a handler returns, and a timer goes off.  Nothing is
\* asked of the clients: one that never finishes sending its request keeps it "received".
Fairness ==
    /\ WF_vars(Starting)
    /\ \A s \in Service : WF_vars(CloseConn(s))
    /\ \A s \in Server : WF_vars(Shutdown(s)) /\ WF_vars(Stopped(s)) /\ WF_vars(ShutdownTimesOut(s))
    /\ WF_vars(Listen("grpc"))
    /\ \A c \in Rpc : WF_vars(Answering(c))
    /\ \A i \in Request : WF_vars(Deliver(i) \/ CutByClose(i) \/ Refuse(i))
    /\ \A c \in Call : WF_vars(DeliverDirectly(c))
    /\ WF_vars(Exit)

FairSpec == Spec /\ Fairness

-----------------------------------------------------------------------------
TypeOK ==
    /\ phase \in {"starting", "running", "exited"}
    /\ signalled \in BOOLEAN
    /\ killed \in BOOLEAN
    /\ conn \in [Service -> {"none", "open", "closed"}]
    /\ server \in [Server -> {"new", "serving", "closing", "stopped", "abandoned"}]
    /\ failed \subseteq Server
    /\ target \in [Rpc -> Target]
    /\ http \in [Request -> {"none", "received", "calling", "answered", "dropped"}]
    /\ status \in [Request -> Nat]
    /\ rpc \in [Rpc -> {"none", "sent", "handling", "replied", "received", "refused", "dropped"}]
    /\ reply \in [Rpc -> [code : DOMAIN HTTPStatusFromCode, header : Nat, stored : BOOLEAN]]

\* Before the servers run, nothing is asked of them.
StartsQuiet == phase = "starting" => \A c \in Rpc : rpc[c] = "none"

\* A request and its RPC go together.
RequestsFit ==
    \A i \in Request :
        /\ http[i] \in {"none", "received"} => rpc[i] = "none"
        /\ http[i] = "calling" => rpc[i] \in {"sent", "handling", "replied", "refused"}

RepliesFit ==
    /\ \A c \in Call : target[c] \in AgentMethod
    /\ \A c \in Rpc :
           /\ rpc[c] # "none" => target[c] \in Method
           /\ IF rpc[c] \in {"replied", "received"} THEN reply[c] \in Replies(target[c])
                                                    ELSE reply[c] = NoReply

\* Where the code of an answer comes from.
AnswersFit ==
    \A i \in Request :
        http[i] = "answered" /\ status[i] \notin Undetermined =>
            \/ rpc[i] = "none" /\ status[i] = IF target[i] \in Page THEN 200 ELSE 400
            \/ /\ rpc[i] \in {"replied", "received"}
               /\ \E code \in {reply[i].code, "Canceled", "Unavailable"} :
                      status[i] = HTTPStatus(code, reply[i].header)

HandlersRunToTheirEnd ==
    /\ phase # "exited" => \A c \in Rpc : rpc[c] # "dropped"
    /\ "grpc" \notin failed =>
           /\ server["grpc"] # "abandoned"
           /\ server["grpc"] = "stopped" => \A c \in Rpc : rpc[c] # "handling"
           /\ phase = "exited" /\ ~killed => \A c \in Rpc : rpc[c] \notin {"handling", "dropped"}

\* The inductive invariant: what the steps of the process keep, and what follows the next two
\* properties.
IInv ==
    /\ TypeOK
    /\ StartsQuiet
    /\ RequestsFit
    /\ RepliesFit
    /\ AnswersFit
    /\ HandlersRunToTheirEnd

Succeeded(i) == status[i] \in 200..299

\* The status code of a write tells the truth about its effect, unless it is one of the three
\* that say nothing: a success means stored, and any other answer means not stored, also when
\* the answer comes from the gateway, during a shutdown, or with its headers only.
CodeTellsOutcome ==
    \A i \in Request :
        http[i] = "answered" /\ target[i] \in Writes /\ status[i] \notin Undetermined
            => (Succeeded(i) <=> rpc[i] # "none" /\ reply[i].stored)

\* A process that stops because of a signal, or of the failure of an HTTP server, cuts no
\* handler off: what the gRPC server has accepted runs to its end.
ExitIsGraceful ==
    phase = "exited" /\ ~killed /\ "grpc" \notin failed
        => \A c \in Rpc : rpc[c] \notin {"handling", "dropped"}

\* Once told to stop, or once a server has failed, the process exits: no handler, no client
\* that stalls and no order of the three shutdowns keeps it.
ProcessEnds == Stopping ~> phase = "exited"
=============================================================================
