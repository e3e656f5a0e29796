---------------------------- MODULE Calculation -----------------------------
(***************************************************************************)
(* The whole calculation: clients submit expressions, the workers of the    *)
(* agents fetch tasks from the store, execute them and submit the results   *)
(* over a network that may lose a reply, and delay a request past its       *)
(* retry.  The calculator keeps nothing in memory between two requests, so  *)
(* its own crash and restart is, to the store and the workers, a request or *)
(* a reply that is lost.                                                    *)
(***************************************************************************)
EXTENDS TaskStore, FiniteSets

CONSTANTS
    Worker,         \* all the workers of all the agents (COMPUTING_POWER of each)
    MaxRepeats,     \* bound: submissions repeated after a lost reply or a timeout, and tasks
                    \* handed out without a stored claim, which are submitted again too
    MaxUnclaimed,   \* bound: those handed out without a stored claim
    MaxLost         \* bound: claimed tasks that no worker will ever finish

ASSUME BoundsAssumption == MaxRepeats \in Nat /\ MaxUnclaimed \in Nat /\ MaxLost \in Nat

VARIABLES
    pc,             \* what a worker is doing: "fetch", "execute" or "submit"
    hand,           \* the id of the task it last fetched
    in1, in2,       \* the arguments that came with it
    answer,         \* the result it computed
    late,           \* timed-out submissions that the server may still handle
    repeats,        \* submissions repeated so far
    unclaimed,      \* tasks handed out without a claim so far
    lost            \* claims lost so far

workerVars == <<pc, hand, in1, in2, answer>>
counters == <<repeats, unclaimed, lost>>
vars == <<storeVars, workerVars, late, counters>>

Init ==
    /\ StoreInit
    /\ pc = [w \in Worker |-> "fetch"]
    /\ hand = [w \in Worker |-> NoTask]
    /\ in1 = [w \in Worker |-> Zero]
    /\ in2 = [w \in Worker |-> Zero]
    /\ answer = [w \in Worker |-> Zero]
    /\ late = {}
    /\ repeats = 0
    /\ unclaimed = 0
    /\ lost = 0

-----------------------------------------------------------------------------
\* CalculatorService.Calculate, for an expression that Parse accepted.
Calculate(e) ==
    /\ \E now \in Time : CreateExpression(e, now)
    /\ UNCHANGED <<workerVars, late, counters>>

\* mapTaskToAgentTaskResponse sends Arg.V, which is 0 when the column is NULL.
ArgumentOf(column) == IF column = NULL THEN Zero ELSE column

GetTask(w) ==
    /\ pc[w] = "fetch"
    /\ \E t \in Task :
           /\ GetPendingTask(t)
           /\ hand' = [hand EXCEPT ![w] = t]
           /\ in1' = [in1 EXCEPT ![w] = ArgumentOf(arg1[t])]
           /\ in2' = [in2 EXCEPT ![w] = ArgumentOf(arg2[t])]
    /\ pc' = [pc EXCEPT ![w] = "execute"]
    /\ UNCHANGED <<answer, late, counters>>

\* ErrNoPendingTasks becomes NotFound, then ErrNoTasks, and fetchTask polls again.
GetNoTask(w) ==
    /\ pc[w] = "fetch"
    /\ OldestPending = {}
    /\ UNCHANGED vars

\* The claim is committed but its reply does not reach the worker, which asks again.
GetTaskReplyLost(w) ==
    /\ pc[w] = "fetch"
    /\ lost < MaxLost
    /\ \E t \in Task : GetPendingTask(t)
    /\ lost' = lost + 1
    /\ UNCHANGED <<workerVars, late, repeats, unclaimed>>

\* The worker is given a task, and its claim is not stored: see StoreTransactions!CloseFails.
GetTaskUnclaimed(w) ==
    /\ pc[w] = "fetch"
    /\ unclaimed < MaxUnclaimed
    /\ repeats + unclaimed < MaxRepeats
    /\ \E t \in OldestPending :
           /\ hand' = [hand EXCEPT ![w] = t]
           /\ in1' = [in1 EXCEPT ![w] = ArgumentOf(arg1[t])]
           /\ in2' = [in2 EXCEPT ![w] = ArgumentOf(arg2[t])]
    /\ pc' = [pc EXCEPT ![w] = "execute"]
    /\ unclaimed' = unclaimed + 1
    /\ UNCHANGED <<storeVars, answer, late, repeats, lost>>

\* executeTask: the operation time passes, and the worker has its answer.
ExecuteTask(w) ==
    /\ pc[w] = "execute"
    /\ answer' = [answer EXCEPT ![w] = Compute(Operation[hand[w]], in1[w], in2[w])]
    /\ pc' = [pc EXCEPT ![w] = "submit"]
    /\ UNCHANGED <<storeVars, hand, in1, in2, late, counters>>

\* Two bugs in the handler: a NaN is stored like any number, or as 0.
HandleSubmitNoCheck(t, v) == FinishTask(t, "Completed", v)
HandleSubmitNaNIsZero(t, v) == FinishTask(t, "Completed", IF v = NaN THEN Zero ELSE v)

\* AgentService.SubmitTaskResult: NaN is the agent's way of reporting a failure.
HandleSubmit(t, v) ==
    \/ v = NaN /\ FinishTask(t, "Failed", Zero)
    \/ v # NaN /\ FinishTask(t, "Completed", v)

SubmitTaskResult(w) ==
    /\ pc[w] = "submit"
    /\ HandleSubmit(hand[w], answer[w])
    /\ pc' = [pc EXCEPT ![w] = "fetch"]
    /\ UNCHANGED <<hand, in1, in2, answer, late, counters>>

\* The result is committed, but the worker sees an error and will send it again.
SubmitReplyLost(w) ==
    /\ pc[w] = "submit"
    /\ repeats + unclaimed < MaxRepeats
    /\ HandleSubmit(hand[w], answer[w])
    /\ repeats' = repeats + 1
    /\ UNCHANGED <<workerVars, late, unclaimed, lost>>

\* The attempt times out with its request still in the network or in a server goroutine; the
\* worker will send it again.
SubmitTimedOut(w) ==
    /\ pc[w] = "submit"
    /\ repeats + unclaimed < MaxRepeats
    /\ late' = late \cup {[attempt |-> repeats, task |-> hand[w], answer |-> answer[w]]}
    /\ repeats' = repeats + 1
    /\ UNCHANGED <<storeVars, workerVars, unclaimed, lost>>

\* Nothing says that this ever happens, nor that it happens before the retry.
LateSubmit(m) ==
    /\ HandleSubmit(m.task, m.answer)
    /\ late' = late \ {m}
    /\ UNCHANGED <<workerVars, counters>>

\* The agent is killed or its context is cancelled: executeTask and submitTaskResult return and
\* the task is dropped.  A restarted agent begins with fetchTask.
StopWorker(w) ==
    /\ pc[w] # "fetch"
    /\ lost < MaxLost
    /\ pc' = [pc EXCEPT ![w] = "fetch"]
    /\ lost' = lost + 1
    /\ UNCHANGED <<storeVars, hand, in1, in2, answer, late, repeats, unclaimed>>

-----------------------------------------------------------------------------
WorkerStep(w) ==
    \/ GetTask(w)
    \/ ExecuteTask(w)
    \/ SubmitTaskResult(w)

Fault(w) ==
    \/ GetTaskReplyLost(w)
    \/ GetTaskUnclaimed(w)
    \/ SubmitReplyLost(w)
    \/ SubmitTimedOut(w)
    \/ StopWorker(w)

Next ==
    \/ \E e \in Expr : Calculate(e)
    \/ \E w \in Worker : WorkerStep(w) \/ GetNoTask(w) \/ Fault(w)
    \/ \E m \in late : LateSubmit(m)

Spec == Init /\ [][Next]_vars

(***************************************************************************)
(* The worker goroutines run until their context is done and every retry    *)
(* loop goes on until it succeeds, so each worker keeps making progress.    *)
(* Nothing is assumed of clients, faults and late requests.                 *)
(***************************************************************************)
FairSpec == Spec /\ \A w \in Worker : WF_vars(WorkerStep(w))

-----------------------------------------------------------------------------
Busy(w) == pc[w] # "fetch"

TypeOK ==
    /\ StoreTypeOK
    /\ pc \in [Worker -> {"fetch", "execute", "submit"}]
    /\ hand \in [Worker -> Task \cup {NoTask}]
    /\ in1 \in [Worker -> Float]
    /\ in2 \in [Worker -> Float]
    /\ answer \in [Worker -> Float \cup {NaN}]
    /\ late \subseteq [attempt : Nat, task : Task, answer : Float \cup {NaN}]
    /\ repeats \in 0 .. MaxRepeats
    /\ unclaimed \in 0 .. MaxUnclaimed
    /\ lost \in 0 .. MaxLost

(***************************************************************************)
(* The inductive invariant: that of the store, and that every result on its *)
(* way to FinishTask is the value of a task whose operands are there.       *)
(***************************************************************************)
WorkersAreRight ==
    \A w \in Worker : Busy(w) =>
        /\ hand[w] \in Task
        /\ status[hand[w]] # "Absent"
        /\ HasOperands(hand[w])
        /\ in1[w] = Operand1(hand[w]) /\ in2[w] = Operand2(hand[w])
        /\ pc[w] = "submit" => answer[w] = Value[hand[w]]

LateRequestsAreRight ==
    \A m \in late :
        status[m.task] # "Absent" /\ HasOperands(m.task) /\ m.answer = Value[m.task]

IInv ==
    /\ TypeOK
    /\ StoreInv
    /\ WorkersAreRight
    /\ LateRequestsAreRight

\* The tables and the agents together keep the promise of module ExpressionService: every
\* verdict that becomes visible is the right one and is never taken back or changed, even
\* when results are repeated, late or overtaken by a failure (FinishTask, failExpression and
\* completeExpression check no status).
Service == INSTANCE ExpressionService WITH
               verdict <- exprStatus,
               value <- exprResult,
               Answer <- [e \in Expr |-> AnswerOf(e)]
KeepsThePromise == Service!Spec

\* The tasks that are claimed and that nobody is going to finish.
Stranded ==
    {t \in Task : status[t] = "InProgress" /\ \A w \in Worker : ~(Busy(w) /\ hand[w] = t)}

\* Nothing is forgotten but what was lost: each lost claim strands one task at most, and a task
\* that waits has an operand that is still to come.  (A child whose operands arrive in two
\* transactions, or again, must be woken exactly by the last one.)
NoTaskIsStranded ==
    /\ Cardinality(Stranded) <= lost
    /\ \A t \in Task : status[t] = "Created" =>
           \E p \in {Parent1[t], Parent2[t]} \ {NoTask} :
               status[p] \in {"Created", "Pending", "InProgress"}

\* An expression that is pending is under way: one of its tasks can be claimed or is claimed,
\* and by somebody, as long as no claim is lost.  So tasks never wait for each other in a
\* circle, nor for a failure, and no expression is left behind by its final task.
PendingExpressionIsUnderWay ==
    \A e \in Expr : exprStatus[e] = "Pending" =>
        \E t \in TasksOf(e) :
            /\ status[t] \in {"Pending", "InProgress"}
            /\ t \in Stranded => lost > 0

\* As long as no claim is lost, every accepted expression is settled: the promise with its
\* fairness, from the fairness of the workers.
SettlesEventually == Service!FairSpec

\* Documented, and not so once a submission is repeated: GetPendingTask "claims" a task, so two
\* workers never hold one task.
ClaimIsExclusive ==
    \A v, w \in Worker : Busy(v) /\ Busy(w) /\ hand[v] = hand[w] => v = w

(***************************************************************************)
(* Until a submission is repeated, or a task given away without a claim.    *)
(***************************************************************************)
NothingRepeated == repeats = 0 /\ unclaimed = 0

\* Until then a claim is exclusive, in whatever order completions and failures revive tasks
\* (GetPendingTask, enqueueChildTask), and whatever claims are lost.
FirstClaimIsExclusive == NothingRepeated => ClaimIsExclusive

\* Until then a completed expression uses no computing power any more.
CompletedExpressionIsQuiet ==
    NothingRepeated =>
        \A e \in Expr : exprStatus[e] = "Completed" =>
            \A t \in TasksOf(e) :
                status[t] = "Completed" /\ \A w \in Worker : ~(Busy(w) /\ hand[w] = t)

\* Who is busy has the only claim of its task, a task has delivered exactly when it is
\* completed, and what is in a worker's hands has not delivered and is not to be claimed.
ClaimedTasksAreAway ==
    \A w \in Worker : Busy(w) => status[hand[w]] \in {"InProgress", "Failed"}

CompletedOnDelivery == \A t \in Task : result[t] # NULL <=> status[t] = "Completed"

ClaimsAreRight == late = {} /\ ClaimIsExclusive /\ ClaimedTasksAreAway /\ CompletedOnDelivery

ClaimInv == NothingRepeated => ClaimsAreRight

\* Until then no task is executed twice: once completed it stays completed, and once
\* it had its operands and was claimed, failed or completed, it is never to be claimed again.
NoTaskRunsTwice ==
    [][NothingRepeated =>
           \A t \in Task :
               /\ status[t] = "Completed" => status'[t] = "Completed"
               /\ HasOperands(t) /\ status[t] # "Pending" => status'[t] # "Pending"]_vars

\* What is stored of a task stays as it is: an operand or a result that is there is never changed
\* nor taken away, although FinishTask overwrites it and failExpression clears it, whatever is
\* repeated, late or overtaken.  So what ListExpressionTasks has shown remains true.
StoredValuesStay ==
    [][\A t \in Task :
           /\ result[t] # NULL => result'[t] = result[t]
           /\ arg1[t] # NULL => arg1'[t] = arg1[t]
           /\ arg2[t] # NULL => arg2'[t] = arg2[t]]_vars

\* Documented, and not so: "propagate failure to entire expression" (FinishTask), after which
\* no task of it should be left to run.
FailureReachesEveryTask ==
    \A e \in Expr : exprStatus[e] = "Failed" =>
        \A t \in TasksOf(e) : status[t] \in {"Completed", "Failed"}

\* Documented, and not so once a claim is lost: the system survives a restart, so what was
\* submitted is settled.
PendingIsSettled ==
    \A e \in Expr :
        exprStatus[e] = "Pending" ~> exprStatus[e] \in {"Completed", "Failed"}
=============================================================================
