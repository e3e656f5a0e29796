# A verification of edu-final-calculate-api

The program is a distributed calculator. A client submits an arithmetic expression; the
*calculator* process compiles it into a plan of tasks, stores the plan in SQLite, and hands
out tasks that can run; the workers of any number of *agent* processes poll for tasks, compute
them and send back results; the result of the last task is the answer of the expression.

This directory holds TLA+ models of that program, configurations for TLC, and theorems checked
by TLAPS. `PROJECT.json` lists which lines of the source each definition models, what each run
checks, and for every property a mutation of the model that breaks it.

## 1. The system

### Components

| component | source | state | operations |
|---|---|---|---|
| expression compiler | `internal/calculator/calc`, `stackx`, `types` | none between calls; slices and stacks during one | `Parse` (tokenize, toRPN, validateRPN), `Schedule` |
| calculation store | `internal/calculator/repository/expressions.go`, `migrations` | tables `expressions`, `tasks` | `CreateExpression`, `GetPendingTask`, `FinishTask` (with `failExpression`, `enqueueChildTask`, `completeExpression`), three queries |
| calculator service | `internal/calculator/service/calculator.go` | none | `Calculate`, queries |
| agent service | `internal/calculator/service/agent.go`, `map.go` | none | `GetTask`, `SubmitTaskResult` |
| agent | `internal/agent/agent.go` | per worker: where its loop is, the task in hand, the result | `fetchTask`, `executeTask`, `submitTaskResult` |
| agent client | `internal/agent/client/client.go` | none of the program's own | time limit and retries around the two calls |
| users, authentication | `repository/users.go`, `service/user.go`, `auth/auth.go` | table `users`; a JWT is not stored | `Register`, `Login`, interceptor |
| API | `pkg/calculator/v1` (generated), `server/http.go` | one client connection per service | routes, decoding, the call of a method, the HTTP status of its reply |
| servers, lifecycle | `server/grpc.go`, `server/http.go`, `mgmtserver`, `cmd` | listening, draining, stopped | `Start` until the context is done |
| configuration, logging, connection | `config`, `logging`, `database` | read once | |

### How they interact

* `Calculate` calls `Parse` and `Schedule`, then `CreateExpression`: one transaction inserts the
  expression and all its tasks. Tasks without operands to wait for are `pending`, the others
  `created`.
* A worker's `fetchTask` calls `GetTask`, which runs one `UPDATE ... RETURNING` that claims an
  oldest pending task; NULL arguments are sent as 0. No task means NotFound and another poll.
* `submitTaskResult` calls `SubmitTaskResult`, which runs `FinishTask`: a NaN fails the
  expression, any other result is stored, copied into the argument column of the child, and
  makes the child pending if it has both arguments; the final task completes the expression.
* An HTTP request goes through the gateway, which is a gRPC client of its own process: it decodes
  the request, calls the method over the connection of that service, and turns the code of the
  reply, or the `x-http-code` header where a handler has set one, into an HTTP status.
* `Register` and `Login` are open to everybody; the methods of `CalculatorService` are behind an
  interceptor that wants a JWT. The user id of the token is the `user_id` of the expressions.
* A signal ends the context of `main`. The gateway's connections are closed at once, the gRPC
  server waits for its handlers, the HTTP servers for their requests, five seconds at most.
* Everything between an agent and the calculator goes over gRPC with time limits and two layers
  of retries. The calculator keeps nothing in memory between two requests.

### What is hard

* *Delivery.* A result may arrive several times, and late: the reply to a submission is lost and
  the agent sends it again, or an attempt times out while the server still handles it.
  `FinishTask` has no condition on the state it finds.
* *Interleaving.* The operands of a task are delivered by transactions of different workers in
  either order; a failure may overtake results that are on their way.
* *Crashes.* A claim is stored, has no owner and no end: an agent that is stopped, or a reply
  that is lost, strands its task.
* *Numbers.* Failure is signalled by NaN, which arises from more than a division by zero.
* *Trust between phases.* `Schedule` and the repository rely without checking on the plan being
  a tree; `validateRPN`, which is to ensure it, counts other things than `Schedule` does.
* *Inside a transaction.* Errors are shadowed in `FinishTask` and `CreateExpression`, and
  `row.Next()` does not tell an error from an empty result.
* *The end of the process.* Three shutdowns run in any order, one of them without a time limit,
  beside connections that are closed under the requests that use them.
* *Several clients.* Two may register one login at the same time; `ListExpressionTasks` checks
  and reads in two statements without a transaction; an answer may be lost and a restart come
  in between.

### What makes each part correct

* compiler: what is well-formed is accepted and means what the grammar says; whatever is
  accepted yields a tree of tasks.
* store with agents and network: the verdict that a client sees is the right one, given once
  and never taken back; no task runs without its operands; every accepted expression is settled;
  a claim is exclusive.
* transactions: what fails half-way leaves nothing behind, no lock included.
* users: one account per login; who was told to be registered can log in; what was answered
  stays true; nobody sees what is not theirs; a token is good for its lifetime.
* lifecycle: the process ends, no handler is cut off, and the HTTP status of a write says whether
  it was stored.

`PROJECT.json` lists the hazards one by one, at the line where each bites.

## 2. The modules

| module | what it models |
|---|---|
| `Calc` | `Parse` and `Schedule` on one string; every iteration of a loop is a step |
| `CalcReference` | the grammar of infix expressions, and what it says of `Calc` (recursive, for TLC only) |
| `ShuntingYard` | what `Calc` computes, in closed form: the result of `toRPN`, acceptance, and the plan of an expression |
| `Trees` | the shape of a plan: what the repository relies on, and what `Calc` is to produce |
| `Plan` | plans as constants, assumed to be `Trees`, arithmetic, and the value of a plan |
| `TaskStore` | the two tables and the repository operations that change them; the store's invariant |
| `Calculation` | extends `TaskStore` with workers, handlers and the faulty network: the composed system |
| `ExpressionService` | the abstract specification: what the service promises about each expression |
| `StoreTransactions` | the statements of the three write operations in concurrent handlers, on SQLite's one write lock; implements `TaskStore` |
| `Gateway` | routes, methods, the replies of every handler, and the HTTP status each becomes |
| `CalculatorProcess` | extends `Gateway` with the life of the calculator process and the requests in it |
| `Accounts` | clients that register, log in, send expressions and look at them, over `ExpressionService` |
| `MCCalc`, `MCCalculation`, `MCStoreTransactions`, `MCCalculatorProcess`, `MCAccounts` | instances for TLC |
| `CalcTheorems`, `ShuntingYardTheorems` | proofs about `Calc`: that plans are trees; that they are the expressions |
| `TaskStoreTheorems`, `CalculationTheorems` | proofs about the plans and the store's operations, the whole calculation |
| `StoreTransactionsTheorems`, `CalculatorProcessTheorems`, `AccountsTheorems` | proofs about the transactions, the process, the users |
| `Extrema` | least and greatest elements of sets of naturals, for the inductions below |

They build on each other. `StoreTransactions` shows that the statements of the repository amount to
the atomic operations of `TaskStore`; `Calculation` puts agents, handlers and the network around these
operations and shows that together they keep the promise of `ExpressionService`; `Accounts` takes
that promise for what becomes of an expression and adds the users. `Gateway` takes from
`StoreTransactions` that an error of the store means that nothing was stored (of `Register`, which
is a single INSERT, it assumes this), and `CalculatorProcess` shows what is left of it when the
process stops.

### State and code

*Calc.* `phase` is the loop that runs and `pos` its index; `buf`, `tokens`, `ops`, `rpn`, `items`
and `plan` are the variables of the same purpose in `tokenize`, `toRPN` and `Schedule`. The stack of
`validateRPN` is only ever counted, so it is `depth`; `Below` is what `SafePop` leaves of it, which
is an empty stack of an empty one. A loop that pops "while the top is such" is one step: `Kept` is
what it leaves. A number is kept as the text it was written with. `Operator` is `isOp`; `Validate`
takes whatever is not one for an operand and `Schedule` takes whatever is not a number for an
operation, as the code does.

*ShuntingYard.* The closed form knows no stack, only places in `tokens`. `End(q)` is where the right
operand of an operator ends: at the first token behind it, within the same parentheses, that binds
no tighter, or at the parenthesis around it, or at the end. `When` is the place at which a token is
emitted, and `Rank` its place in the result. `Precedence` is the code's, with 0 for what is no
operator, so the closed form covers malformed input, too: a stray symbol ends everything.

*Plan.* `Task`, `ExprOf`, `Parent1`, `Parent2`, `Literal1`, `Literal2` and `Operation` are the
columns that never change after the insertion (`parent_task_1_id` and so on), as constant
functions over all the tasks there will be. `PlanAssumption` is `PlansAreTrees` of module `Trees`: plans
are finite trees, whose branches `Remaining` orders. `PlanIsATree` of `Calc` is the same formula of the
plan that `Schedule` has produced (`Compiled`, an instance of `Trees`), so what one half of the
program assumes is, to the letter, what is proved of the other. `Value` is the meaning of the
subtree under a task.

*TaskStore.* One variable for each column that an UPDATE sets. `status = "Absent"` is a row not
yet inserted. Each repository operation is one step because each is one SQLite write
transaction or one statement. `EnqueueChildTask` and `CompleteExpression` include the update
of the finished task, which `FinishTask` does first in the same transaction. An argument that
is updated and then read again in the transaction is the primed column (`BecomesReady`).

*Calculation.* `pc[w]` is where the loop of worker `w` is; `hand`, `in1`, `in2`, `answer` are its
local variables. `GetTask`, `ExecuteTask` and `SubmitTaskResult` are the three calls of the
loop. `GetTaskUnclaimed` is a claim whose commit fails after the task was returned (below).
`GetTaskReplyLost`, `SubmitReplyLost`, `SubmitTimedOut`, `LateSubmit` and `StopWorker` are
the faults. A crash of the calculator is, since it keeps nothing in memory, a request or reply
that is lost. `late` holds submissions whose sender has given up and whose handling is still to
come: each may be handled at any later moment, or never.

*ExpressionService.* An expression is accepted, then settled once: completed with its value, or
failed if it has none. `Calculation` implements it with `verdict <- exprStatus`,
`value <- exprResult`.

*StoreTransactions.* The variables of `TaskStore` are what is committed; `work` is what the holder of
the write lock (`writer`) sees. `pc[r]` is the statement a handler runs next, `job[r]` its arguments,
`row[r]` the `childTask` that `enqueueChildTask` has read and writes back whole. BEGIN takes no
lock; the first statement of each operation writes, and takes it. A statement may fail at any
place: at `SeenStages` the deferred function rolls back; at `ShadowedStages` the error is held by an
inner `err` and the handler returns with its transaction open, until gRPC cancels the context
of the call and `database/sql` rolls back (`ContextDone`). `NextFails` is `row.Next()` that
answers false to an error. `Close` is the end of the autocommitted claim, after the row was
read; `CloseFails` is its failure, which nobody looks at. `Crash` leaves what is committed.

*Gateway.* A reply is a gRPC code, the header and, as a fact about the store, whether the effect
is there. `Replies(m)` is the handler of a method behind the interceptor; `HTTPStatus` is
`grpcGatewayResponseModifier` and `grpcGatewayErrorHandler`, which both let the header win.

*CalculatorProcess.* `conn` are the gateway's connections, which a goroutine of the generated
registration closes with the context of `main` (`CloseConn`), not with that of the servers.
`server[s]` is where the `Start` of a server is; a server that fails ends the others and leaves
its own requests to themselves (`abandoned`). A request is `http[i]`, the RPC it makes, or an
agent makes, is `rpc[c]`. `Stopped("grpc")` is the end of GracefulStop, `ShutdownTimesOut` the five
seconds of Shutdown. `Kill` is the end without any of this.

*Accounts.* `users` is the table, `token[c]` what a client has got, `call[c]` its call with the stage
of the handler: `sent`, then `admitted` by the interceptor, then, for `ListExpressionTasks` only,
`counted` between its two statements. `known` is what clients have been told, all together, and
`promised[c]` is `known` at the time the call of `c` was sent: a promise is made by an answer that
has arrived, to calls that are sent afterwards. `Settle` is the step of `ExpressionService`.
`NumericDate` is the truncation to seconds of the dates in a token; the clock counts fractions.

## 3. The runs

| run | expected | distinct states | question |
|---|---|---|---|
| `calculation_faults` | pass | 235,363 | Does a repeated, late or lost message, or a claim that is not committed, ever make a verdict wrong, change what is stored, or leave more behind than was lost? (`KeepsThePromise`, `RunnableTasksAreReady`, `CompletedMeansEverythingRan`, `StoredValuesStay`, `NoTaskIsStranded`, `IInv`, `QueueInv`, `TypeOK`) Until something is repeated, is each task claimed by one worker and run once? (`FirstClaimIsExclusive`, `CompletedExpressionIsQuiet`, `NoTaskRunsTwice`, `ClaimInv`) |
| `calculation_no_loss` | pass | 79,094 | If no claim is lost, is every accepted expression under way, and settled in the end? (`SettlesEventually`, `PendingExpressionIsUnderWay`) |
| `calculation_revived` | violation | | Does a failure reach every task? |
| `calculation_lost_claim` | violation | | Is what was submitted settled, even if an agent restarts? |
| `calculation_repeated` | violation | | Is a claim exclusive, even if a submission is repeated? |
| `calc_any` | pass | 98,102 | Is the result of `toRPN` the postfix order of the tokens, is whatever `Parse` accepts compiled into a tree, nothing well-formed with an operator rejected, and is the plan the expression, by the closed form and by the grammar? (`RPNIsPostfix`, `WellFormedIsAccepted`, `PlanIsTheExpression`, `CompilesWhatIsMeant`, `PlanIsATree`, `IInv`, `TypeOK`) |
| `calc_malformed` | violation | | Is what is malformed rejected? |
| `store_atomic` | pass | 87,512 | Is every change of the tables one whole operation, every answer true, and the lock always given back? (`OperationsAreAtomic`, `AnswersAreTrue`, `NothingIsLeftOpen`, `LocksAreReleased`, `CallsEnd`, `IInv`, `TypeOK`) |
| `store_not_found` | violation | | Does "not found" mean that the task does not exist? |
| `process_life` | pass | 302,107 | Through any shutdown, does the status of a write tell its outcome, do handlers run to their end, and does the process end? (`CodeTellsOutcome`, `ExitIsGraceful`, `ProcessEnds`, `IInv`) |
| `accounts_sessions` | pass | 1,226,033 | Of two clients that register one login with two passwords, is one at most told that it is theirs, and can that one log in? Is what one client was told true for all, ever after, and for nobody else? (`LoginsAreGivenOnce`, `RegisteredCanLogIn`, `GivenIsFound`, `SettledIsFinal`, `OwnExpressionsOnly`, `IInv`) |
| `accounts_tokens` | pass | 395,808 | Is a token admitted until the last second of its lifetime, and never after it? (`TokenLifetime`) |

The passing runs say: the *answers* are safe. However often and late a result is delivered, it
is the value that is stored already; the verdict of an expression is settled by its final task
or by a failure, and these two can never disagree because a NaN anywhere makes the value of the
expression NaN. What repetition, failure and loss do harm is the *scheduling*, and no more than they
must: a lost claim strands the task that was claimed and none besides, and until something is
repeated every task is claimed by one worker and runs once.

The shadowed errors leave a transaction open, but never let it be committed and never lock
others out for good: what ends it is the context that gRPC cancels. The three shutdowns end in
every order. What the signal does cut off is the HTTP request, not its handler: the gateway's
connections are closed at once, so a request that is running is answered 499 or 503 although
its server has five more seconds for it, and although its handler then runs to its end. These codes
(and 504) say nothing about the outcome; every other code does.

A token is good for less than `AUTH_JWT_EXPIRATION_TIME`, by up to a second (`TokenLifetime`), so
one with a lifetime below a second may never be valid.

### What the violation runs show

* **A failed expression runs on** (`calculation_revived`). Task *a* is being computed when task
  *d* of the same expression fails. `failExpression` marks *a*, its child and the expression as failed. The
  result of *a* is then accepted, and `enqueueChildTask` makes the child pending: work is done
  for an expression that has failed, against "propagate failure to entire expression".
* **A lost claim is never recovered** (`calculation_lost_claim`). One agent stopped, or one
  reply to `GetTask` lost, and the expression stays pending, against TASK.md's "must survive a restart".
  `expire_at` is declared for this and unused.
* **A repeated submission hands out a claimed task again** (`calculation_repeated`). The second
  `FinishTask` for an operand makes its child pending although another worker has it.
* **Malformed input is accepted** (`calc_malformed`): a lone `(` counts as operand in
  `validateRPN` and as operation in `Schedule`; it becomes a task with an unknown operation and fails in the agent.
* **A busy database is a missing task** (`store_not_found`). `row.Next()` is false when the UPDATE
  has failed, too, and `FinishTask` answers `ErrTaskNotFound` for a task that is there, against
  the comment of `FinishTask`.

One more observation is part of a passing run. `GetPendingTask` returns a task whose claim has not
been committed when `row.Close()` fails: the task is handed out again, like a repetition, and
the verdict is safe (`KeepsThePromise` with `GetTaskUnclaimed`).

The code and its tests disagree on what `Parse` should accept at two points, where the tests are
skipped under "FIXME: unexpected behaviour", and no passing property takes a side:

* A single number is accepted, since `validateRPN` asks for one value in the end and a number
  is one; `calc_test.go:128` ("invalid expression: single number") expects `ErrInvalidExpr` of `1`. The
  plan has no task, and `CreateExpression` makes an INSERT without rows of it: a failing statement
  at `insert_tasks`, after the expression row, with a shadowed error; nothing of it is committed
  (`AnswersAreTrue`). `WellFormedIsAccepted` and `CompilesWhatIsMeant` ask for an operator.
* A sign is refused, since every operator is one of two operands; `calc_test.go:141` ("unary
  operators") expects no error of `-1 + 2`. The grammar of these properties has no signs, and the
  conclusions are about expressions without them.

### Bounds

* `MCCalculation`: two workers and two expressions. The one that fails has four tasks: a chain
  (*a*, *c*) beside a task that divides by zero (*d*), joined in *f*: the least in which a
  failure overtakes a running task, whose child is not the final one. The one that succeeds has
  three tasks; its value tells its operands apart, so that an exchange shows. Interference
  between expressions goes through the queue's order only, which two expressions and two timestamps
  exercise in both orders and with a tie.
* Numbers are -2..2 and two infinities, which meet in NaN as IEEE 754 says.
* `MaxRepeats` and `MaxLost` bound how many submissions are repeated and claims lost in a
  behaviour; a claim that is not committed counts as a repetition, since its task is submitted
  twice, and `MaxUnclaimed` bounds these alone. Each run sets them for its question: one repetition
  reaches every order of a repetition with every step of everybody. The proofs have no bound.
* `calc_any`: every string of up to four characters over a digit, the point, a blank, two
  operators of different precedence, both parentheses and one other character, and every
  well-formed string of up to nine characters: five numbers, all four operators, two levels of
  parentheses. The numbers differ, so exchanged operands show. The closed form is compared with the
  compiler on all of them, the malformed ones included; the proofs have no bound on the string.
* `MCStoreTransactions`: two handlers, one expression of two tasks. One holds the lock while the
  other waits, fails, or runs into the transaction the first has left open; a task has a child or is
  final, a result is a number or a failure. Columns are NULL or 0, since the operations look at no
  more. Plans in which a child has two operands are covered by the proofs, and by `Calculation`.
* `MCCalculatorProcess`: one HTTP request, for any write or for a page, and one call of an agent,
  in a process with the gRPC and the HTTP server; requests do not touch each other except through
  the servers. The management server, which shares its code with the HTTP server, is in the proofs.
* `MCAccounts`: two clients and two logins, one of them the admin's. `accounts_sessions` has every
  operation, two passwords, ids for two more users, so that both clients may get as far as the
  INSERT and a loser has a password of its own, and one expression that either may have; its clock
  stands still, and the two ids are symmetric. `accounts_tokens` has a lifetime of three units, of
  which two make a second, and a clock of five: a token is issued at either half of a second, lives
  longer than one, and is used until after it has expired.
* Workers and clients are symmetric where only safety is checked.

### Fairness

`FairSpec` assumes that each worker keeps taking its steps (`WF(WorkerStep(w))`): `worker` loops
until its context is done, and the retry loops in `fetchTask` and `submitTaskResult` go on until
they succeed. Nothing is assumed of clients, of faults, or of late requests. Weak fairness is
enough: no other process disables a worker's step for good, except by taking the last pending
task. `GetPendingTask` needs no fairness of its own because a claimed task is in some worker's hands.

In `StoreTransactions` a running handler goes on: each of its statements ends, with an error when
go-sqlite3's busy timeout of five seconds is over, so that a handler that waits for the lock does not
wait for its holder. `CallsEnd` fails without that timeout and `LocksAreReleased` without the
cancelled context. In `CalculatorProcess` goroutines run, timers go off and handlers return,
which is `CallsEnd`; nothing is assumed of clients, one that stalls included.

## 4. The proofs

### The calculation

For any set of workers, expressions and tasks, any plans that are trees, any arithmetic that
answers with floats or NaN, and any number of faults:

| theorem | says |
|---|---|
| `Invariance` | `IInv`, the inductive invariant, always holds |
| `TypeCorrectness` | `TypeOK`; NaN in particular never reaches a column |
| `TasksRunWithTheirOperands` | `RunnableTasksAreReady` |
| `CompletionIsComplete` | `CompletedMeansEverythingRan` |
| `Refinement` | `KeepsThePromise`: `Calculation` implements `ExpressionService` |
| `NaNReachesTheAnswer` | one task without a value leaves the expression without one |
| `StoredForGood` | `StoredValuesStay`: operands and results, once stored, never change or go |
| `QueueInvariance` | `QueueInv`, the second inductive invariant: tasks wait only for what is to come |
| `NothingIsForgotten` | `NoTaskIsStranded`: a lost claim strands one task at most, and nothing else does |
| `UnderWay` | `PendingExpressionIsUnderWay`: a pending expression has a task in the queue or in work |
| `ClaimInvariance` | `ClaimInv`, the third: each claim and delivery happens once, until one is repeated |
| `ExclusiveClaims`, `QuietCompletion`, `EveryTaskRunsOnce` | `FirstClaimIsExclusive`, `CompletedExpressionIsQuiet`, `NoTaskRunsTwice` |

**The invariant.** That a verdict is right is not inductive: `FinishTask` trusts what arrives. `IInv`
says why it may. (1) Rows of an expression appear together, and the argument column of a task
always equals the result column of its parent, NULL included (`ArgumentsMirrorResults`). (2) A
result column is NULL or the value of its task, and then the task has its operands
(`ResultsAreRight`). (3) What can be claimed has operands. (4) What a worker holds, and every
late request, is the value of a task whose operands are there. From (1) and (2) an operand that is
there is the value of the parent, so (3) gives `RunnableTasksAreReady`, and a worker that
computes from its operands computes the value: (4). A repeated result then writes what is there.
The one step that removes a result is a failure, and it comes with NaN, which by (4) is the
value of the task: so the task had no result (`FailedTaskHasNoResult`), and (2) survives. Every step
un-stores nothing (`StepInv`, `StoreGrows`), and since (1) and (2) say before and after it what each
column holds, nothing that is stored ever changes (`StoredForGood`).

**Verdicts.** Completion comes with the final task's value, which is not NaN; failure comes with a task
whose value is NaN, and then the answer is NaN: `NaNReachesTheAnswer`, by induction from the
task down to the final one. The induction is over `Remaining`, and it is `LeastNatural` that
carries it (every non-empty set of naturals has a least element): `DownTheTree` says that a set
of tasks closed under one of the two directions of the tree is all of it. So completed and
failed never meet, and each abstract step happens once.

**Progress.** Nobody waits in vain. `QueueInv` says that a task is `created` only while it lacks an
operand (`EnqueueChildTask` wakes the child with the last one, whichever that is), that a
completed task has its result, that a failure ends all waiting in its expression, and that the
final task of a pending expression has not run. A missing operand then has a parent that
is neither completed nor failed (`WaitingForSomething`), hence itself waits or is in the queue or in
work; from the final task up, along parents that wait, one arrives at one that does not, because
plans are finite (`UpTheTree`, with `GreatestNatural` on `Remaining`): `PendingExpressionHasWork`. Who has
the claimed tasks is a matter of counting: a step takes at most one claimed task from its holder, and only
`GetTaskReplyLost` and `StopWorker` do, which count as a loss (`StrandedInv`,
`StrandedOnly`). This is the safety half of `SettlesEventually`.

**Claims.** That a claim is exclusive is false after a repetition (`calculation_repeated`), so the
theorems say until when it holds: `NothingRepeated`, which no step re-establishes
(`RepetitionsAreCounted`). It is not inductive alone, since it is `enqueueChildTask` that could put
a claimed task back into the queue. `ClaimInv` adds that what a worker holds is in progress or failed
and that a task has a result exactly if it is completed. So a delivery is a first one; the
child did not have that operand before, is therefore in nobody's hands (who holds a task has
its operands, by `IInv`) and was never claimed (`FirstDelivery`).

**Assumptions.** `PlanAssumption`: plans are finite trees, which is proved of every plan that `Schedule`
returns with a task in it, below (`Compiled!PlansAreTrees`); a plan without one cannot be stored.
`ArithmeticAssumption`: operations on floats give floats or NaN, and NULL is neither.
`ValueAssumption`: `Value` solves its defining equation; it is stated as an equation because
recursion over data is beyond the prover, and TLC evaluates it on the instance. `TimeAssumption`
and `BoundsAssumption` are types.

**Only model-checked.** `SettlesEventually`, which is liveness. The run sets `MaxLost` to 0 for it; what
the theorems say about losses and repetitions they say for any bounds.

### The compiler

For any alphabet (`CharAssumption`: no character is the empty string) and any strings:

| theorem | says |
|---|---|
| `Invariance` | `IInv` of `Calc`, the inductive invariant |
| `TypeCorrectness` | `TypeOK`; the zero Token, which `SafePop` of an empty stack gives, appears nowhere |
| `PlansAreTrees` | `PlanIsATree`: the plan of every accepted string, malformed or not, is what `PlanAssumption` says |
| `ShuntingYardCorrect` | `RPNIsPostfix`: of any tokens, `toRPN` returns the postfix order |
| `Acceptance` | `WellFormedIsAccepted`: no well-formed expression with an operator is refused |
| `PlanCorrect` | `PlanIsTheExpression`: every operator of a well-formed expression becomes a task on its own operands |

`Schedule` pops without looking at the size of its stack, trusting `validateRPN`; but a stray
parenthesis or letter is an operand to the one and an operation to the other. That the plan is a tree
nevertheless needs two facts. `StackIsCounted`: at every token the stack of `Schedule` is at most as
high as what `validateRPN` counted there (`Counted`), since a symbol they disagree on lowers the
one and raises the other; so it ends with at most one item. `TakenOnce`: a task is on the stack, once, as long as
nothing has taken its result, and is taken by one task when it leaves. The last task has no
taker, so it is the item that is left, and every other task has exactly one.

That the plan is the *right* tree is proved of the closed form, in four invariants, each on the ones
before it (`AssemblyInvariance` has them all):

1. `Yard`: at every token the result of `toRPN` lists the tokens whose end has come (`Listed`), its stack
   holds those whose end has not (`Stacked`), and the stack is nested: within a pair of parentheses,
   what lies higher binds tighter (`Nested`). So the loop, which compares with the top only and
   stops at the first that stays (`Weaker`), pops exactly the operators that end here, innermost first.
   `>=` and the precedence 0 of a parenthesis enter here, and nowhere else. Nothing is assumed of
   the tokens. After the last loop everything has ended: `RPNIsPostfix`.
2. `Balance`: in an infix expression, what an evaluation of the result so far leaves (`CountIn`) is one
   value for each operator on the stack, and one more behind an operand. So every operator finds two
   operands and one value remains, which is what `validateRPN` asks: `WellFormedIsAccepted`.
3. `Spans`: the left operand of an operator ends where the result ended when `toRPN` came to the
   operator. Nothing in the program remembers that place. But from there until the operator is emitted,
   an evaluation leaves more than it did there (`Above`), so the left operand is still what lies below the
   right one when the operator comes (`Waiting`, then `Spanned`).
4. `Assembled`: item *j* on the stack of `Schedule` is the result of the last symbol that left *j* values
   (`Evaluated`), and the tasks so far are right (`Planned`). By `Spanned` that symbol is, for the
   item under the top, the end of the left operand: `PlanIsTheExpression`.

**Only model-checked.** `CompilesWhatIsMeant`, whose reference, the grammar, is recursive: it compares
the plan with the syntax tree of the string, where `PlanIsTheExpression` says which task takes which
result. The two are stated independently, and the run checks both on the same strings. It is the
only safety property of a passing run without a theorem.

### The transactions

For any number of handlers, any plans and any failures:

| theorem | says |
|---|---|
| `Invariance`, `TypeCorrectness` | `IInv` and `TypeOK` of `StoreTransactions` |
| `Atomicity` | `OperationsAreAtomic`: every step is a step of `TaskStore` or leaves the tables alone |
| `AnswersTellTheTruth` | `AnswersAreTrue` |
| `NoLockLeaks` | `NothingIsLeftOpen`: what outlives its statement belongs to a handler that has returned an error |

`IInv` says, for every stage, what the writer sees as a function of the committed tables (`WorkFits`):
they cannot have changed since it took the lock. At `commit` that function is the whole operation,
so `Publish` is a step of `TaskStore`, and no other step changes a committed row. `JobsFit` says that
who is past its first statement holds the lock, or has returned and never runs another
statement: so a transaction that was left open is not committed. `NothingIsLeftOpen` is the converse, and
inductive as it stands: only a handler in the middle of its operation, or one that has lost its error
(`Abandoned`), holds anything; with the end of its context, which is certain, this gives
`LocksAreReleased`. Besides the assumptions of the
calculation it uses that `NoRequest` is no handler.

### The process

For any number of requests, calls and targets, with or without the management server:

| theorem | says |
|---|---|
| `Invariance` | `IInv` of `CalculatorProcess`, with its type invariant |
| `StatusCodes` | `CodeTellsOutcome` |
| `GracefulExit` | `ExitIsGraceful` |

The invariant ties a request to its RPC (`RequestsFit`), says where each answer may come from
(`AnswersFit`: of the reply, of its headers only, or of no handler at all) and that a gRPC server
that did not fail stops only when no handler runs. That the status tells the outcome then is a
fact about every reply of every handler: only a reply that follows the effect carries a header or
a code of success.

### The users

For any clients, logins, passwords, ids and expressions, any lifetime and any clock:

| theorem | says |
|---|---|
| `Invariance` | `IInv` of `Accounts`, with its type invariant |
| `ExclusiveLogins`, `RegisteredUsersLogIn` | `LoginsAreGivenOnce`, `RegisteredCanLogIn` |
| `Privacy` | `OwnExpressionsOnly` |
| `ReadYourWrites`, `Finality` | `GivenIsFound`, `SettledIsFinal` |
| `Lifetimes` | `TokenLifetime` |

The argument is that what has been told is so and stays so (`Holds`): users are never removed, an
owner never changes, a settled expression is never settled again. `CallFits` says what a handler may
rely on between its two statements: the expression that was counted still belongs to the caller.
`LoginsAreGivenOnce` follows: whoever was told that a login is theirs, and whoever has just logged
in, is in the one row of that login, with the hash of their password, and so are the users there
have been from the start. `TokenLifetime` needs only arithmetic on `NumericDate`, and that the issue
date is a moment that has been. `UsersAssumption` says that the initial rows are users with distinct
logins and ids, `TimeAssumption` that a second has at least one unit.

**Only model-checked**, in these three: `LocksAreReleased`, `CallsEnd` and `ProcessEnds`, which are
liveness. ENABLED and fairness are beyond the prover.

## 5. What is not modelled

* The message types and their reflection (`*.pb.go`); of the gateway the in-process variants
  (`local_request_...`, `Register...HandlerServer`), which nothing in the program calls.
* The content of the documentation, health and profiling pages: a page is answered without an RPC.
* The range of float64 literals (`ParseFloat` rejects `1e400` written out), text of numbers.
* Tokens that this program has not issued: a signature is taken as proof. Two passwords with the
  same md5 hash.
* The agent process outside of its workers: `Start` waits for them, and a worker may stop at any
  point (`StopWorker`).
* Configuration, logging, metrics: read or written, never asked. Test doubles.
* The insides of libraries: SQLite, `database/sql`, gRPC, the gateway's runtime, `net/http` and runy
  appear as the code relies on them; PROJECT.json marks these definitions as external.

## 6. Plan

Done: `Calculation` on `TaskStore` with `ExpressionService`; `Calc` with its reference and its closed form;
`StoreTransactions`; `Gateway` and `CalculatorProcess`; `Accounts`; and the theorems of each.

Left:

1. An instance of `StoreTransactions` with a child of two operands, which is too large for TLC beside
   the liveness properties without symmetry.
