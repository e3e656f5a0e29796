------------------------------ MODULE Accounts ------------------------------
(***************************************************************************)
(* What the users of the calculator do and see: they register, log in, send *)
(* expressions and look at them.  Clients call concurrently, an answer may  *)
(* never arrive, and the calculator may restart between any two steps.      *)
(*                                                                          *)
(* A handler runs one statement at a time against the database.  What       *)
(* becomes of an accepted expression is the promise of ExpressionService,   *)
(* which module Calculation keeps.  A token is good for any process of the  *)
(* calculator: nothing about it is stored.                                  *)
(***************************************************************************)
EXTENDS Integers, FiniteSets

CONSTANTS
    Client,
    UserId,         \* what xid gives: never the same twice
    Login, Password,
    Hash,           \* hashPassword
    InitialUsers,   \* the users table: the admin, and those who have registered before
    Expr, NULL, NaN, Answer,
    Zero,           \* the result shown where there is none
    Op,             \* the operations that clients call
    Lifetime,       \* AUTH_JWT_EXPIRATION_TIME
    Second,         \* in units of the clock
    MaxTime,        \* bound of the clock
    NoToken, NoUser

UserRow == [id : UserId, login : Login, hash : {Hash[p] : p \in Password}]

ASSUME UsersAssumption ==
    /\ InitialUsers \subseteq UserRow
    /\ \A u, v \in InitialUsers : u.login = v.login \/ u.id = v.id => u = v
    /\ NoUser \notin UserId

ASSUME TimeAssumption == Lifetime \in Nat /\ Second \in Nat \ {0} /\ MaxTime \in Nat

VARIABLES
    users,      \* the users table
    verdict, value,     \* the expressions, as ExpressionService has them
    owner,      \* the column user_id of the expressions
    clock,
    token,      \* the token each client has got
    call,       \* the call of each client: what it asks, how far it is, the reply
    known,      \* history: what the clients have been told, all together
    promised    \* history: known, when the call of a client was sent

vars == <<users, verdict, value, owner, clock, token, call, known, promised>>

Service == INSTANCE ExpressionService

Request ==
    {r \in [op : {"Register", "Login"}, login : Login, password : Password]
           \cup [op : {"Calculate", "ListExpressions"}]
           \cup [op : {"GetExpression", "ListExpressionTasks"}, expr : Expr] : r.op \in Op}

UserOp == {"Register", "Login"}

\* mapExpressionStatus: what a client sees of the column status.
mapExpressionStatus ==
    [Pending |-> "PENDING", InProgress |-> "IN_PROGRESS", Completed |-> "COMPLETED",
     Failed |-> "FAILED"]

\* mapExpressionToExpressionResponse: a result that is NULL is shown as zero.
mapExpression(e) ==
    [id |-> e, status |-> mapExpressionStatus[verdict[e]],
     result |-> IF value[e] = NULL THEN Zero ELSE value[e]]

Result == {Answer[e] : e \in Expr} \cup {Zero}

\* An expression as an answer shows it, and what the answer says once it is settled.
View == [id : Expr, status : {"PENDING", "COMPLETED", "FAILED"}, result : Result]
SettledView == [id : Expr, status : {"COMPLETED", "FAILED"}, result : Result]

\* ids: the expressions the answer tells of; views: what it shows of them.
Reply(code) == [code |-> code, token |-> NoToken, ids |-> {}, views |-> {}]

Call(r, t) == [req |-> r, token |-> t, stage |-> "sent", reply |-> Reply("OK")]

NoCall == [req |-> [op |-> "ListExpressions"], token |-> NoToken, stage |-> "idle",
           reply |-> Reply("OK")]

Nothing == [logins |-> {}, exprs |-> {}, shown |-> {}]

Init ==
    /\ users = InitialUsers
    /\ Service!Init
    /\ owner = [e \in Expr |-> NoUser]
    /\ clock = 0
    /\ token = [c \in Client |-> NoToken]
    /\ call = [c \in Client |-> NoCall]
    /\ known = Nothing
    /\ promised = [c \in Client |-> Nothing]

-----------------------------------------------------------------------------
\* The client's side.

Send(c, r) ==
    /\ call[c].stage = "idle"
    /\ call' = [call EXCEPT ![c] = Call(r, token[c])]
    /\ promised' = [promised EXCEPT ![c] = known]
    /\ UNCHANGED <<users, verdict, value, owner, clock, token, known>>

\* A client that gives up is one that never takes this step.
Receive(c) ==
    LET req == call[c].req
        reply == call[c].reply
        ok == reply.code = "OK"
    IN  /\ call[c].stage = "replied"
        /\ call' = [call EXCEPT ![c] = NoCall]
        /\ token' = [token EXCEPT ![c] = IF ok /\ req.op = "Login" THEN reply.token ELSE @]
        /\ known' =
             [known EXCEPT
                !.logins = @ \cup IF ok /\ req.op = "Register" THEN {req} ELSE {},
                !.exprs = @ \cup IF ok /\ req.op = "Calculate"
                             THEN {[id |-> e, user |-> call[c].token.user] : e \in reply.ids}
                             ELSE {},
                !.shown = @ \cup (reply.views \cap SettledView)]
        /\ promised' = [promised EXCEPT ![c] = Nothing]
        /\ UNCHANGED <<users, verdict, value, owner, clock>>

Tick ==
    /\ clock < MaxTime
    /\ clock' = clock + 1
    /\ UNCHANGED <<users, verdict, value, owner, token, call, known, promised>>

\* The calculator stops and starts again: what it was working on is lost, the database is not.
Restart ==
    /\ \E c \in Client : call[c].stage # "idle"
    /\ call' = [c \in Client |-> NoCall]
    /\ promised' = [c \in Client |-> Nothing]
    /\ UNCHANGED <<users, verdict, value, owner, clock, token, known>>

\* Seeded mutant: a settled expression is settled again.
SettleAgain(e) ==
    /\ verdict[e] # "Absent"
    /\ \E v \in {"Completed", "Failed"} : verdict' = [verdict EXCEPT ![e] = v]
    /\ value' = [value EXCEPT ![e] = Answer[e]]
    /\ UNCHANGED <<users, owner, clock, token, call, known, promised>>

\* The agents work.
Settle(e) ==
    /\ Service!Settle(e)
    /\ UNCHANGED <<users, owner, clock, token, call, known, promised>>

-----------------------------------------------------------------------------
\* The handlers.

OwnData == <<users, verdict, value, owner>>

\* A handler returns; the interceptor returns for it when it refuses the token.
Return(c, reply) ==
    /\ call' = [call EXCEPT ![c].stage = "replied", ![c].reply = reply]
    /\ UNCHANGED <<clock, token, known, promised>>

\* A statement fails, or the context of the request is done.
InternalError(c) ==
    /\ call[c].stage \in {"admitted", "counted"} \cup
           {x \in {"sent"} : call[c].req.op \in UserOp}
    /\ Return(c, Reply("Internal"))
    /\ UNCHANGED OwnData

Called(c, op) ==
    /\ call[c].req.op = op
    /\ call[c].stage = IF op \in UserOp THEN "sent" ELSE "admitted"

\* Seeded mutant: the column login is not UNIQUE.
RegisterTwice(c) ==
    LET req == call[c].req
    IN  /\ Called(c, "Register")
        /\ \E id \in UserId \ {u.id : u \in users} :
               users' = users \cup {[id |-> id, login |-> req.login, hash |-> Hash[req.password]]}
        /\ Return(c, Reply("OK"))
        /\ UNCHANGED <<verdict, value, owner>>

\* The constraint UNIQUE of the column login decides, in the statement that inserts the row.
Register(c) ==
    LET req == call[c].req
    IN  /\ Called(c, "Register")
        /\ \A u \in users : u.login # req.login
        /\ \E id \in UserId \ {u.id : u \in users} :
               users' = users \cup {[id |-> id, login |-> req.login, hash |-> Hash[req.password]]}
        /\ Return(c, Reply("OK"))
        /\ UNCHANGED <<verdict, value, owner>>

RegisterExists(c) ==
    /\ Called(c, "Register")
    /\ \E u \in users : u.login = call[c].req.login
    /\ Return(c, Reply("AlreadyExists"))
    /\ UNCHANGED OwnData

\* Seeded mutant: the date is rounded up.
NumericDateUp(t) == ((t + Second - 1) \div Second) * Second

\* NumericDate drops the fraction of a second.
NumericDate(t) == (t \div Second) * Second

\* Seeded mutant: the lifetime is counted from the date that has been truncated already.
GenerateJWTFromDate(id) ==
    [user |-> id, exp |-> NumericDate(NumericDate(clock) + Lifetime), issued |-> clock]

\* issued is not part of the token: it is what the lifetime is counted from.
GenerateJWT(id) == [user |-> id, exp |-> NumericDate(clock + Lifetime), issued |-> clock]

\* Seeded mutant: the password is looked for as it is.
FoundPlain(req) == {u \in users : u.login = req.login /\ u.hash = req.password}

\* GetUser looks for the login and the hash in one row.
Found(req) == {u \in users : u.login = req.login /\ u.hash = Hash[req.password]}

LoginOK(c) ==
    /\ Called(c, "Login")
    /\ \E u \in Found(call[c].req) :
           Return(c, [Reply("OK") EXCEPT !.token = GenerateJWT(u.id)])
    /\ UNCHANGED OwnData

LoginFails(c) ==
    /\ Called(c, "Login")
    /\ Found(call[c].req) = {}
    /\ Return(c, Reply("FailedPrecondition"))
    /\ UNCHANGED OwnData

\* validateJWT: the token expires at exp.
Valid(t) == t # NoToken /\ clock < t.exp

\* The interceptor of CalculatorService.
Admit(c) ==
    /\ call[c].stage = "sent"
    /\ call[c].req.op \notin UserOp
    /\ Valid(call[c].token)
    /\ call' = [call EXCEPT ![c].stage = "admitted"]
    /\ UNCHANGED <<OwnData, clock, token, known, promised>>

Refuse(c) ==
    /\ call[c].stage = "sent"
    /\ call[c].req.op \notin UserOp
    /\ ~Valid(call[c].token)
    /\ Return(c, Reply("Unauthenticated"))
    /\ UNCHANGED OwnData

CalculateInvalid(c) ==
    /\ Called(c, "Calculate")
    /\ Return(c, Reply("InvalidArgument"))
    /\ UNCHANGED OwnData

\* Seeded mutant: the error of Commit is ignored.
CalculateUncommitted(c) ==
    /\ Called(c, "Calculate")
    /\ \E e \in Expr :
           /\ verdict[e] = "Absent"
           /\ \/ Service!Accept(e) /\ owner' = [owner EXCEPT ![e] = call[c].token.user]
              \/ UNCHANGED <<verdict, value, owner>>
           /\ Return(c, [Reply("OK") EXCEPT !.ids = {e}])
    /\ UNCHANGED users

Calculate(c) ==
    /\ Called(c, "Calculate")
    /\ \E e \in Expr :
           /\ Service!Accept(e)
           /\ owner' = [owner EXCEPT ![e] = call[c].token.user]
           /\ Return(c, [Reply("OK") EXCEPT !.ids = {e}])
    /\ UNCHANGED users

\* WHERE user_id = ?
Owned(id) == {e \in Expr : verdict[e] # "Absent" /\ owner[e] = id}

Shown(es) == [Reply("OK") EXCEPT !.ids = es, !.views = {mapExpression(e) : e \in es}]

ListExpressions(c) ==
    /\ Called(c, "ListExpressions")
    /\ Return(c, Shown(Owned(call[c].token.user)))
    /\ UNCHANGED OwnData

GetExpression(c) ==
    LET e == call[c].req.expr
    IN  /\ Called(c, "GetExpression")
        /\ Return(c, IF e \in Owned(call[c].token.user)
                     THEN Shown({e})
                     ELSE Reply("NotFound"))
        /\ UNCHANGED OwnData

\* Seeded mutant: AND user_id = ? is missing.
CountExpressionsOfAll(c) ==
    /\ Called(c, "ListExpressionTasks")
    /\ IF verdict[call[c].req.expr] # "Absent"
       THEN /\ call' = [call EXCEPT ![c].stage = "counted"]
            /\ UNCHANGED <<clock, token, known, promised>>
       ELSE Return(c, Reply("NotFound"))
    /\ UNCHANGED OwnData

\* ListExpressionTasks asks whose expression it is in one statement, and for the tasks of the
\* expression, whosever it is, in the next.
CountExpressions(c) ==
    /\ Called(c, "ListExpressionTasks")
    /\ IF call[c].req.expr \in Owned(call[c].token.user)
       THEN /\ call' = [call EXCEPT ![c].stage = "counted"]
            /\ UNCHANGED <<clock, token, known, promised>>
       ELSE Return(c, Reply("NotFound"))
    /\ UNCHANGED OwnData

SelectTasks(c) ==
    LET e == call[c].req.expr
    IN  /\ call[c].stage = "counted"
        /\ Return(c, [Reply("OK") EXCEPT !.ids = IF verdict[e] # "Absent" THEN {e} ELSE {}])
        /\ UNCHANGED OwnData

-----------------------------------------------------------------------------
Handler(c) ==
    \/ InternalError(c)
    \/ Register(c) \/ RegisterExists(c) \/ LoginOK(c) \/ LoginFails(c)
    \/ Admit(c) \/ Refuse(c)
    \/ CalculateInvalid(c) \/ Calculate(c)
    \/ ListExpressions(c) \/ GetExpression(c) \/ CountExpressions(c) \/ SelectTasks(c)

Next ==
    \/ \E c \in Client : Handler(c) \/ Receive(c) \/ \E r \in Request : Send(c, r)
    \/ \E e \in Expr : Settle(e)
    \/ Tick
    \/ Restart

Spec == Init /\ [][Next]_vars

-----------------------------------------------------------------------------
Token == [user : UserId, exp : Int, issued : Int]

Code == {"OK", "Internal", "AlreadyExists", "FailedPrecondition", "Unauthenticated",
         "InvalidArgument", "NotFound"}

Known == [logins : SUBSET Request,
          exprs : SUBSET [id : Expr, user : UserId],
          shown : SUBSET SettledView]

Stage == {"idle", "sent", "admitted", "counted", "replied"}

Replies == [code : Code, token : Token \cup {NoToken}, ids : SUBSET Expr, views : SUBSET View]

Calls == [req : Request \cup {NoCall.req}, token : Token \cup {NoToken}, stage : Stage,
          reply : Replies]

TypeOK ==
    /\ users \subseteq UserRow
    /\ verdict \in [Expr -> {"Absent", "Pending", "Completed", "Failed"}]
    /\ value \in [Expr -> Result \cup {NULL}]
    /\ owner \in [Expr -> UserId \cup {NoUser}]
    /\ clock \in Nat
    /\ token \in [Client -> Token \cup {NoToken}]
    /\ call \in [Client -> Calls]
    /\ known \in Known
    /\ promised \in [Client -> Known]

Replied(c, op) == call[c].stage = "replied" /\ call[c].req.op = op

\* Of clients that register one login, whether at the same time, after a lost answer or across a
\* restart, no two are told that it is theirs with different passwords; nor is anybody told that a
\* login is theirs that had a user before.  And who logs in to a login that somebody has been told
\* is theirs does it with the password of that one, not with that of a client who came too late.
\* (Passwords count by their hashes.)
LoginsAreGivenOnce ==
    /\ \A r, s \in known.logins : r.login = s.login => Hash[r.password] = Hash[s.password]
    /\ \A r \in known.logins, u \in InitialUsers : r.login = u.login => Hash[r.password] = u.hash
    /\ \A c \in Client : Replied(c, "Login") /\ call[c].reply.code = "OK" =>
           \A r \in known.logins :
               r.login = call[c].req.login => Hash[r.password] = Hash[call[c].req.password]

\* Whatever is asked, and also when an answer takes two statements: an answer tells of the
\* expressions of the caller only.
OwnExpressionsOnly ==
    \A c \in Client : call[c].stage = "replied" =>
        \A e \in call[c].reply.ids : owner[e] = call[c].token.user

\* What a user has been told was accepted, when the call of client c was sent.
Given(c) ==
    {x.id : x \in {y \in promised[c].exprs :
                     call[c].token # NoToken /\ y.user = call[c].token.user}}

\* An expression whose id a user has been given is there for every request of the user that is
\* sent afterwards, from whichever client: restarts and lost answers do not make it disappear.
GivenIsFound ==
    \A c \in Client :
        /\ Replied(c, "ListExpressions") /\ call[c].reply.code = "OK" =>
               Given(c) \subseteq call[c].reply.ids
        /\ Replied(c, "GetExpression") \/ Replied(c, "ListExpressionTasks") =>
               (call[c].reply.code = "NotFound" => call[c].req.expr \notin Given(c))

\* What an answer has said of a settled expression, every later request is told again.
SettledIsFinal ==
    \A c \in Client : call[c].stage = "replied" =>
        \A x \in call[c].reply.views, y \in promised[c].shown : x.id = y.id => x = y

\* Who has been told that they are registered can log in, and is given a token of their own.
RegisteredCanLogIn ==
    \A c \in Client : Replied(c, "Login") =>
        /\ call[c].reply.code = "FailedPrecondition" =>
               \A r \in promised[c].logins :
                   ~(r.login = call[c].req.login /\ r.password = call[c].req.password)
        /\ call[c].reply.code = "OK" =>
               \E u \in users : u.id = call[c].reply.token.user /\ u.login = call[c].req.login

\* A token is good for its lifetime, less a fraction of a second, and never longer, in every
\* process of the calculator.
TokenLifetime ==
    [][\A c \in Client :
          LET t == call[c].token
              age == clock - t.issued
          IN  call[c].stage = "sent" /\ call[c].req.op \notin UserOp /\ t # NoToken =>
                 /\ call'[c].stage = "admitted" => age < Lifetime
                 /\ call'[c].stage = "replied" => age > Lifetime - Second]_vars

-----------------------------------------------------------------------------
\* The inductive invariant behind these properties.

Settled == {"Completed", "Failed"}

Users == {u.id : u \in users}

UsersAreUnique == \A u, v \in users : u.login = v.login \/ u.id = v.id => u = v

Registered(r) == \E u \in users : u.login = r.login /\ u.hash = Hash[r.password]

\* An expression that is there belongs to someone, and only to someone who has registered
\* (SQLite does not enforce the foreign key unless asked to).
OwnersAreUsers ==
    \A e \in Expr : IF verdict[e] = "Absent" THEN owner[e] = NoUser ELSE owner[e] \in Users

\* What has been told is so.
Holds(k) ==
    /\ \A r \in k.logins : Registered(r)
    /\ \A x \in k.exprs : owner[x.id] = x.user
    /\ \A x \in k.shown : verdict[x.id] \in Settled /\ x = mapExpression(x.id)

\* A reply tells what is so.
ReplyFits(k) ==
    /\ k.reply.token # NoToken => k.reply.token.user \in Users
    /\ k.reply.ids # {} => k.token # NoToken
    /\ \A e \in k.reply.ids : owner[e] = k.token.user
    /\ \A x \in k.reply.views :
           /\ x.id \in k.reply.ids
           /\ x \in SettledView => verdict[x.id] \in Settled /\ x = mapExpression(x.id)
    /\ k.stage = "replied" /\ k.req.op \in UserOp /\ k.reply.code = "OK" => Registered(k.req)

\* The handler has what it needs: a user, and the expression that it has counted.
CallFits(k) ==
    /\ k.token # NoToken => k.token.user \in Users
    /\ k.stage = "idle" => k = NoCall
    /\ k.stage \in {"admitted", "counted"} => k.req.op \notin UserOp /\ k.token # NoToken
    /\ k.stage = "counted" =>
           k.req.op = "ListExpressionTasks" /\ owner[k.req.expr] = k.token.user
    /\ k.stage # "replied" => k.reply = Reply("OK")
    /\ ReplyFits(k)

IInv ==
    /\ TypeOK
    /\ UsersAreUnique
    /\ OwnersAreUsers
    /\ Holds(known)
    /\ \A c \in Client :
           /\ token[c] # NoToken => token[c].user \in Users
           /\ CallFits(call[c])
           /\ Holds(promised[c])
    /\ GivenIsFound
    /\ SettledIsFinal
    /\ RegisteredCanLogIn
=============================================================================
