-------------------------- MODULE AccountsTheorems --------------------------
(***************************************************************************)
(* Theorems about Accounts, for every set of clients, users and expressions. *)
(*                                                                          *)
(* What is stored only grows (Grows): users stay, an expression keeps its   *)
(* owner, a settled one its result.  So what an answer has said stays true  *)
(* while the answer is on its way and after it has come, which is Holds and *)
(* ReplyFits, and a later answer, which is read from what is stored, cannot *)
(* contradict it.                                                           *)
(***************************************************************************)
EXTENDS Accounts, TLAPS

\* The part of TypeOK and of IInv that is about what is stored.
DataFits ==
    /\ users \subseteq UserRow
    /\ verdict \in [Expr -> {"Absent", "Pending", "Completed", "Failed"}]
    /\ value \in [Expr -> Result \cup {NULL}]
    /\ owner \in [Expr -> UserId \cup {NoUser}]
    /\ UsersAreUnique
    /\ OwnersAreUsers

Grows ==
    /\ users \subseteq users'
    /\ \A e \in Expr : owner[e] # NoUser => owner'[e] = owner[e]
    /\ \A e \in Expr : verdict[e] \in Settled => verdict'[e] = verdict[e] /\ value'[e] = value[e]

\* A settled expression is not settled again.
LEMMA SettleGrows ==
    ASSUME DataFits, NEW e \in Expr, Settle(e)
    PROVE  DataFits' /\ Grows
<1>1. /\ verdict[e] = "Pending"
      /\ users' = users /\ owner' = owner
      /\ \E v \in Settled : verdict' = [verdict EXCEPT ![e] = v]
      /\ value' = value \/ value' = [value EXCEPT ![e] = Answer[e]]
  BY DEF Settle, Service!Settle, Service!Complete, Service!Fail, Settled
<1>2. PICK v \in Settled : verdict' = [verdict EXCEPT ![e] = v]
  BY <1>1
<1>3. Answer[e] \in Result
  BY DEF Result
<1>4. /\ verdict' \in [Expr -> {"Absent", "Pending", "Completed", "Failed"}]
      /\ value' \in [Expr -> Result \cup {NULL}]
      /\ \A x \in Expr \ {e} : verdict'[x] = verdict[x] /\ value'[x] = value[x]
      /\ verdict'[e] \in Settled
  BY <1>1, <1>2, <1>3 DEF DataFits, Settled
<1>5. OwnersAreUsers'
  BY <1>1, <1>4 DEF DataFits, OwnersAreUsers, Users, Settled
<1>6. Grows
  BY <1>1, <1>4 DEF Grows, Settled
<1> QED
  BY <1>1, <1>4, <1>5, <1>6 DEF DataFits, UsersAreUnique

\* A row is added only for a login that has none, with an id that no row has.
LEMMA RegisterGrows ==
    ASSUME DataFits, NEW c \in Client, Called(c, "Register"), Register(c), TypeOK
    PROVE  DataFits' /\ Grows /\ Registered(call[c].req)'
<1> DEFINE req == call[c].req
           row(id) == [id |-> id, login |-> req.login, hash |-> Hash[req.password]]
<1>1. PICK id \in UserId \ {u.id : u \in users} : users' = users \cup {row(id)}
  BY DEF Register
<1>2. /\ \A u \in users : u.login # req.login
      /\ UNCHANGED <<verdict, value, owner>>
      /\ call' = [call EXCEPT ![c].stage = "replied", ![c].reply = Reply("OK")]
  BY DEF Register, Return
<1>3. req.login \in Login /\ req.password \in Password
  <2>1. call[c] \in Calls /\ call[c].req \in Request \cup {NoCall.req} /\ req.op = "Register"
    BY DEF TypeOK, Calls, Called
  <2>2. NoCall.req.op = "ListExpressions"
    BY DEF NoCall
  <2> QED
    BY <2>1, <2>2 DEF Request
<1>4. row(id) \in UserRow
  BY <1>1, <1>3 DEF UserRow
<1>5. UsersAreUnique'
  BY <1>1, <1>2, <1>4 DEF DataFits, UsersAreUnique
<1>6. OwnersAreUsers'
  BY <1>1, <1>2 DEF DataFits, OwnersAreUsers, Users
<1>7. Registered(call[c].req)'
  <2>1. call'[c].req = call[c].req
    BY <1>2 DEF TypeOK, Calls
  <2> QED
    BY <1>1, <1>4, <2>1 DEF Registered
<1> QED
  BY <1>1, <1>2, <1>4, <1>5, <1>6, <1>7 DEF DataFits, Grows

\* Only an expression that is not there is given an owner.
LEMMA CalculateGrows ==
    ASSUME DataFits, NEW e \in Expr, NEW user \in Users,
           Service!Accept(e), owner' = [owner EXCEPT ![e] = user], users' = users
    PROVE  DataFits' /\ Grows /\ owner'[e] = user
<1>1. /\ verdict[e] = "Absent"
      /\ verdict' = [verdict EXCEPT ![e] = "Pending"]
      /\ value' = value
  BY DEF Service!Accept
<1>2. user \in UserId
  BY DEF DataFits, Users, UserRow
<1>3. owner[e] = NoUser
  BY <1>1 DEF DataFits, OwnersAreUsers
<1> QED
  BY <1>1, <1>2, <1>3 DEF DataFits, Grows, UsersAreUnique, OwnersAreUsers, Users, Settled

-----------------------------------------------------------------------------
\* The part of IInv that is about one client.
ClientFits(c) ==
    /\ token[c] \in Token \cup {NoToken}
    /\ token[c] # NoToken => token[c].user \in Users
    /\ call[c] \in Calls
    /\ CallFits(call[c])
    /\ promised[c] \in Known
    /\ Holds(promised[c])
    /\ Replied(c, "ListExpressions") /\ call[c].reply.code = "OK" =>
           Given(c) \subseteq call[c].reply.ids
    /\ Replied(c, "GetExpression") \/ Replied(c, "ListExpressionTasks") =>
           (call[c].reply.code = "NotFound" => call[c].req.expr \notin Given(c))
    /\ call[c].stage = "replied" =>
           \A x \in call[c].reply.views, y \in promised[c].shown : x.id = y.id => x = y
    /\ Replied(c, "Login") =>
           /\ call[c].reply.code = "FailedPrecondition" =>
                  \A r \in promised[c].logins :
                      ~(r.login = call[c].req.login /\ r.password = call[c].req.password)
           /\ call[c].reply.code = "OK" =>
                  \E u \in users : u.id = call[c].reply.token.user /\ u.login = call[c].req.login

Typed ==
    /\ clock \in Nat
    /\ known \in Known
    /\ token \in [Client -> Token \cup {NoToken}]
    /\ call \in [Client -> Calls]
    /\ promised \in [Client -> Known]

\* IInv, part by part.
LEMMA Parts ==
    IInv <=> /\ DataFits
             /\ Typed
             /\ Holds(known)
             /\ \A c \in Client : ClientFits(c)
<1>1. IInv => DataFits /\ Typed /\ Holds(known)
  BY DEF IInv, TypeOK, DataFits, Typed
<1>2. IInv => \A c \in Client : ClientFits(c)
  BY DEF IInv, TypeOK, ClientFits, GivenIsFound, SettledIsFinal, RegisteredCanLogIn
<1>3. ASSUME DataFits, Typed, Holds(known), \A c \in Client : ClientFits(c)
      PROVE  IInv
  <2>1. TypeOK /\ UsersAreUnique /\ OwnersAreUsers
    BY <1>3 DEF TypeOK, DataFits, Typed
  <2>2. GivenIsFound /\ SettledIsFinal /\ RegisteredCanLogIn
    BY <1>3 DEF ClientFits, GivenIsFound, SettledIsFinal, RegisteredCanLogIn
  <2>3. \A c \in Client :
           /\ token[c] # NoToken => token[c].user \in Users
           /\ CallFits(call[c])
           /\ Holds(promised[c])
    BY <1>3 DEF ClientFits
  <2> QED
    BY <1>3, <2>1, <2>2, <2>3 DEF IInv
<1> QED
  BY <1>1, <1>2, <1>3

LEMMA PartsNext ==
    (IInv <=> /\ DataFits
              /\ Typed
              /\ Holds(known)
              /\ \A c \in Client : ClientFits(c))'
BY Parts, PTL

\* What has been told stays true.
LEMMA HoldsStays ==
    ASSUME DataFits, Grows, NEW k \in Known, Holds(k)
    PROVE  Holds(k)'
<1>1. ASSUME NEW r \in k.logins
      PROVE  Registered(r)'
  BY DEF Holds, Registered, Grows
<1>2. ASSUME NEW x \in k.exprs
      PROVE  owner'[x.id] = x.user
  <2>1. x.id \in Expr /\ x.user \in UserId
    BY DEF Known
  <2> QED
    BY <2>1, UsersAssumption DEF Holds, Grows
<1>3. ASSUME NEW x \in k.shown
      PROVE  verdict'[x.id] \in Settled /\ x = mapExpression(x.id)'
  <2>1. x.id \in Expr
    BY DEF Known, SettledView
  <2>2. verdict'[x.id] = verdict[x.id] /\ value'[x.id] = value[x.id]
    BY <2>1 DEF Holds, Grows
  <2> QED
    BY <2>2 DEF Holds, mapExpression
<1> QED
  BY <1>1, <1>2, <1>3 DEF Holds

\* So does what is on its way, and what a handler has found out.
LEMMA CallStays ==
    ASSUME DataFits, Grows, NEW k \in Calls, CallFits(k)
    PROVE  CallFits(k)'
<1>1. Users \subseteq Users' /\ Users \subseteq UserId
  BY DEF Users, Grows, DataFits, UserRow
<1>2. k.token # NoToken => k.token.user \in Users' /\ k.token.user # NoUser
  BY <1>1, UsersAssumption DEF CallFits
<1>3. ASSUME k.stage = "counted"
      PROVE  k.req.op = "ListExpressionTasks" /\ owner'[k.req.expr] = k.token.user
  <2>1. k.req.op = "ListExpressionTasks" /\ owner[k.req.expr] = k.token.user /\ k.token # NoToken
    BY <1>3 DEF CallFits
  <2>2. k.req.expr \in Expr
    BY <2>1 DEF Calls, Request, NoCall
  <2> QED
    BY <1>2, <2>1, <2>2 DEF Grows
<1>4. ReplyFits(k)'
  <2>1. k.reply.token # NoToken => k.reply.token.user \in Users'
    BY <1>1 DEF CallFits, ReplyFits
  <2>2. k.reply.ids # {} => k.token # NoToken
    BY DEF CallFits, ReplyFits
  <2>3. ASSUME NEW e \in k.reply.ids
        PROVE  owner'[e] = k.token.user
    <3>1. e \in Expr
      BY DEF Calls, Replies
    <3> QED
      BY <1>2, <2>2, <3>1 DEF CallFits, ReplyFits, Grows
  <2>4. ASSUME NEW x \in k.reply.views
        PROVE  /\ x.id \in k.reply.ids
               /\ x \in SettledView => verdict'[x.id] \in Settled /\ x = mapExpression(x.id)'
    <3>1. x.id \in k.reply.ids /\ x.id \in Expr
      BY DEF Calls, Replies, CallFits, ReplyFits
    <3>2. SUFFICES ASSUME x \in SettledView
                   PROVE  verdict'[x.id] \in Settled /\ x = mapExpression(x.id)'
      BY <3>1
    <3>3. verdict[x.id] \in Settled /\ x = mapExpression(x.id)
      BY <3>2 DEF CallFits, ReplyFits
    <3>4. verdict'[x.id] = verdict[x.id] /\ value'[x.id] = value[x.id]
      BY <3>1, <3>3 DEF Grows
    <3> QED
      BY <3>3, <3>4 DEF mapExpression
  <2>5. k.stage = "replied" /\ k.req.op \in UserOp /\ k.reply.code = "OK" => Registered(k.req)'
    BY DEF CallFits, ReplyFits, Registered, Grows
  <2> QED
    BY <2>1, <2>2, <2>3, <2>4, <2>5 DEF ReplyFits
<1> QED
  BY <1>2, <1>3, <1>4 DEF CallFits

\* A client that does nothing.
LEMMA ClientStays ==
    ASSUME DataFits, Grows, NEW d \in Client, ClientFits(d),
           token'[d] = token[d], call'[d] = call[d], promised'[d] = promised[d]
    PROVE  ClientFits(d)'
<1>1. CallFits(call[d])'
  <2>1. call[d] \in Calls /\ CallFits(call[d])
    BY DEF ClientFits
  <2>2. \A k \in Calls : CallFits(k) => CallFits(k)'
    BY CallStays
  <2> QED
    BY <2>1, <2>2
<1>2. Holds(promised[d])'
  BY HoldsStays DEF ClientFits
<1>3. token[d] # NoToken => token[d].user \in Users'
  BY DEF ClientFits, Users, Grows
<1>4. Replied(d, "Login") /\ call[d].reply.code = "OK" =>
         \E u \in users' : u.id = call[d].reply.token.user /\ u.login = call[d].req.login
  BY DEF ClientFits, Grows
<1> QED
  BY <1>1, <1>2, <1>3, <1>4 DEF ClientFits, Replied, Given

-----------------------------------------------------------------------------
\* The step of one client, or of the handler that works for it.
LEMMA OneClient ==
    ASSUME IInv, DataFits', Grows, Typed', Holds(known)', NEW c \in Client, ClientFits(c)',
           \A d \in Client \ {c} :
               token'[d] = token[d] /\ call'[d] = call[d] /\ promised'[d] = promised[d]
    PROVE  IInv'
<1>1. DataFits /\ \A d \in Client : ClientFits(d)
  BY Parts
<1>2. \A d \in Client : ClientFits(d)'
  BY <1>1, ClientStays
<1> QED
  BY <1>2, PartsNext

\* What a reply has to be for its client.
GoodReply(c, k) ==
    /\ k \in Calls
    /\ ReplyFits(k)
    /\ k.req.op = "ListExpressions" /\ k.reply.code = "OK" => Given(c) \subseteq k.reply.ids
    /\ k.req.op \in {"GetExpression", "ListExpressionTasks"} /\ k.reply.code = "NotFound" =>
           k.req.expr \notin Given(c)
    /\ \A x \in k.reply.views, y \in promised[c].shown : x.id = y.id => x = y
    /\ k.req.op = "Login" /\ k.reply.code = "FailedPrecondition" =>
           \A r \in promised[c].logins : ~(r.login = k.req.login /\ r.password = k.req.password)
    /\ k.req.op = "Login" /\ k.reply.code = "OK" =>
           \E u \in users : u.id = k.reply.token.user /\ u.login = k.req.login

LEMMA ReturnKeeps ==
    ASSUME IInv, DataFits', Grows, NEW c \in Client, NEW reply, Return(c, reply),
           call[c].stage \in {"sent", "admitted", "counted"},
           NEW k, k = [req |-> call[c].req, token |-> call[c].token, stage |-> "replied",
                       reply |-> reply],
           GoodReply(c, k)'
    PROVE  IInv'
<1>1. DataFits /\ Typed /\ Holds(known) /\ \A d \in Client : ClientFits(d)
  BY Parts
<1>2. /\ call'[c] = k /\ \A d \in Client \ {c} : call'[d] = call[d]
      /\ clock' = clock /\ token' = token /\ known' = known /\ promised' = promised
  BY <1>1 DEF Return, Typed, Calls
<1>3. k \in Calls /\ ReplyFits(k)'
  BY DEF GoodReply
<1>4. Typed'
  BY <1>1, <1>2, <1>3 DEF Typed, Return
<1>5. Holds(known)'
  BY <1>1, <1>2, HoldsStays DEF Typed
<1>6. ClientFits(c)'
  <2>1. token[c] # NoToken => token[c].user \in Users'
    BY <1>1 DEF ClientFits, Users, Grows
  <2>2. k.token # NoToken => k.token.user \in Users'
    BY <1>1 DEF ClientFits, CallFits, Users, Grows
  <2>3. CallFits(k)'
    BY <1>3, <2>2 DEF CallFits
  <2>4. Holds(promised[c])'
    BY <1>1, <1>2, HoldsStays DEF ClientFits
  <2> QED
    BY <1>1, <1>2, <1>3, <2>1, <2>3, <2>4 DEF ClientFits, GoodReply, Replied, Given
<1> QED
  BY <1>2, <1>4, <1>5, <1>6, OneClient

\* A reply that tells nothing.
LEMMA ErrorKeeps ==
    ASSUME IInv, DataFits', Grows, NEW c \in Client, NEW code \in Code,
           Return(c, Reply(code)), call[c].stage \in {"sent", "admitted", "counted"},
           code \notin {"OK", "NotFound", "FailedPrecondition"}
    PROVE  IInv'
<1> PICK k : k = [req |-> call[c].req, token |-> call[c].token, stage |-> "replied",
                  reply |-> Reply(code)]
  OBVIOUS
<1>1. call[c] \in Calls
  BY Parts DEF ClientFits
<1>2. Reply(code) \in Replies
  BY DEF Reply, Replies
<1>3. k \in Calls
  BY <1>1, <1>2 DEF Calls, Stage
<1>4. ReplyFits(k)'
  BY DEF ReplyFits, Reply
<1>5. GoodReply(c, k)'
  BY <1>3, <1>4 DEF GoodReply, Reply
<1> QED
  BY <1>5, ReturnKeeps

-----------------------------------------------------------------------------
LEMMA Untouched ==
    ASSUME IInv, UNCHANGED OwnData
    PROVE  DataFits' /\ Grows
BY Parts DEF DataFits, Grows, OwnData, UsersAreUnique, OwnersAreUsers, Users

\* A reply that is read from what is stored.
LEMMA QueryKeeps ==
    ASSUME IInv, UNCHANGED OwnData, NEW c \in Client, NEW reply, Return(c, reply),
           call[c].stage \in {"sent", "admitted", "counted"},
           NEW k, k = [req |-> call[c].req, token |-> call[c].token, stage |-> "replied",
                       reply |-> reply],
           GoodReply(c, k)
    PROVE  IInv'
<1>1. DataFits' /\ Grows
  BY Untouched
<1>2. call'[c].token = call[c].token /\ promised' = promised
  BY Parts DEF Typed, Calls, Return
<1>3. Given(c)' = Given(c)
  BY <1>2 DEF Given
<1>4. ReplyFits(k)'
  BY DEF GoodReply, ReplyFits, OwnData, Users, Registered, mapExpression
<1>5. GoodReply(c, k)'
  BY <1>2, <1>3, <1>4 DEF GoodReply, OwnData
<1> QED
  BY <1>1, <1>5, ReturnKeeps

\* What a user has been given is theirs.
LEMMA GivenIsOwned ==
    ASSUME IInv, NEW c \in Client
    PROVE  /\ Given(c) \subseteq Owned(call[c].token.user)
           /\ Given(c) # {} => call[c].token # NoToken
<1>1. DataFits /\ ClientFits(c)
  BY Parts
<1>2. SUFFICES ASSUME NEW y \in promised[c].exprs, call[c].token # NoToken,
                      y.user = call[c].token.user
               PROVE  y.id \in Owned(call[c].token.user)
  BY DEF Given
<1>3. y.id \in Expr /\ y.user \in UserId /\ owner[y.id] = y.user
  BY <1>1 DEF ClientFits, Known, Holds
<1>4. owner[y.id] # NoUser
  BY <1>3, UsersAssumption
<1> QED
  BY <1>1, <1>2, <1>3, <1>4 DEF DataFits, OwnersAreUsers, Owned

\* What mapExpression makes of an expression that is there.
LEMMA ViewOf ==
    ASSUME IInv, NEW e \in Expr, verdict[e] # "Absent"
    PROVE  /\ mapExpression(e) \in View
           /\ mapExpression(e).id = e
           /\ mapExpression(e) \in SettledView => verdict[e] \in Settled
<1>1. verdict[e] \in {"Pending", "Completed", "Failed"} /\ value[e] \in Result \cup {NULL}
  BY Parts DEF DataFits
<1>2. (IF value[e] = NULL THEN Zero ELSE value[e]) \in Result
  BY <1>1 DEF Result
<1>3. /\ mapExpressionStatus[verdict[e]] \in {"PENDING", "COMPLETED", "FAILED"}
      /\ mapExpressionStatus[verdict[e]] \in {"COMPLETED", "FAILED"} => verdict[e] \in Settled
  <2>1. CASE verdict[e] = "Pending"
    BY <2>1 DEF mapExpressionStatus
  <2>2. CASE verdict[e] = "Completed"
    BY <2>2 DEF mapExpressionStatus, Settled
  <2>3. CASE verdict[e] = "Failed"
    BY <2>3 DEF mapExpressionStatus, Settled
  <2> QED
    BY <1>1, <2>1, <2>2, <2>3
<1> QED
  BY <1>2, <1>3 DEF mapExpression, View, SettledView

\* An answer that shows expressions of the caller.
LEMMA ShownIsGood ==
    ASSUME IInv, NEW c \in Client, call[c].token # NoToken,
           NEW es \in SUBSET Owned(call[c].token.user),
           NEW k, k = [req |-> call[c].req, token |-> call[c].token, stage |-> "replied",
                       reply |-> Shown(es)],
           k.req.op \in {"ListExpressions", "GetExpression"},
           k.req.op = "ListExpressions" => es = Owned(call[c].token.user)
    PROVE  GoodReply(c, k)
<1>1. DataFits /\ ClientFits(c)
  BY Parts
<1>2. \A e \in es : e \in Expr /\ verdict[e] # "Absent" /\ owner[e] = call[c].token.user
  BY DEF Owned
<1>3. k.reply = [code |-> "OK", token |-> NoToken, ids |-> es,
                 views |-> {mapExpression(e) : e \in es}]
  BY DEF Shown, Reply
<1>4. \A x \in k.reply.views :
         /\ x \in View /\ x.id \in es /\ x = mapExpression(x.id)
         /\ x \in SettledView => verdict[x.id] \in Settled
  BY <1>2, <1>3, ViewOf
<1>5. k.reply \in Replies
  BY <1>2, <1>3, <1>4 DEF Replies, Code
<1>6. k \in Calls
  BY <1>1, <1>5 DEF ClientFits, Calls, Stage
<1>7. ReplyFits(k)
  BY <1>2, <1>3, <1>4 DEF ReplyFits, UserOp
<1>8. \A x \in k.reply.views, y \in promised[c].shown : x.id = y.id => x = y
  BY <1>1, <1>4 DEF ClientFits, Holds
<1> QED
  BY <1>3, <1>6, <1>7, <1>8, GivenIsOwned DEF GoodReply

-----------------------------------------------------------------------------
\* The handlers.

LEMMA ErrorsKeep ==
    ASSUME IInv, NEW c \in Client,
           InternalError(c) \/ RegisterExists(c) \/ Refuse(c) \/ CalculateInvalid(c)
    PROVE  IInv'
<1>1. PICK code \in {"Internal", "AlreadyExists", "Unauthenticated", "InvalidArgument"} :
         Return(c, Reply(code))
  BY DEF InternalError, RegisterExists, Refuse, CalculateInvalid
<1>2. /\ UNCHANGED OwnData
      /\ call[c].stage \in {"sent", "admitted", "counted"}
  BY DEF InternalError, RegisterExists, Refuse, CalculateInvalid, Called
<1>3. DataFits' /\ Grows
  BY <1>2, Untouched
<1> QED
  BY <1>1, <1>2, <1>3, ErrorKeeps DEF Code

LEMMA RegisterKeeps ==
    ASSUME IInv, NEW c \in Client, Register(c)
    PROVE  IInv'
<1> PICK k : k = [req |-> call[c].req, token |-> call[c].token, stage |-> "replied",
                  reply |-> Reply("OK")]
  OBVIOUS
<1>1. /\ DataFits /\ TypeOK /\ call[c] \in Calls
      /\ Called(c, "Register") /\ call[c].stage = "sent" /\ k.req.op = "Register"
  BY Parts DEF IInv, ClientFits, Register, Called, UserOp
<1>2. DataFits' /\ Grows /\ Registered(call[c].req)'
  BY <1>1, RegisterGrows
<1>3. call'[c].req = call[c].req
  BY <1>1 DEF Register, Return, TypeOK, Calls
<1>4. Registered(k.req)'
  BY <1>2, <1>3 DEF Registered
<1>5. k \in Calls
  BY <1>1 DEF Calls, Stage, Replies, Reply, Code
<1>6. GoodReply(c, k)'
  BY <1>1, <1>4, <1>5 DEF GoodReply, ReplyFits, Reply
<1> QED
  BY <1>1, <1>2, <1>6, ReturnKeeps DEF Register

LEMMA LoginKeeps ==
    ASSUME IInv, NEW c \in Client, LoginOK(c) \/ LoginFails(c)
    PROVE  IInv'
<1>1. /\ DataFits /\ Typed /\ ClientFits(c)
      /\ call[c].stage = "sent" /\ call[c].req.op = "Login" /\ UNCHANGED OwnData
  BY Parts DEF LoginOK, LoginFails, Called, UserOp
<1>2. CASE LoginOK(c)
  <2>1. PICK u \in Found(call[c].req) :
           Return(c, [Reply("OK") EXCEPT !.token = GenerateJWT(u.id)])
    BY <1>2 DEF LoginOK
  <2>2. u \in users /\ u.login = call[c].req.login /\ u.id \in UserId /\ u.id \in Users
    BY <1>1 DEF Found, DataFits, UserRow, Users
  <2>3. NumericDate(clock + Lifetime) \in Int
    BY <1>1, TimeAssumption DEF NumericDate, Typed
  <2>4. GenerateJWT(u.id) \in Token /\ GenerateJWT(u.id).user = u.id
    BY <1>1, <2>2, <2>3 DEF GenerateJWT, Token, Typed
  <2> PICK k : k = [req |-> call[c].req, token |-> call[c].token, stage |-> "replied",
                    reply |-> [Reply("OK") EXCEPT !.token = GenerateJWT(u.id)]]
    OBVIOUS
  <2>5. k.reply = [code |-> "OK", token |-> GenerateJWT(u.id), ids |-> {}, views |-> {}]
    BY DEF Reply
  <2>6. k \in Calls
    BY <1>1, <2>4, <2>5 DEF ClientFits, Calls, Stage, Replies, Code
  <2>7. Registered(k.req)
    BY <2>2 DEF Registered, Found
  <2>8. GoodReply(c, k)
    BY <1>1, <2>2, <2>4, <2>5, <2>6, <2>7 DEF GoodReply, ReplyFits
  <2> QED
    BY <1>1, <2>1, <2>8, QueryKeeps
<1>3. CASE LoginFails(c)
  <2> PICK k : k = [req |-> call[c].req, token |-> call[c].token, stage |-> "replied",
                    reply |-> Reply("FailedPrecondition")]
    OBVIOUS
  <2>1. k \in Calls
    BY <1>1 DEF ClientFits, Calls, Stage, Replies, Reply, Code
  <2>2. \A r \in promised[c].logins : ~(r.login = k.req.login /\ r.password = k.req.password)
    BY <1>1, <1>3 DEF LoginFails, Found, ClientFits, Holds, Registered
  <2>3. GoodReply(c, k)
    BY <1>1, <2>1, <2>2 DEF GoodReply, ReplyFits, Reply
  <2> QED
    BY <1>1, <1>3, <2>3, QueryKeeps DEF LoginFails
<1> QED
  BY <1>2, <1>3

LEMMA CalculateKeeps ==
    ASSUME IInv, NEW c \in Client, Calculate(c)
    PROVE  IInv'
<1>1. /\ DataFits /\ ClientFits(c) /\ users' = users
      /\ call[c].stage = "admitted" /\ call[c].req.op = "Calculate"
  BY Parts DEF Calculate, Called, UserOp
<1>2. PICK e \in Expr :
         /\ Service!Accept(e)
         /\ owner' = [owner EXCEPT ![e] = call[c].token.user]
         /\ Return(c, [Reply("OK") EXCEPT !.ids = {e}])
  BY DEF Calculate
<1>3. call[c].token # NoToken /\ call[c].token.user \in Users
  BY <1>1 DEF ClientFits, CallFits
<1>4. DataFits' /\ Grows /\ owner'[e] = call[c].token.user
  BY <1>1, <1>2, <1>3, CalculateGrows
<1> PICK k : k = [req |-> call[c].req, token |-> call[c].token, stage |-> "replied",
                  reply |-> [Reply("OK") EXCEPT !.ids = {e}]]
  OBVIOUS
<1>5. k.reply = [code |-> "OK", token |-> NoToken, ids |-> {e}, views |-> {}]
  BY DEF Reply
<1>6. k \in Calls
  BY <1>1, <1>5 DEF ClientFits, Calls, Stage, Replies, Code
<1>7. GoodReply(c, k)'
  BY <1>1, <1>3, <1>4, <1>5, <1>6 DEF GoodReply, ReplyFits, UserOp
<1> QED
  BY <1>1, <1>2, <1>4, <1>7, ReturnKeeps

LEMMA ReadsKeep ==
    ASSUME IInv, NEW c \in Client, ListExpressions(c) \/ GetExpression(c)
    PROVE  IInv'
<1>1. /\ ClientFits(c)
      /\ call[c].stage = "admitted" /\ UNCHANGED OwnData /\ call[c].token # NoToken
      /\ call[c].req.op \in {"ListExpressions", "GetExpression"}
  BY Parts DEF ListExpressions, GetExpression, Called, UserOp, ClientFits, CallFits
<1> DEFINE mine == Owned(call[c].token.user)
           K(reply) == [req |-> call[c].req, token |-> call[c].token, stage |-> "replied",
                        reply |-> reply]
<1>2. CASE ListExpressions(c)
  <2> PICK k : k = K(Shown(mine))
    OBVIOUS
  <2>1. GoodReply(c, k)
    BY <1>1, ShownIsGood
  <2> QED
    BY <1>1, <1>2, <2>1, QueryKeeps DEF ListExpressions
<1>3. CASE GetExpression(c) /\ call[c].req.expr \in mine
  <2> PICK k : k = K(Shown({call[c].req.expr}))
    OBVIOUS
  <2>1. call[c].req.op = "GetExpression" /\ Return(c, Shown({call[c].req.expr}))
    BY <1>3 DEF GetExpression, Called
  <2>2. GoodReply(c, k)
    BY <1>1, <1>3, <2>1, ShownIsGood
  <2> QED
    BY <1>1, <2>1, <2>2, QueryKeeps
<1>4. CASE GetExpression(c) /\ call[c].req.expr \notin mine
  <2> PICK k : k = K(Reply("NotFound"))
    OBVIOUS
  <2>1. call[c].req.op = "GetExpression" /\ Return(c, Reply("NotFound"))
    BY <1>4 DEF GetExpression, Called
  <2>2. k \in Calls
    BY <1>1 DEF ClientFits, Calls, Stage, Replies, Reply, Code
  <2>3. GoodReply(c, k)
    BY <1>4, <2>1, <2>2, GivenIsOwned DEF GoodReply, ReplyFits, Reply
  <2> QED
    BY <1>1, <2>1, <2>3, QueryKeeps
<1> QED
  BY <1>2, <1>3, <1>4

\* The two statements of ListExpressionTasks.
LEMMA TasksKeep ==
    ASSUME IInv, NEW c \in Client, CountExpressions(c) \/ SelectTasks(c)
    PROVE  IInv'
<1>1. /\ DataFits /\ Typed /\ Holds(known) /\ ClientFits(c)
      /\ call[c].stage \in {"admitted", "counted"} /\ UNCHANGED OwnData
      /\ call[c].token # NoToken /\ call[c].token.user \in Users
      /\ call[c].req.op = "ListExpressionTasks"
  BY Parts DEF CountExpressions, SelectTasks, Called, UserOp, ClientFits, CallFits
<1> DEFINE e == call[c].req.expr
           K(reply) == [req |-> call[c].req, token |-> call[c].token, stage |-> "replied",
                        reply |-> reply]
<1>2. e \in Expr
  BY <1>1 DEF ClientFits, Calls, Request, NoCall
<1>3. CASE CountExpressions(c) /\ e \in Owned(call[c].token.user)
  <2>1. /\ call' = [call EXCEPT ![c].stage = "counted"]
        /\ UNCHANGED <<clock, token, known, promised>>
        /\ call[c].stage = "admitted"
    BY <1>3 DEF CountExpressions, Called, UserOp
  <2>2. DataFits' /\ Grows
    BY <1>1, Untouched
  <2>3. Holds(known)' /\ Holds(promised[c])'
    BY <1>1, <2>1, <2>2, HoldsStays DEF Typed, ClientFits
  <2>4. /\ call'[c] = [call[c] EXCEPT !.stage = "counted"]
        /\ \A d \in Client \ {c} : call'[d] = call[d]
        /\ call'[c] \in Calls
        /\ call'[c].req = call[c].req /\ call'[c].token = call[c].token
        /\ call'[c].reply = call[c].reply /\ call'[c].stage = "counted"
    BY <1>1, <2>1 DEF Typed, Calls, Stage
  <2>5. CallFits(call[c])'
    <3>1. owner'[e] = call[c].token.user
      BY <1>1, <1>3 DEF Owned, OwnData
    <3>2. ReplyFits(call[c])'
      BY <1>1, <2>1, <2>4 DEF ClientFits, CallFits, ReplyFits, Reply
    <3>3. call'[c].token.user \in Users'
      BY <1>1, <2>4 DEF OwnData, Users
    <3> QED
      BY <1>1, <2>1, <2>4, <3>1, <3>2, <3>3 DEF ClientFits, CallFits, UserOp
  <2>6. Typed'
    BY <1>1, <2>1, <2>4 DEF Typed
  <2>7. ClientFits(c)'
    BY <1>1, <2>1, <2>3, <2>4, <2>5 DEF ClientFits, Replied, OwnData, Users
  <2> QED
    BY <2>1, <2>2, <2>3, <2>4, <2>6, <2>7, OneClient
<1>4. CASE CountExpressions(c) /\ e \notin Owned(call[c].token.user)
  <2> PICK k : k = K(Reply("NotFound"))
    OBVIOUS
  <2>1. Return(c, Reply("NotFound"))
    BY <1>4 DEF CountExpressions
  <2>2. k \in Calls
    BY <1>1 DEF ClientFits, Calls, Stage, Replies, Reply, Code
  <2>3. GoodReply(c, k)
    BY <1>1, <1>4, <2>2, GivenIsOwned DEF GoodReply, ReplyFits, Reply
  <2> QED
    BY <1>1, <2>1, <2>3, QueryKeeps
<1>5. CASE SelectTasks(c)
  <2> DEFINE reply == [Reply("OK") EXCEPT !.ids = IF verdict[e] # "Absent" THEN {e} ELSE {}]
  <2> PICK k : k = K(reply)
    OBVIOUS
  <2>1. Return(c, reply) /\ call[c].stage = "counted"
    BY <1>5 DEF SelectTasks
  <2>2. owner[e] = call[c].token.user
    BY <1>1, <2>1 DEF ClientFits, CallFits
  <2>3. /\ k.reply.code = "OK" /\ k.reply.token = NoToken
        /\ k.reply.ids \subseteq {e} /\ k.reply.views = {}
        /\ k.reply = [code |-> "OK", token |-> NoToken, ids |-> k.reply.ids, views |-> {}]
    BY DEF Reply
  <2>4. k \in Calls
    BY <1>1, <1>2, <2>3 DEF ClientFits, Calls, Stage, Replies, Code
  <2>5. GoodReply(c, k)
    BY <1>1, <2>2, <2>3, <2>4 DEF GoodReply, ReplyFits, UserOp
  <2> QED
    BY <1>1, <2>1, <2>5, QueryKeeps
<1> QED
  BY <1>3, <1>4, <1>5

LEMMA AdmitKeeps ==
    ASSUME IInv, NEW c \in Client, Admit(c)
    PROVE  IInv'
<1>1. /\ DataFits /\ Typed /\ Holds(known) /\ ClientFits(c)
      /\ call[c].stage = "sent" /\ call[c].req.op \notin UserOp /\ call[c].token # NoToken
      /\ call' = [call EXCEPT ![c].stage = "admitted"]
      /\ UNCHANGED <<OwnData, clock, token, known, promised>>
  BY Parts DEF Admit, Valid
<1>2. DataFits' /\ Grows
  BY <1>1, Untouched
<1>3. Holds(known)' /\ Holds(promised[c])'
  BY <1>1, <1>2, HoldsStays DEF Typed, ClientFits
<1>4. /\ \A d \in Client \ {c} : call'[d] = call[d]
      /\ call'[c] \in Calls
      /\ call'[c].req = call[c].req /\ call'[c].token = call[c].token
      /\ call'[c].reply = call[c].reply /\ call'[c].stage = "admitted"
  BY <1>1 DEF Typed, Calls, Stage
<1>5. CallFits(call[c])'
  BY <1>1, <1>4 DEF ClientFits, CallFits, ReplyFits, Reply, OwnData, Users
<1>6. Typed'
  BY <1>1, <1>4 DEF Typed
<1>7. ClientFits(c)'
  BY <1>1, <1>3, <1>4, <1>5 DEF ClientFits, Replied, OwnData, Users
<1> QED
  BY <1>1, <1>2, <1>3, <1>4, <1>6, <1>7, OneClient

-----------------------------------------------------------------------------
\* The steps of the clients, of time, of the agents, and of the process.

LEMMA SendKeeps ==
    ASSUME IInv, NEW c \in Client, NEW r \in Request, Send(c, r)
    PROVE  IInv'
<1>1. /\ DataFits /\ Typed /\ Holds(known) /\ ClientFits(c)
      /\ call' = [call EXCEPT ![c] = Call(r, token[c])]
      /\ promised' = [promised EXCEPT ![c] = known]
      /\ UNCHANGED <<users, verdict, value, owner, clock, token, known>>
  BY Parts DEF Send
<1>2. DataFits' /\ Grows
  BY <1>1, Untouched DEF OwnData
<1>3. Holds(known)'
  BY <1>1, <1>2, HoldsStays DEF Typed
<1>4. /\ \A d \in Client \ {c} : call'[d] = call[d] /\ promised'[d] = promised[d]
      /\ call'[c] = Call(r, token[c]) /\ promised'[c] = known /\ known' = known
  BY <1>1 DEF Typed
<1>5. Call(r, token[c]) \in Calls
  BY <1>1 DEF Call, Calls, Stage, Replies, Reply, Code, Typed
<1>6. CallFits(call[c])'
  BY <1>1, <1>4 DEF ClientFits, CallFits, ReplyFits, Call, Reply, Users
<1>7. Typed'
  BY <1>1, <1>4, <1>5 DEF Typed
<1>8. Holds(promised[c])'
  BY <1>3, <1>4 DEF Holds
<1>9. ClientFits(c)'
  BY <1>1, <1>4, <1>5, <1>6, <1>7, <1>8 DEF ClientFits, Replied, Call, Typed, Users
<1> QED
  BY <1>1, <1>2, <1>3, <1>4, <1>7, <1>9, OneClient

\* What a reply has told is true, and so may be held against later replies.
LEMMA ReceiveKeeps ==
    ASSUME IInv, NEW c \in Client, Receive(c)
    PROVE  IInv'
<1> DEFINE req == call[c].req
           reply == call[c].reply
           ok == reply.code = "OK"
           logins == IF ok /\ req.op = "Register" THEN {req} ELSE {}
           exprs == IF ok /\ req.op = "Calculate"
                    THEN {[id |-> e, user |-> call[c].token.user] : e \in reply.ids}
                    ELSE {}
           shown == reply.views \cap SettledView
<1>1. /\ DataFits /\ Typed /\ Holds(known) /\ ClientFits(c)
      /\ call[c].stage = "replied"
      /\ call' = [call EXCEPT ![c] = NoCall]
      /\ token' = [token EXCEPT ![c] = IF ok /\ req.op = "Login" THEN reply.token ELSE @]
      /\ known' = [known EXCEPT !.logins = @ \cup logins, !.exprs = @ \cup exprs,
                                !.shown = @ \cup shown]
      /\ promised' = [promised EXCEPT ![c] = Nothing]
      /\ UNCHANGED <<users, verdict, value, owner, clock>>
  BY Parts DEF Receive
<1>2. DataFits' /\ Grows
  BY <1>1, Untouched DEF OwnData
<1>3. call[c] \in Calls /\ reply \in Replies /\ req \in Request \cup {NoCall.req}
  BY <1>1 DEF ClientFits, Calls
<1>4. logins \subseteq Request /\ \A r \in logins : Registered(r)
  <2>1. req.op = "Register" => req # NoCall.req
    BY DEF NoCall
  <2> QED
    BY <1>1, <1>3, <2>1 DEF ClientFits, CallFits, ReplyFits, UserOp
<1>5. /\ exprs \subseteq [id : Expr, user : UserId]
      /\ \A x \in exprs : owner[x.id] = x.user
  <2>1. Users \subseteq UserId
    BY <1>1 DEF DataFits, Users, UserRow
  <2>2. \A e \in reply.ids : /\ e \in Expr /\ owner[e] = call[c].token.user
                            /\ call[c].token.user \in UserId
    BY <1>1, <1>3, <2>1 DEF ClientFits, CallFits, ReplyFits, Replies
  <2> QED
    BY <2>2
<1>6. /\ shown \subseteq SettledView
      /\ \A x \in shown : verdict[x.id] \in Settled /\ x = mapExpression(x.id)
  BY <1>1 DEF ClientFits, CallFits, ReplyFits
<1> HIDE DEF logins, exprs, shown
<1>7. /\ known' \in Known
      /\ known'.logins = known.logins \cup logins /\ known'.exprs = known.exprs \cup exprs
      /\ known'.shown = known.shown \cup shown
  BY <1>1, <1>4, <1>5, <1>6 DEF Typed, Known
<1>8. Holds(known')
  BY <1>1, <1>4, <1>5, <1>6, <1>7 DEF Holds
<1>9. Holds(known)'
  <2>1. \A k \in Known : Holds(k) => Holds(k)'
    BY <1>1, <1>2, HoldsStays
  <2>2. Holds(known') => Holds(known)'
    BY <1>1 DEF Holds, Registered, mapExpression
  <2> QED
    BY <1>8, <2>2
<1>10. /\ \A d \in Client \ {c} :
             token'[d] = token[d] /\ call'[d] = call[d] /\ promised'[d] = promised[d]
       /\ call'[c] = NoCall /\ promised'[c] = Nothing
       /\ token'[c] \in {token[c], reply.token}
  BY <1>1 DEF Typed
<1>11. Typed'
  <2>1. NoCall \in Calls /\ Nothing \in Known
    BY DEF NoCall, Calls, Stage, Replies, Reply, Code, Nothing, Known
  <2> QED
    BY <1>1, <1>3, <1>7, <2>1 DEF Typed, Replies
<1>12. ClientFits(c)'
  <2>1. token'[c] # NoToken => token'[c].user \in Users'
    BY <1>1, <1>10 DEF ClientFits, CallFits, ReplyFits, Users
  <2>2. CallFits(call[c])'
    BY <1>10 DEF CallFits, ReplyFits, NoCall, Reply
  <2>3. Holds(promised[c])'
    BY <1>10 DEF Holds, Nothing
  <2> QED
    BY <1>10, <1>11, <2>1, <2>2, <2>3 DEF ClientFits, Replied, NoCall, Typed
<1> QED
  BY <1>2, <1>9, <1>10, <1>11, <1>12, OneClient

LEMMA RestartKeeps ==
    ASSUME IInv, Restart
    PROVE  IInv'
<1>1. /\ DataFits /\ Typed /\ Holds(known) /\ \A d \in Client : ClientFits(d)
      /\ call' = [d \in Client |-> NoCall]
      /\ promised' = [d \in Client |-> Nothing]
      /\ UNCHANGED <<users, verdict, value, owner, clock, token, known>>
  BY Parts DEF Restart
<1>2. DataFits' /\ Grows
  BY <1>1, Untouched DEF OwnData
<1>3. Holds(known)'
  BY <1>1, <1>2, HoldsStays DEF Typed
<1>4. Typed'
  BY <1>1 DEF Typed, NoCall, Calls, Stage, Replies, Reply, Code, Nothing, Known
<1>5. ASSUME NEW d \in Client
      PROVE  ClientFits(d)'
  <2>1. call'[d] = NoCall /\ promised'[d] = Nothing /\ token'[d] = token[d]
    BY <1>1
  <2>2. token'[d] # NoToken => token'[d].user \in Users'
    BY <1>1, <2>1 DEF ClientFits, Users
  <2>3. CallFits(call[d])'
    BY <2>1 DEF CallFits, ReplyFits, NoCall, Reply
  <2>4. Holds(promised[d])'
    BY <2>1 DEF Holds, Nothing
  <2> QED
    BY <1>4, <2>1, <2>2, <2>3, <2>4 DEF ClientFits, Replied, NoCall, Typed
<1> QED
  BY <1>2, <1>3, <1>4, <1>5, PartsNext

\* The clients do nothing; time passes, or an expression is settled.
LEMMA OthersKeep ==
    ASSUME IInv, DataFits', Grows, clock' \in Nat, UNCHANGED <<token, call, known, promised>>
    PROVE  IInv'
<1>1. DataFits /\ Typed /\ Holds(known) /\ \A d \in Client : ClientFits(d)
  BY Parts
<1>2. Holds(known)'
  BY <1>1, HoldsStays DEF Typed
<1>3. \A d \in Client : ClientFits(d)'
  BY <1>1, ClientStays
<1>4. Typed'
  BY <1>1 DEF Typed
<1> QED
  BY <1>2, <1>3, <1>4, PartsNext

-----------------------------------------------------------------------------
LEMMA InitFits == Init => IInv
<1> SUFFICES ASSUME Init
             PROVE  IInv
  OBVIOUS
<1>1. DataFits
  BY UsersAssumption DEF Init, Service!Init, DataFits, UsersAreUnique, OwnersAreUsers
<1>2. Typed
  BY DEF Init, Typed, NoCall, Calls, Stage, Replies, Reply, Code, Nothing, Known
<1>3. Holds(known)
  BY DEF Init, Holds, Nothing
<1>4. ASSUME NEW c \in Client
      PROVE  ClientFits(c)
  <2>1. call[c] = NoCall /\ promised[c] = Nothing /\ token[c] = NoToken
    BY DEF Init
  <2>2. CallFits(call[c])
    BY <2>1 DEF CallFits, ReplyFits, NoCall, Reply
  <2>3. Holds(promised[c])
    BY <2>1 DEF Holds, Nothing
  <2> QED
    BY <1>2, <2>1, <2>2, <2>3 DEF ClientFits, Replied, NoCall, Typed
<1> QED
  BY <1>1, <1>2, <1>3, <1>4, Parts

LEMMA NextFits == IInv /\ [Next]_vars => IInv'
<1> SUFFICES ASSUME IInv, [Next]_vars
             PROVE  IInv'
  OBVIOUS
<1> USE DEF OwnData
<1>1. DataFits /\ Typed
  BY Parts
<1>2. CASE \E c \in Client : Handler(c)
  BY <1>2, ErrorsKeep, RegisterKeeps, LoginKeeps, AdmitKeeps, CalculateKeeps, ReadsKeep,
     TasksKeep DEF Handler
<1>3. CASE \E c \in Client : Receive(c) \/ \E r \in Request : Send(c, r)
  BY <1>3, ReceiveKeeps, SendKeeps
<1>4. CASE \E e \in Expr : Settle(e)
  <2>1. DataFits' /\ Grows
    BY <1>1, <1>4, SettleGrows
  <2>2. UNCHANGED <<clock, token, call, known, promised>>
    BY <1>4 DEF Settle
  <2> QED
    BY <1>1, <2>1, <2>2, OthersKeep DEF Typed
<1>5. CASE Tick
  <2>1. DataFits' /\ Grows
    BY <1>5, Untouched DEF Tick
  <2> QED
    BY <1>1, <1>5, <2>1, OthersKeep DEF Tick, Typed
<1>6. CASE Restart
  BY <1>6, RestartKeeps
<1>7. CASE UNCHANGED vars
  <2>1. DataFits' /\ Grows
    BY <1>7, Untouched DEF vars
  <2> QED
    BY <1>1, <1>7, <2>1, OthersKeep DEF vars, Typed
<1> QED
  BY <1>2, <1>3, <1>4, <1>5, <1>6, <1>7 DEF Next

\* The invariant holds always, whatever the clients do at the same time, and across restarts.
THEOREM Invariance == Spec => []IInv
BY InitFits, NextFits, PTL DEF Spec

\* No step takes a user away.
LEMMA UsersStay ==
    ASSUME [Next]_vars
    PROVE  users \subseteq users'
<1>1. CASE \E c \in Client : Handler(c)
  <2>1. PICK c \in Client : Handler(c)
    BY <1>1
  <2>2. CASE Register(c)
    BY <2>2 DEF Register
  <2>3. CASE InternalError(c) \/ RegisterExists(c) \/ LoginOK(c) \/ LoginFails(c) \/ Refuse(c)
    BY <2>3 DEF InternalError, RegisterExists, LoginOK, LoginFails, Refuse, OwnData
  <2>4. CASE Admit(c) \/ CalculateInvalid(c) \/ Calculate(c)
    BY <2>4 DEF Admit, CalculateInvalid, Calculate, OwnData
  <2>5. CASE ListExpressions(c) \/ GetExpression(c) \/ CountExpressions(c) \/ SelectTasks(c)
    BY <2>5 DEF ListExpressions, GetExpression, CountExpressions, SelectTasks, OwnData
  <2> QED
    BY <2>1, <2>2, <2>3, <2>4, <2>5 DEF Handler
<1>2. CASE \E c \in Client : Receive(c) \/ \E r \in Request : Send(c, r)
  BY <1>2 DEF Receive, Send
<1>3. CASE (\E e \in Expr : Settle(e)) \/ Tick \/ Restart \/ UNCHANGED vars
  BY <1>3 DEF Settle, Tick, Restart, vars
<1> QED
  BY <1>1, <1>2, <1>3 DEF Next

\* Two that have, or have been told that they have, one login have one password: both are in the
\* one row of that login.
LEMMA OneHash ==
    ASSUME UsersAreUnique, NEW r, NEW s, Registered(r), Registered(s), r.login = s.login
    PROVE  Hash[r.password] = Hash[s.password]
BY DEF UsersAreUnique, Registered

\* Clients that register the same login at the same time, after a lost answer or across restarts
\* are not told that it is theirs with different passwords, nor does one log in with the password
\* of the other (users.go:18, service/user.go:59).
THEOREM ExclusiveLogins == Spec => []LoginsAreGivenOnce
<1>1. Spec => [](InitialUsers \subseteq users)
  <2>1. Init => InitialUsers \subseteq users
    BY DEF Init
  <2>2. InitialUsers \subseteq users /\ [Next]_vars => (InitialUsers \subseteq users)'
    BY UsersStay
  <2> QED
    BY <2>1, <2>2, PTL DEF Spec
<1>2. IInv /\ InitialUsers \subseteq users => LoginsAreGivenOnce
  <2> SUFFICES ASSUME IInv, InitialUsers \subseteq users
               PROVE  LoginsAreGivenOnce
    OBVIOUS
  <2>1. UsersAreUnique /\ \A r \in known.logins : Registered(r)
    BY DEF IInv, Holds
  <2>2. \A r, s \in known.logins : r.login = s.login => Hash[r.password] = Hash[s.password]
    BY <2>1, OneHash
  <2>3. \A r \in known.logins, u \in InitialUsers : r.login = u.login => Hash[r.password] = u.hash
    BY <2>1 DEF UsersAreUnique, Registered
  <2>4. ASSUME NEW c \in Client, Replied(c, "Login"), call[c].reply.code = "OK"
        PROVE  Registered(call[c].req)
    BY <2>4 DEF IInv, CallFits, ReplyFits, Replied, UserOp
  <2> QED
    BY <2>1, <2>2, <2>3, <2>4, OneHash DEF LoginsAreGivenOnce
<1> QED
  BY <1>1, <1>2, Invariance, PTL

\* Who has been told that they are registered is never refused with their password, and gets a
\* token of their own (service/user.go:77).
THEOREM RegisteredUsersLogIn == Spec => []RegisteredCanLogIn
<1>1. IInv => RegisteredCanLogIn
  BY DEF IInv
<1> QED
  BY <1>1, Invariance, PTL

\* No answer tells of another user's expression, the answer of ListExpressionTasks included, which
\* checks the owner in one statement and reads in the next (expressions.go:134-162).
THEOREM Privacy == Spec => []OwnExpressionsOnly
<1>1. IInv => OwnExpressionsOnly
  BY DEF IInv, CallFits, ReplyFits, OwnExpressionsOnly
<1> QED
  BY <1>1, Invariance, PTL

\* What a user was told was accepted is found by every later request, after any number of restarts.
THEOREM ReadYourWrites == Spec => []GivenIsFound
<1>1. IInv => GivenIsFound
  BY DEF IInv
<1> QED
  BY <1>1, Invariance, PTL

\* Answers never contradict each other about a settled expression.
THEOREM Finality == Spec => []SettledIsFinal
<1>1. IInv => SettledIsFinal
  BY DEF IInv
<1> QED
  BY <1>1, Invariance, PTL

-----------------------------------------------------------------------------
\* Tokens carry the date that GenerateJWT gave them, wherever they are.
Dated(t) == t # NoToken => t.issued \in Int /\ t.exp = NumericDate(t.issued + Lifetime)

TokensDated ==
    \A c \in Client : Dated(token[c]) /\ Dated(call[c].token) /\ Dated(call[c].reply.token)

\* NumericDate takes away less than a second.
LEMMA Truncation ==
    ASSUME NEW t \in Int
    PROVE  NumericDate(t) \in Int /\ NumericDate(t) <= t /\ t < NumericDate(t) + Second
<1> DEFINE q == t \div Second
<1>1. Second \in Int /\ Second > 0
  BY TimeAssumption
<1>2. q \in Int /\ q * Second \in Int /\ q * Second <= t /\ t < q * Second + Second
  BY <1>1
<1> QED
  BY <1>2 DEF NumericDate

\* A handler returns a token only if it has made it.
LEMMA ReturnDated ==
    ASSUME TokensDated, Typed, NEW c \in Client, NEW reply, Return(c, reply), Dated(reply.token)
    PROVE  TokensDated'
<1>1. /\ token' = token
      /\ \A d \in Client : call'[d].token = call[d].token
      /\ \A d \in Client \ {c} : call'[d].reply = call[d].reply
      /\ call'[c].reply = reply
  BY DEF Return, Typed, Calls
<1>2. \A d \in Client : Dated(token'[d]) /\ Dated(call'[d].token) /\ Dated(call'[d].reply.token)
  BY <1>1 DEF TokensDated
<1> QED
  BY <1>2 DEF TokensDated, Dated

\* A handler goes on, or it returns; only Login returns a token.
Counts(c) ==
    /\ call[c].stage = "admitted"
    /\ call' = [call EXCEPT ![c].stage = "counted"]
    /\ UNCHANGED <<clock, token, known, promised>>

LEMMA HandlerReturns ==
    ASSUME NEW c \in Client, Handler(c)
    PROVE  \/ Admit(c) \/ Refuse(c) \/ Counts(c)
           \/ /\ call[c].stage # "sent" \/ call[c].req.op \in UserOp
              /\ \E reply : /\ Return(c, reply)
                           /\ \/ reply.token = NoToken
                              \/ \E id : reply.token = GenerateJWT(id)
<1>1. CASE InternalError(c) \/ Register(c) \/ RegisterExists(c) \/ LoginFails(c)
           \/ CalculateInvalid(c)
  <2>1. PICK code : Return(c, Reply(code))
    BY <1>1 DEF InternalError, Register, RegisterExists, LoginFails, CalculateInvalid
  <2> QED
    BY <1>1, <2>1 DEF InternalError, Register, RegisterExists, LoginFails, CalculateInvalid,
       Called, Reply
<1>2. CASE LoginOK(c)
  <2>1. PICK id, reply : reply = [Reply("OK") EXCEPT !.token = GenerateJWT(id)] /\ Return(c, reply)
    BY <1>2 DEF LoginOK
  <2> QED
    BY <1>2, <2>1 DEF LoginOK, Called, Reply
<1>3. CASE Calculate(c) \/ ListExpressions(c) \/ GetExpression(c)
  <2>1. ASSUME NEW e, NEW es
        PROVE  /\ [Reply("OK") EXCEPT !.ids = {e}].token = NoToken
               /\ Shown(es).token = NoToken
               /\ Reply("NotFound").token = NoToken
    BY DEF Shown, Reply
  <2>2. \E reply : Return(c, reply) /\ reply.token = NoToken
    <3>1. CASE Calculate(c)
      BY <2>1, <3>1 DEF Calculate
    <3>2. CASE ListExpressions(c)
      BY <2>1, <3>2 DEF ListExpressions
    <3>3. CASE GetExpression(c)
      <4> DEFINE e == call[c].req.expr
      <4>1. CASE e \in Owned(call[c].token.user)
        BY <2>1, <3>3, <4>1 DEF GetExpression
      <4>2. CASE e \notin Owned(call[c].token.user)
        BY <2>1, <3>3, <4>2 DEF GetExpression
      <4> QED
        BY <4>1, <4>2
    <3> QED
      BY <1>3, <3>1, <3>2, <3>3
  <2> QED
    BY <1>3, <2>2 DEF Calculate, ListExpressions, GetExpression, Called, UserOp
<1>4. CASE CountExpressions(c)
  <2>1. CASE call[c].req.expr \in Owned(call[c].token.user)
    BY <1>4, <2>1 DEF CountExpressions, Counts, Called, UserOp
  <2>2. CASE call[c].req.expr \notin Owned(call[c].token.user)
    <3>1. Return(c, Reply("NotFound")) /\ Reply("NotFound").token = NoToken
      BY <1>4, <2>2 DEF CountExpressions, Reply
    <3> QED
      BY <1>4, <3>1 DEF CountExpressions, Called, UserOp
  <2> QED
    BY <2>1, <2>2
<1>5. CASE SelectTasks(c)
  <2> DEFINE e == call[c].req.expr
             reply == [Reply("OK") EXCEPT !.ids = IF verdict[e] # "Absent" THEN {e} ELSE {}]
  <2>1. Return(c, reply) /\ reply.token = NoToken
    BY <1>5 DEF SelectTasks, Reply
  <2> QED
    BY <1>5, <2>1 DEF SelectTasks
<1> QED
  BY <1>1, <1>2, <1>3, <1>4, <1>5 DEF Handler

LEMMA HandlerDated ==
    ASSUME TokensDated, Typed, NEW c \in Client, Handler(c)
    PROVE  TokensDated'
<1>1. CASE Admit(c) \/ Counts(c)
  <2>1. /\ token' = token
        /\ \A d \in Client :
              call'[d].token = call[d].token /\ call'[d].reply = call[d].reply
    BY <1>1 DEF Admit, Counts, Typed, Calls
  <2> QED
    BY <2>1 DEF TokensDated, Dated
<1>2. ASSUME NEW reply, Return(c, reply), reply.token = NoToken
      PROVE  TokensDated'
  BY <1>2, ReturnDated DEF Dated
<1>3. ASSUME NEW reply, Return(c, reply), NEW id, reply.token = GenerateJWT(id)
      PROVE  TokensDated'
  <2>1. Dated(reply.token)
    BY <1>3 DEF Dated, GenerateJWT, Typed
  <2> QED
    BY <1>3, <2>1, ReturnDated
<1>4. CASE Refuse(c)
  BY <1>4, <1>2 DEF Refuse, Reply
<1> QED
  BY <1>1, <1>2, <1>3, <1>4, HandlerReturns

LEMMA NextDated == IInv /\ TokensDated /\ [Next]_vars => TokensDated'
<1> SUFFICES ASSUME IInv, TokensDated, [Next]_vars
             PROVE  TokensDated'
  OBVIOUS
<1>1. Typed
  BY Parts
<1>2. Dated(NoToken)
  BY DEF Dated
<1>3. CASE \E c \in Client : Handler(c)
  BY <1>1, <1>3, HandlerDated
<1>4. ASSUME NEW c \in Client, Receive(c)
      PROVE  TokensDated'
  <2>1. /\ \A d \in Client : token'[d] \in {token[d], call[d].reply.token}
        /\ \A d \in Client : call'[d] = call[d] \/ call'[d] = NoCall
    BY <1>1, <1>4 DEF Receive, Typed
  <2>2. \A d \in Client : Dated(token'[d]) /\ Dated(call'[d].token) /\ Dated(call'[d].reply.token)
    BY <1>2, <2>1 DEF TokensDated, NoCall, Reply
  <2> QED
    BY <2>2 DEF TokensDated, Dated
<1>5. ASSUME NEW c \in Client, NEW r \in Request, Send(c, r)
      PROVE  TokensDated'
  <2>1. /\ token' = token
        /\ \A d \in Client : call'[d] = call[d] \/ call'[d] = Call(r, token[d])
    BY <1>1, <1>5 DEF Send, Typed
  <2>2. \A d \in Client : /\ Call(r, token[d]).token = token[d]
                          /\ Call(r, token[d]).reply.token = NoToken
    BY DEF Call, Reply
  <2>3. \A d \in Client : Dated(token'[d]) /\ Dated(call'[d].token) /\ Dated(call'[d].reply.token)
    BY <1>2, <2>1, <2>2 DEF TokensDated
  <2> QED
    BY <2>3 DEF TokensDated, Dated
<1>6. CASE Restart
  <2>1. token' = token /\ \A d \in Client : call'[d] = NoCall
    BY <1>6 DEF Restart
  <2>2. \A d \in Client : Dated(token'[d]) /\ Dated(call'[d].token) /\ Dated(call'[d].reply.token)
    BY <1>2, <2>1 DEF TokensDated, NoCall, Reply
  <2> QED
    BY <2>2 DEF TokensDated, Dated
<1>7. CASE Tick \/ (\E e \in Expr : Settle(e)) \/ UNCHANGED vars
  <2>1. token' = token /\ call' = call
    BY <1>7 DEF Tick, Settle, vars
  <2> QED
    BY <2>1 DEF TokensDated, Dated
<1> QED
  BY <1>3, <1>4, <1>5, <1>6, <1>7 DEF Next

LEMMA LifetimeStep ==
    ASSUME IInv, TokensDated, [Next]_vars, NEW c \in Client,
           call[c].stage = "sent", call[c].req.op \notin UserOp, call[c].token # NoToken
    PROVE  /\ call'[c].stage = "admitted" => clock - call[c].token.issued < Lifetime
           /\ call'[c].stage = "replied" => clock - call[c].token.issued > Lifetime - Second
<1> DEFINE t == call[c].token
           due == t.issued + Lifetime
<1>1. /\ Typed /\ clock \in Int /\ Lifetime \in Int /\ Second \in Int
      /\ t.issued \in Int /\ t.exp = NumericDate(due)
  BY Parts, TimeAssumption DEF Typed, TokensDated, Dated
<1>2. t.exp \in Int /\ t.exp <= due /\ due < t.exp + Second
  BY <1>1, Truncation
<1>3. \A d \in Client \ {c} : Handler(d) => call'[c] = call[c]
  <2>1. ASSUME NEW d \in Client, d # c, NEW reply, Return(d, reply)
        PROVE  call'[c] = call[c]
    BY <1>1, <2>1 DEF Return, Typed
  <2>2. ASSUME NEW d \in Client, d # c, Admit(d) \/ Counts(d)
        PROVE  call'[c] = call[c]
    BY <1>1, <2>2 DEF Admit, Counts, Typed
  <2>3. ASSUME NEW d \in Client, d # c, Refuse(d)
        PROVE  call'[c] = call[c]
    BY <2>1, <2>3 DEF Refuse
  <2> QED
    BY <2>1, <2>2, <2>3, HandlerReturns
<1>4. ASSUME Handler(c)
      PROVE  \/ Admit(c) /\ call'[c].stage = "admitted"
             \/ Refuse(c) /\ call'[c].stage = "replied"
  <2>1. Admit(c) \/ Refuse(c)
    BY <1>4, HandlerReturns DEF Counts
  <2>2. Admit(c) => call'[c].stage = "admitted"
    BY <1>1 DEF Admit, Typed, Calls
  <2>3. Refuse(c) => call'[c].stage = "replied"
    BY <1>1 DEF Refuse, Return, Typed, Calls
  <2> QED
    BY <2>1, <2>2, <2>3
<1>5. (\E d \in Client : Handler(d)) \/ call'[c] \in {call[c], NoCall}
  <2>1. ASSUME NEW d \in Client, Receive(d) \/ \E r \in Request : Send(d, r)
        PROVE  call'[c] \in {call[c], NoCall}
    BY <1>1, <2>1 DEF Receive, Send, Typed
  <2>2. CASE Restart
    BY <2>2 DEF Restart
  <2>3. CASE Tick \/ (\E e \in Expr : Settle(e)) \/ UNCHANGED vars
    BY <2>3 DEF Tick, Settle, vars
  <2> QED
    BY <2>1, <2>2, <2>3 DEF Next
<1>6. CASE call'[c] \in {call[c], NoCall}
  BY <1>6 DEF NoCall
<1>7. CASE Admit(c) /\ call'[c].stage = "admitted"
  <2>1. clock < t.exp
    BY <1>7 DEF Admit, Valid
  <2> QED
    BY <1>1, <1>2, <1>7, <2>1
<1>8. CASE Refuse(c) /\ call'[c].stage = "replied"
  <2>1. ~(clock < t.exp)
    BY <1>8 DEF Refuse, Valid
  <2> QED
    BY <1>1, <1>2, <1>8, <2>1
<1> QED
  BY <1>3, <1>4, <1>5, <1>6, <1>7, <1>8

\* The bounds of TokenLifetime hold for every request, in every process (auth.go:49).
THEOREM Lifetimes == Spec => TokenLifetime
<1>1. Init => TokensDated
  BY DEF Init, TokensDated, Dated, NoCall, Reply
<1>2. Spec => []TokensDated
  BY <1>1, NextDated, Invariance, PTL DEF Spec
<1>3. IInv /\ TokensDated /\ [Next]_vars =>
        [\A c \in Client :
           LET t == call[c].token
               age == clock - t.issued
           IN  call[c].stage = "sent" /\ call[c].req.op \notin UserOp /\ t # NoToken =>
                 /\ call'[c].stage = "admitted" => age < Lifetime
                 /\ call'[c].stage = "replied" => age > Lifetime - Second]_vars
  BY LifetimeStep
<1> QED
  BY <1>2, <1>3, Invariance, PTL DEF Spec, TokenLifetime
=============================================================================
