\* Tokens of two clients grow old: a lifetime longer than a second, and the clock goes beyond it.
SPECIFICATION Spec
CONSTANTS
    admin = admin  u1 = u1  u2 = u2
    Admin = Admin  Bob = Bob
    p1 = p1  h1 = h1  p2 = p2  h2 = h2
    e1 = e1  v1 = v1
    c1 = c1  c2 = c2
    NULL = NULL  NaN = NaN  Zero = Zero  NoToken = NoToken  NoUser = NoUser
    Client = {c1, c2}
    Login = {Admin, Bob}
    Password = {p1}
    Hash <- MCHash
    UserId = {admin, u1}
    InitialUsers <- OnlyAdmin
    Expr = {e1}
    Answer <- MCAnswer
    Op = {"Register", "Login", "ListExpressions"}
    Lifetime = 3
    Second = 2
    MaxTime = 5
SYMMETRY Alike
PROPERTIES
    TokenLifetime
