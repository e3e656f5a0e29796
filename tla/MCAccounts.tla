----------------------------- MODULE MCAccounts -----------------------------
(***************************************************************************)
(* Instances of Accounts: two clients, two logins, up to two passwords and  *)
(* up to two users besides the admin.                                       *)
(***************************************************************************)
EXTENDS Accounts, TLC

CONSTANTS admin, u1, u2,        \* user ids
          Admin, Bob,           \* logins
          p1, h1, p2, h2,       \* passwords and their hashes
          e1, v1,               \* an expression and its value
          c1, c2

MCHash == p1 :> h1 @@ p2 :> h2

\* The migrations leave the admin.
OnlyAdmin == {[id |-> admin, login |-> Admin, hash |-> h1]}

MCAnswer == e1 :> v1

\* No client is special, and no new user.
Alike == Permutations({c1, c2}) \cup Permutations({u1, u2})
=============================================================================
