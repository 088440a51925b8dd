----------------------------- MODULE MCAccounts -----------------------------
EXTENDS Accounts, TLC

CONSTANTS u1, u2, u3, n1, n2, p1, r1, r2

Row(n, x) == [name |-> n, pass |-> p1, role |-> x, status |-> "ACTIVE"]
OneAdmin == u1 :> Row(n1, "ADMIN")

Keep == [name |-> "", pass |-> "", role |-> "", status |-> ""]
SomeForms == {Row(n2, "ADMIN")}
SomePatches ==
  {[Keep EXCEPT !.name = n2, !.status = "DISABLED"], [Keep EXCEPT !.role = "USER"]}

RequestSymmetry == Permutations(Requests)
=============================================================================
