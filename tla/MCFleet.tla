------------------------------- MODULE MCFleet -------------------------------
EXTENDS Fleet, TLC

CONSTANTS f1, a1, a2, d1, d2, t1, t2, t3, r1, r2

Keep == [factory |-> "", agent |-> "", status |-> ""]
SomePatches ==
  {[Keep EXCEPT !.status = "ONLINE"], [Keep EXCEPT !.agent = a2]}

Symm == Permutations(Requests) \cup Permutations(Tokens)
=============================================================================
