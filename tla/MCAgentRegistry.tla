--------------------------- MODULE MCAgentRegistry ---------------------------
(* Instances of AgentRegistry for TLC. *)
EXTENDS AgentRegistry, TLC

CONSTANTS a1, s1, s2

(* One agent that dials twice, when nothing can go wrong, when only the    *)
(* process can die, when everything can go wrong, and when only the        *)
(* agent's own sessions overlap.                                           *)
SameAgent == s1 :> a1 @@ s2 :> a1
AnyFault == [overlap |-> TRUE, crash |-> TRUE, fault |-> TRUE, rewrite |-> TRUE]
CalmOrAny == {Calm, [Calm EXCEPT !.crash = TRUE], AnyFault}
OverlapOnly == {[Calm EXCEPT !.overlap = TRUE]}
=============================================================================
