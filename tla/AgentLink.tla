------------------------------ MODULE AgentLink ------------------------------
(***************************************************************************)
(* What the connection registry promises to the rest of the server: for    *)
(* each agent there is at most one current connection, a connection takes  *)
(* that place at most once in its life, and it loses the place either to   *)
(* a newer connection of the same agent or for good.  Which connection is  *)
(* detached, and when, is left open.  AgentRegistry implements this        *)
(* specification.                                                          *)
(***************************************************************************)
CONSTANTS
  Agents,       \* agent identifiers
  Sessions,     \* WebSocket connections, one per accepted upgrade request
  AgentOf,      \* the agent_id each connection authenticated as
  NoSession     \* the agent has no current connection

VARIABLES
  current,      \* agent -> its current connection
  spent         \* connections that have already held the place

vars == <<current, spent>>

Init ==
  /\ current = [a \in Agents |-> NoSession]
  /\ spent = {}

(* A new connection becomes current and displaces the one before it. *)
Attach(s) ==
  /\ s \notin spent
  /\ current' = [current EXCEPT ![AgentOf[s]] = s]
  /\ spent' = spent \cup {s}

(* The agent's current connection is dropped. *)
Detach(a) ==
  /\ current[a] # NoSession
  /\ current' = [current EXCEPT ![a] = NoSession]
  /\ UNCHANGED spent

(* The process ends: no agent is connected any more. *)
DetachAll ==
  /\ current' = [a \in Agents |-> NoSession]
  /\ UNCHANGED spent

Next ==
  \/ \E s \in Sessions : Attach(s)
  \/ \E a \in Agents : Detach(a)
  \/ DetachAll

Spec == Init /\ [][Next]_vars
=============================================================================
