------------------------------ MODULE TaskStates ------------------------------
(***************************************************************************)
(* The task state machine the server means to follow: taskmanager/status.go *)
(* has it as canTransition.  Transition, which consults it, is not called   *)
(* by the running server; TaskLifecycle says when the handlers that write   *)
(* the status directly follow it all the same.                              *)
(***************************************************************************)
CONSTANT Tasks

VARIABLE status    \* tasks.status, "NONE" while there is no row

Terminal == {"SUCCESS", "FAILED", "CANCELLED"}
Statuses == {"PENDING", "RUNNING", "RETRYING"} \cup Terminal

CanTransition(from, to) ==
  /\ from # to /\ from \notin Terminal
  /\ \/ from = "PENDING"  /\ to \in {"RUNNING", "CANCELLED", "FAILED"}
     \/ from = "RUNNING"  /\ to \in {"SUCCESS", "FAILED", "RETRYING", "CANCELLED"}
     \/ from = "RETRYING" /\ to \in {"RUNNING", "FAILED", "CANCELLED"}

Init == status = [t \in Tasks |-> "NONE"]

Submit(t) ==
  /\ status[t] = "NONE"
  /\ status' = [status EXCEPT ![t] = "PENDING"]

(* TaskManager.Transition: a change canTransition forbids is not made. *)
Transition(t, to) ==
  /\ CanTransition(status[t], to)
  /\ status' = [status EXCEPT ![t] = to]

Next == \E t \in Tasks : Submit(t) \/ \E to \in Statuses : Transition(t, to)

Spec == Init /\ [][Next]_status
=============================================================================
