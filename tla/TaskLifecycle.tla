---------------------------- MODULE TaskLifecycle ----------------------------
(***************************************************************************)
(* The life of print tasks: taskmanager.TaskManager over the tasks table,  *)
(* the goroutines that call it (the request that creates a task, the one   *)
(* dispatch goroutine it starts, requests that cancel a task, and the read *)
(* loop of each connection of the agent), the send queue of the current    *)
(* connection, and the agent.                                              *)
(*                                                                         *)
(* Every statement on the database is an action; what a handler read       *)
(* before it is kept in the handler's own state.  Connections come and go  *)
(* as AgentLink says, for the one agent the tasks are for.                 *)
(***************************************************************************)
EXTENDS Naturals, Sequences, FiniteSets

CONSTANTS
  Tasks, Sessions,
  Cancels,      \* requests to cancel, each used once
  Cancellable,  \* tasks whose owner may ask for that
  Dispatchers,  \* calls of DispatchTask per task: CreateTask makes one, a test two
  NoSession,
  QueueCap,     \* capacity of AgentConnection.sendCh (64)
  MaxRetry,     \* how often the agent retries a task before giving up
  HasUpdatedAt, \* has table tasks the column updated_at
  Faults,       \* may a statement fail (busy, or the request was abandoned)
  Drops,        \* may a connection be lost or replaced
  Crashes       \* may the process die and be restarted

ASSUME TaskAssumption ==
  /\ NoSession \notin Sessions /\ Cancellable \subseteq Tasks
  /\ QueueCap \in Nat \ {0} /\ MaxRetry \in Nat
  /\ {HasUpdatedAt, Faults, Drops, Crashes} \subseteq BOOLEAN

VARIABLES
  row,          \* table tasks
  disp,         \* where each DispatchTask goroutine of a task is
  cancel,       \* the requests to cancel
  reader,       \* the message each read loop is handling, and where it is
  cur,          \* the agent's connection in Manager.conns
  spent,        \* connections that are or were registered
  gone,         \* those whose HandleAgentWS returned: their context is cancelled
  queue,        \* sendCh of each connection
  up,           \* messages the agent sent and no read loop has taken
  agent,        \* what the agent does with each task
  pushed        \* the last status NotifyTaskStatus was given for a task

linkVars == <<cur, spent, gone>>
vars == <<row, disp, cancel, reader, linkVars, queue, up, agent, pushed>>

Undisturbed == Tasks \ Cancellable
Machine == INSTANCE TaskStates WITH
  Tasks <- Undisturbed, status <- [t \in Undisturbed |-> row[t].status]
Terminal == Machine!Terminal

Down == [type : {"task", "cancel"}, task : Tasks]
Up   == [task : Tasks, kind : {"accept", "reject", "RETRYING", "RUNNING", "SUCCESS", "FAILED"},
         retries : 0..MaxRetry]
Idle == [pc |-> "idle"]

TypeOK ==
  /\ row \in [Tasks -> [status : Machine!Statuses \cup {"NONE"}, retries : 0..MaxRetry,
                        dispatched : BOOLEAN, started : BOOLEAN, finished : BOOLEAN]]
  /\ disp \in [Tasks \X Dispatchers ->
                 {"none", "created", "ready", "checked", "sent", "ended"}]
  /\ cancel \in [Cancels -> {Idle} \cup
       [pc : {"mark", "finish", "control", "notify", "done"},
        task : Tasks, retries : 0..MaxRetry]]
  /\ reader \in [Sessions -> {Idle} \cup [pc : {"write", "finish", "notify"}, msg : Up]]
  /\ cur \in Sessions \cup {NoSession}
  /\ gone \subseteq spent /\ spent \subseteq Sessions
  /\ queue \in [Sessions -> Seq(Down)] /\ \A s \in Sessions : Len(queue[s]) <= QueueCap
  /\ up \in [Sessions -> Seq(Up)]
  /\ agent \in [Tasks -> [state : {"none", "got", "working", "retrying", "over"},
                          copies : Nat, retries : 0..MaxRetry]]
  /\ pushed \in [Tasks -> Machine!Statuses \cup {"NONE"}]

Init ==
  /\ row = [t \in Tasks |-> [status |-> "NONE", retries |-> 0, dispatched |-> FALSE,
                             started |-> FALSE, finished |-> FALSE]]
  /\ disp = [td \in Tasks \X Dispatchers |-> "none"]
  /\ cancel = [c \in Cancels |-> Idle]
  /\ reader = [s \in Sessions |-> Idle]
  /\ cur = NoSession /\ spent = {} /\ gone = {}
  /\ queue = [s \in Sessions |-> <<>>]
  /\ up = [s \in Sessions |-> <<>>]
  /\ agent = [t \in Tasks |-> [state |-> "none", copies |-> 0, retries |-> 0]]
  /\ pushed = [t \in Tasks |-> "NONE"]

-----------------------------------------------------------------------------
(* TaskRepo.  Every UPDATE also sets updated_at, so without that column    *)
(* none of them succeeds.                                                  *)
Succeeds == HasUpdatedAt
Fails == ~HasUpdatedAt \/ Faults

GetByID(t) == row[t]
UpdateStatus(t, status, retries) ==
  row' = [row EXCEPT ![t].status = status, ![t].retries = retries]
MarkDispatched(t) == row' = [row EXCEPT ![t].dispatched = TRUE]
MarkStarted(t) == row' = [row EXCEPT ![t].status = "RUNNING", ![t].started = TRUE]
MarkFinished(t, status) == row' = [row EXCEPT ![t].status = status, ![t].finished = TRUE]

(* Mutant: SendToAgent does not mind a full queue. *)
CanSendUnbounded == cur # NoSession

(* Hub.SendToAgent: a full queue or a missing connection is an error. *)
CanSend == cur # NoSession /\ Len(queue[cur]) < QueueCap
Send(m) == queue' = [queue EXCEPT ![cur] = Append(@, m)]

Push(t, status) == pushed' = [pushed EXCEPT ![t] = status]

-----------------------------------------------------------------------------
(* Handlers.CreateTask inserts the row ... *)
CreateTask(t) ==
  /\ row[t].status = "NONE"
  /\ row' = [row EXCEPT ![t].status = "PENDING"]
  /\ disp' = [td \in DOMAIN disp |-> IF td[1] = t THEN "created" ELSE disp[td]]
  /\ UNCHANGED <<cancel, reader, linkVars, queue, up, agent, pushed>>

(* ... notifies, and starts the goroutine that dispatches the task once. *)
NotifyCreated(t) ==
  /\ \E d \in Dispatchers : disp[<<t, d>>] = "created"
  /\ Push(t, "PENDING")
  /\ disp' = [td \in DOMAIN disp |-> IF td[1] = t THEN "ready" ELSE disp[td]]
  /\ UNCHANGED <<row, cancel, reader, linkVars, queue, up, agent>>

(* DispatchTask: read the row and check it is pending, *)
DispatchRead(t, d) ==
  /\ disp[<<t, d>>] = "ready"
  /\ \/ /\ GetByID(t).status = "PENDING"
        /\ disp' = [disp EXCEPT ![<<t, d>>] = "checked"]
     \/ /\ GetByID(t).status # "PENDING" \/ Faults
        /\ disp' = [disp EXCEPT ![<<t, d>>] = "ended"]
  /\ UNCHANGED <<row, cancel, reader, linkVars, queue, up, agent, pushed>>

(* send it, giving up for good if the agent is offline or its queue full,  *)
DispatchSend(t, d) ==
  /\ disp[<<t, d>>] = "checked"
  /\ \/ /\ CanSend /\ Send([type |-> "task", task |-> t])
        /\ disp' = [disp EXCEPT ![<<t, d>>] = "sent"]
     \/ /\ ~CanSend /\ UNCHANGED queue
        /\ disp' = [disp EXCEPT ![<<t, d>>] = "ended"]
  /\ UNCHANGED <<row, cancel, reader, linkVars, up, agent, pushed>>

(* Mutant: a failed MarkDispatched makes the goroutine dispatch again. *)
DispatchMarkRetries(t, d) ==
  /\ disp[<<t, d>>] = "sent"
  /\ \/ /\ Succeeds /\ MarkDispatched(t)
        /\ disp' = [disp EXCEPT ![<<t, d>>] = "ended"]
     \/ /\ Fails /\ UNCHANGED row
        /\ disp' = [disp EXCEPT ![<<t, d>>] = "ready"]
  /\ UNCHANGED <<cancel, reader, linkVars, queue, up, agent, pushed>>

(* Mutant: a dispatched task counts as started. *)
DispatchMarkStarts(t, d) ==
  /\ disp[<<t, d>>] = "sent"
  /\ \/ Succeeds /\ MarkStarted(t)
     \/ Fails /\ UNCHANGED row
  /\ disp' = [disp EXCEPT ![<<t, d>>] = "ended"]
  /\ UNCHANGED <<cancel, reader, linkVars, queue, up, agent, pushed>>

(* and record that it was dispatched; the status stays PENDING. *)
DispatchMark(t, d) ==
  /\ disp[<<t, d>>] = "sent"
  /\ \/ Succeeds /\ MarkDispatched(t)
     \/ Fails /\ UNCHANGED row
  /\ disp' = [disp EXCEPT ![<<t, d>>] = "ended"]
  /\ UNCHANGED <<cancel, reader, linkVars, queue, up, agent, pushed>>

-----------------------------------------------------------------------------
(* CancelTask by the owner: the row it read decides, *)
CancelRead(c, t) ==
  /\ cancel[c] = Idle /\ t \in Cancellable
  /\ GetByID(t).status \in {"PENDING", "RUNNING"}
  /\ cancel' = [cancel EXCEPT ![c] =
                  [pc |-> "mark", task |-> t, retries |-> GetByID(t).retries]]
  /\ UNCHANGED <<row, disp, reader, linkVars, queue, up, agent, pushed>>

(* the status and the retry count it read are written, *)
CancelMark(c) ==
  /\ cancel[c].pc = "mark"
  /\ \/ /\ Succeeds /\ UpdateStatus(cancel[c].task, "CANCELLED", cancel[c].retries)
        /\ cancel' = [cancel EXCEPT ![c].pc = "finish"]
     \/ /\ Fails /\ UNCHANGED row
        /\ cancel' = [cancel EXCEPT ![c].pc = "done"]
  /\ UNCHANGED <<disp, reader, linkVars, queue, up, agent, pushed>>

(* Mutant: CancelTask does not call MarkFinished. *)
CancelFinishSkipped(c) ==
  /\ cancel[c].pc = "finish"
  /\ cancel' = [cancel EXCEPT ![c].pc = "control"]
  /\ UNCHANGED <<row, disp, reader, linkVars, queue, up, agent, pushed>>

(* the finish time is written (an error is only logged), *)
CancelFinish(c) ==
  /\ cancel[c].pc = "finish"
  /\ \/ Succeeds /\ MarkFinished(cancel[c].task, "CANCELLED")
     \/ Fails /\ UNCHANGED row
  /\ cancel' = [cancel EXCEPT ![c].pc = "control"]
  /\ UNCHANGED <<disp, reader, linkVars, queue, up, agent, pushed>>

(* the agent is told (an error is only logged), *)
CancelControl(c) ==
  /\ cancel[c].pc = "control"
  /\ \/ CanSend /\ Send([type |-> "cancel", task |-> cancel[c].task])
     \/ ~CanSend /\ UNCHANGED queue
  /\ cancel' = [cancel EXCEPT ![c].pc = "notify"]
  /\ UNCHANGED <<row, disp, reader, linkVars, up, agent, pushed>>

(* and the user is notified. *)
CancelNotify(c) ==
  /\ cancel[c].pc = "notify"
  /\ Push(cancel[c].task, "CANCELLED")
  /\ cancel' = [cancel EXCEPT ![c].pc = "done"]
  /\ UNCHANGED <<row, disp, reader, linkVars, queue, up, agent>>

-----------------------------------------------------------------------------
(* The read loop of the current connection takes the next message. *)
ReaderTake(s) ==
  /\ s = cur /\ reader[s] = Idle /\ up[s] # <<>>
  /\ reader' = [reader EXCEPT ![s] = [pc |-> "write", msg |-> Head(up[s])]]
  /\ up' = [up EXCEPT ![s] = Tail(@)]
  /\ UNCHANGED <<row, disp, cancel, linkVars, queue, agent, pushed>>

(* The status a message stands for: HandleAck and HandleResult. *)
StatusOf(m) ==
  CASE m.kind = "accept" -> "RUNNING"
    [] m.kind = "reject" -> "FAILED"
    [] OTHER -> m.kind

(* A handler's context is cancelled once HandleAgentWS has returned. *)
ReaderSucceeds(s) == Succeeds /\ s \notin gone
ReaderFails(s) == Fails \/ s \in gone

(* Mutant: an accepting acknowledgement changes nothing. *)
ReaderWriteIgnoresAccept(s) ==
  LET m == reader[s].msg IN
  /\ reader[s].pc = "write" /\ ReaderSucceeds(s)
  /\ CASE m.kind = "accept" -> UNCHANGED row
       [] m.kind = "reject" -> UpdateStatus(m.task, "FAILED", 0)
       [] OTHER -> UpdateStatus(m.task, m.kind, m.retries)
  /\ reader' = [reader EXCEPT ![s].pc =
                  IF StatusOf(m) \in Terminal THEN "finish" ELSE "notify"]
  /\ UNCHANGED <<disp, cancel, linkVars, queue, up, agent, pushed>>

(* Mutant: a result is stored without its retry count. *)
ReaderWriteDropsRetries(s) ==
  LET m == reader[s].msg IN
  /\ reader[s].pc = "write" /\ ReaderSucceeds(s)
  /\ CASE m.kind = "accept" -> MarkStarted(m.task)
       [] m.kind = "reject" -> UpdateStatus(m.task, "FAILED", 0)
       [] OTHER -> UpdateStatus(m.task, m.kind, 0)
  /\ reader' = [reader EXCEPT ![s].pc =
                  IF StatusOf(m) \in Terminal THEN "finish" ELSE "notify"]
  /\ UNCHANGED <<disp, cancel, linkVars, queue, up, agent, pushed>>

(* The first write: no look at the status the row has by now. *)
ReaderWrite(s) ==
  LET m == reader[s].msg IN
  /\ reader[s].pc = "write"
  /\ \/ /\ ReaderSucceeds(s)
        /\ CASE m.kind = "accept" -> MarkStarted(m.task)
             [] m.kind = "reject" -> UpdateStatus(m.task, "FAILED", 0)
             [] OTHER -> UpdateStatus(m.task, m.kind, m.retries)
        /\ reader' = [reader EXCEPT ![s].pc =
                        IF StatusOf(m) \in Terminal THEN "finish" ELSE "notify"]
     \/ /\ ReaderFails(s) /\ UNCHANGED row
        /\ reader' = [reader EXCEPT ![s] = Idle]
  /\ UNCHANGED <<disp, cancel, linkVars, queue, up, agent, pushed>>

(* Mutant: a handler that stored a terminal status returns at once. *)
ReaderFinishSilent(s) ==
  /\ reader[s].pc = "finish" /\ ReaderSucceeds(s)
  /\ MarkFinished(reader[s].msg.task, StatusOf(reader[s].msg))
  /\ reader' = [reader EXCEPT ![s] = Idle]
  /\ UNCHANGED <<disp, cancel, linkVars, queue, up, agent, pushed>>

(* The finish time of a terminal status: for a rejected task an error is   *)
(* only logged, for a result it ends the handler without a notification.   *)
ReaderFinish(s) ==
  LET m == reader[s].msg IN
  /\ reader[s].pc = "finish"
  /\ \/ /\ ReaderSucceeds(s) /\ MarkFinished(m.task, StatusOf(m))
        /\ reader' = [reader EXCEPT ![s].pc = "notify"]
     \/ /\ ReaderFails(s) /\ UNCHANGED row
        /\ reader' = [reader EXCEPT ![s] =
                        IF m.kind = "reject" THEN [@ EXCEPT !.pc = "notify"] ELSE Idle]
  /\ UNCHANGED <<disp, cancel, linkVars, queue, up, agent, pushed>>

(* Mutant: Publish waits for a user who reads one status change per task. *)
ReaderNotifyBlocks(s) ==
  /\ reader[s].pc = "notify" /\ pushed[reader[s].msg.task] = "PENDING"
  /\ Push(reader[s].msg.task, StatusOf(reader[s].msg))
  /\ reader' = [reader EXCEPT ![s] = Idle]
  /\ UNCHANGED <<row, disp, cancel, linkVars, queue, up, agent>>

(* The user is told the status the message stands for. *)
ReaderNotify(s) ==
  /\ reader[s].pc = "notify"
  /\ Push(reader[s].msg.task, StatusOf(reader[s].msg))
  /\ reader' = [reader EXCEPT ![s] = Idle]
  /\ UNCHANGED <<row, disp, cancel, linkVars, queue, up, agent>>

-----------------------------------------------------------------------------
(* Connections, as AgentLink allows: what the old one had queued, and what *)
(* it had not read, is lost; the message it is handling is not.            *)
ForgetCurrent ==
  /\ queue' = [s \in Sessions |-> IF s = cur THEN <<>> ELSE queue[s]]
  /\ up' = [s \in Sessions |-> IF s = cur THEN <<>> ELSE up[s]]

Attach(s) ==
  /\ s \notin spent /\ (cur # NoSession => Drops)
  /\ ForgetCurrent
  /\ cur' = s /\ spent' = spent \cup {s}
  /\ UNCHANGED <<row, disp, cancel, reader, gone, agent, pushed>>

Detach ==
  /\ Drops /\ cur # NoSession
  /\ ForgetCurrent
  /\ cur' = NoSession
  /\ UNCHANGED <<row, disp, cancel, reader, spent, gone, agent, pushed>>

(* HandleAgentWS of a connection that is no longer current returns. *)
HandlerReturns(s) ==
  /\ s \in spent \ (gone \cup {cur})
  /\ gone' = gone \cup {s}
  /\ UNCHANGED <<row, disp, cancel, reader, cur, spent, queue, up, agent, pushed>>

(* The process dies and starts again: only the table and the agent remain, *)
(* and nothing looks for tasks that were pending.                          *)
Crash ==
  /\ Crashes
  /\ disp' = [td \in DOMAIN disp |-> IF disp[td] = "none" THEN "none" ELSE "ended"]
  /\ cancel' = [c \in Cancels |->
                  IF cancel[c] = Idle THEN Idle ELSE [cancel[c] EXCEPT !.pc = "done"]]
  /\ reader' = [s \in Sessions |-> Idle]
  /\ cur' = NoSession /\ gone' = spent
  /\ queue' = [s \in Sessions |-> <<>>]
  /\ up' = [s \in Sessions |-> <<>>]
  /\ UNCHANGED <<row, spent, agent, pushed>>

-----------------------------------------------------------------------------
(* External: the agent.  It takes what writeLoop sends in order, answers a *)
(* task with an acknowledgement and then results, may retry, and drops a   *)
(* task it is told to cancel.                                              *)
Receive ==
  LET m == Head(queue[cur])
      a == agent[m.task] IN
  /\ cur # NoSession /\ queue[cur] # <<>>
  /\ queue' = [queue EXCEPT ![cur] = Tail(@)]
  /\ agent' = [agent EXCEPT ![m.task] =
                 IF m.type = "task"
                   THEN [a EXCEPT !.state = "got", !.copies = a.copies + 1]
                   ELSE IF a.state = "none" THEN a ELSE [a EXCEPT !.state = "over"]]
  /\ UNCHANGED <<row, disp, cancel, reader, linkVars, up, pushed>>

Report(t, kind, state, retries) ==
  /\ cur # NoSession
  /\ up' = [up EXCEPT ![cur] =
              Append(@, [task |-> t, kind |-> kind, retries |-> retries])]
  /\ agent' = [agent EXCEPT ![t].state = state, ![t].retries = retries]
  /\ UNCHANGED <<row, disp, cancel, reader, linkVars, queue, pushed>>

AgentAnswers(t) ==
  LET a == agent[t] IN
  \/ /\ a.state = "got"
     /\ \/ Report(t, "accept", "working", a.retries)
        \/ Report(t, "reject", "over", a.retries)
  \/ /\ a.state = "working"
     /\ \/ Report(t, "SUCCESS", "over", a.retries)
        \/ Report(t, "FAILED", "over", a.retries)
        \/ a.retries < MaxRetry /\ Report(t, "RETRYING", "retrying", a.retries + 1)
  \/ /\ a.state = "retrying"
     /\ Report(t, "RUNNING", "working", a.retries)

-----------------------------------------------------------------------------
CreateStep(t) == CreateTask(t) \/ NotifyCreated(t)
DispatchStep(t, d) == DispatchRead(t, d) \/ DispatchSend(t, d) \/ DispatchMark(t, d)
CancelStep(c) ==
  CancelMark(c) \/ CancelFinish(c) \/ CancelControl(c) \/ CancelNotify(c)
ReaderStep(s) ==
  ReaderTake(s) \/ ReaderWrite(s) \/ ReaderFinish(s) \/ ReaderNotify(s)

Next ==
  \/ \E t \in Tasks : CreateStep(t) \/ AgentAnswers(t)
  \/ \E t \in Tasks, d \in Dispatchers : DispatchStep(t, d)
  \/ \E c \in Cancels : CancelStep(c) \/ \E t \in Tasks : CancelRead(c, t)
  \/ \E s \in Sessions : ReaderStep(s) \/ Attach(s) \/ HandlerReturns(s)
  \/ Detach \/ Crash \/ Receive

Spec == Init /\ [][Next]_vars

(* Goroutines run, the writer writes, and the agent works on what it has.  *)
Fairness ==
  /\ \A t \in Tasks : WF_vars(NotifyCreated(t)) /\ WF_vars(AgentAnswers(t))
  /\ \A t \in Tasks, d \in Dispatchers : WF_vars(DispatchStep(t, d))
  /\ \A c \in Cancels : WF_vars(CancelStep(c))
  /\ \A s \in Sessions : WF_vars(ReaderStep(s)) /\ WF_vars(HandlerReturns(s))
  /\ WF_vars(Receive)

FairSpec == Spec /\ Fairness
-----------------------------------------------------------------------------
(* No handler of task t is between two of its steps, and no message about  *)
(* it is on its way to the server.                                         *)
Quiet(t) ==
  /\ \A d \in Dispatchers : disp[<<t, d>>] \in {"none", "ended"}
  /\ \A c \in Cancels : cancel[c] # Idle /\ cancel[c].task = t => cancel[c].pc = "done"
  /\ \A s \in Sessions :
       /\ reader[s] # Idle => reader[s].msg.task # t
       /\ \A i \in DOMAIN up[s] : up[s][i].task # t

(* Copies of task t that are queued for the agent on some connection. *)
Queued(t) ==
  {si \in Sessions \X (1..QueueCap) :
     /\ si[2] <= Len(queue[si[1]])
     /\ queue[si[1]][si[2]] = [type |-> "task", task |-> t]}

(* Calls of DispatchTask for t that got to their send, or ended before it. *)
Made(t) == {d \in Dispatchers : disp[<<t, d>>] \in {"sent", "ended"}}

(* Every call of DispatchTask hands the agent at most one copy of its task *)
(* over all connections and crashes, also when the call fails, or the      *)
(* process dies, after the send and before MarkDispatched.  CreateTask     *)
(* makes one call.                                                         *)
OneCopyPerCall ==
  \A t \in Tasks : agent[t].copies + Cardinality(Queued(t)) <= Cardinality(Made(t))

(* A task that has been dispatched is not dispatched again: DispatchTask   *)
(* refuses it (taskmanager_test.go:258-270 expects an error of the second  *)
(* of two calls).                                                          *)
DispatchedOnce ==
  [][\A t \in Tasks, d \in Dispatchers :
       row[t].dispatched /\ disp[<<t, d>>] = "ready"
         => disp'[<<t, d>>] # "checked"]_vars

(* What a status with a retry count says of a task has come to pass: the   *)
(* agent has answered it, has ended it, has retried it that often.         *)
Happened(t, status, retries) ==
  /\ status \in {"RUNNING", "RETRYING", "SUCCESS", "FAILED"} =>
       agent[t].state \notin {"none", "got"}
  /\ status \in {"SUCCESS", "FAILED"} => agent[t].state = "over"
  /\ retries <= agent[t].retries

(* The server invents nothing: neither the row of a task nor what its user *)
(* was last told is ahead of the agent, whatever connections, statements   *)
(* or processes fail while messages and cancels are being handled.         *)
NothingInvented ==
  \A t \in Tasks : /\ Happened(t, row[t].status, row[t].retries)
                   /\ Happened(t, pushed[t], 0)

(* A task that has come to rest in a terminal status carries the time it   *)
(* finished.                                                               *)
TerminalIsStamped ==
  \A t \in Tasks : Quiet(t) /\ row[t].status \in Terminal => row[t].finished

(* When the agent is finished with a task nobody cancels and everything it *)
(* said has been handled, the row says how the task ended and how often it *)
(* was retried.                                                            *)
ResultRecorded ==
  \A t \in Undisturbed : agent[t].state = "over" /\ Quiet(t) =>
    row[t].status \in Terminal /\ row[t].retries = agent[t].retries

(* At rest, the last status pushed to the user is the status of the row    *)
(* (README.md:136: task status changes are pushed in real time).           *)
PushedIsCurrent ==
  \A t \in Undisturbed : Quiet(t) => pushed[t] = row[t].status

(* How far along the life of a task a status with a retry count is.        *)
Stage(r) ==
  CASE r.status = "NONE"     -> 0
    [] r.status = "PENDING"  -> 1
    [] r.status = "RETRYING" -> 2 * r.retries + 2
    [] r.status = "RUNNING"  -> 2 * r.retries + 3
    [] OTHER                 -> 2 * MaxRetry + 4

(* Whatever fails, a row moves forwards through the statuses and retries,  *)
(* unless CANCELLED is written or overwritten, or a read loop is still     *)
(* handling a message about the task from a connection that is no longer   *)
(* current: no other handler writes what the row has already left behind.  *)
RowsAdvance ==
  [][\A t \in Tasks :
       \/ row'[t].status = row[t].status /\ row'[t].retries = row[t].retries
       \/ Stage(row[t]) < Stage(row'[t])
       \/ "CANCELLED" \in {row[t].status, row'[t].status}
       \/ \E s \in Sessions \ {cur} : reader[s] # Idle /\ reader[s].msg.task = t]_vars

(* A terminal status is final: status.go's canTransition leaves none, and  *)
(* taskmanager_test.go:384 expects SUCCESS to stay.                        *)
TerminalIsFinal ==
  [][\A t \in Tasks : row[t].status \in Terminal => row'[t].status = row[t].status]_vars

(* The rows follow the state machine of status.go. *)
FollowsMachine == Machine!Spec

(* A task that is queued for a connected agent and that nobody cancels     *)
(* ends: while the connection holds, every acknowledgement and result gets *)
(* through the send queue, the agent and the read loop to the row.         *)
QueuedTaskEnds ==
  \A t \in Undisturbed : Queued(t) # {} ~> row[t].status \in Terminal
=============================================================================
