------------------------- MODULE TaskLifecycleProofs -------------------------
(***************************************************************************)
(* Proofs about TaskLifecycle for any number of tasks, connections,        *)
(* requests and dispatchers, any queue capacity and retry bound, and       *)
(* whatever may fail: the types, that no progress is shown of a task the   *)
(* agent was never given, that the agent gets no more copies of a task     *)
(* than DispatchTask was called for it, at most one if it was called once, *)
(* and that nothing is stored in a table without updated_at.  Then, for    *)
(* any number of tasks and retries but while nothing fails: that the rows  *)
(* follow the state machine of status.go, and what the user finds in them. *)
(* Then, again with every failure and one dispatcher: that a row only      *)
(* moves forwards, and what takes one back; and that nothing is ahead of   *)
(* what the agent has done.  Last, that the connections are AgentLink's.   *)
(***************************************************************************)
EXTENDS TaskLifecycle, FunctionTheorems, FiniteSetTheorems, TLAPS

RowType == [status : Machine!Statuses \cup {"NONE"}, retries : 0..MaxRetry,
            dispatched : BOOLEAN, started : BOOLEAN, finished : BOOLEAN]
CancelType == {Idle} \cup [pc : {"mark", "finish", "control", "notify", "done"},
                           task : Tasks, retries : 0..MaxRetry]
ReaderType == {Idle} \cup [pc : {"write", "finish", "notify"}, msg : Up]
AgentType == [state : {"none", "got", "working", "retrying", "over"},
              copies : Nat, retries : 0..MaxRetry]

(* TypeOK by what each group of actions disturbs. *)
RowOK    == row \in [Tasks -> RowType]
DispOK   == disp \in [Tasks \X Dispatchers ->
                        {"none", "created", "ready", "checked", "sent", "ended"}]
CancelOK == cancel \in [Cancels -> CancelType]
ReaderOK == reader \in [Sessions -> ReaderType]
LinkOK   == /\ cur \in Sessions \cup {NoSession}
            /\ gone \subseteq spent /\ spent \subseteq Sessions
QueueOK  == /\ queue \in [Sessions -> Seq(Down)]
            /\ \A s \in Sessions : Len(queue[s]) <= QueueCap
UpOK     == up \in [Sessions -> Seq(Up)]
AgentOK  == agent \in [Tasks -> AgentType]
PushedOK == pushed \in [Tasks -> Machine!Statuses \cup {"NONE"}]

Types == /\ RowOK /\ DispOK /\ CancelOK /\ ReaderOK /\ LinkOK
         /\ QueueOK /\ UpOK /\ AgentOK /\ PushedOK

LEMMA TypesAreTypeOK == Types <=> TypeOK
  BY DEF Types, TypeOK, RowOK, DispOK, CancelOK, ReaderOK, LinkOK, QueueOK, UpOK,
     AgentOK, PushedOK, RowType, CancelType, ReaderType, AgentType

LEMMA TypesInitial == Init => Types
  BY TaskAssumption DEF Init, Types, RowOK, DispOK, CancelOK, ReaderOK, LinkOK,
     QueueOK, UpOK, AgentOK, PushedOK, RowType, CancelType, ReaderType, AgentType

(* TaskRepo keeps the type of the table. *)
LEMMA RowWritten ==
  ASSUME RowOK, NEW t \in Tasks,
         \/ \E st \in Machine!Statuses, n \in 0..MaxRetry : UpdateStatus(t, st, n)
         \/ MarkDispatched(t) \/ MarkStarted(t)
         \/ \E st \in Machine!Statuses : MarkFinished(t, st)
  PROVE  RowOK'
<1> USE DEF RowOK, RowType
<1>1. ASSUME NEW st \in Machine!Statuses, NEW n \in 0..MaxRetry, UpdateStatus(t, st, n)
      PROVE  RowOK'
    BY <1>1 DEF UpdateStatus
<1>2. CASE MarkDispatched(t)
    BY <1>2 DEF MarkDispatched
<1>3. CASE MarkStarted(t)
    BY <1>3, ZenonT(30) DEF MarkStarted, Machine!Statuses
<1>4. ASSUME NEW st \in Machine!Statuses, MarkFinished(t, st)
      PROVE  RowOK'
    BY <1>4, ZenonT(30) DEF MarkFinished
<1>5. QED
    BY <1>1, <1>2, <1>3, <1>4

(* A message enters a queue only while there is room. *)
LEMMA QueueSent ==
  ASSUME QueueOK, LinkOK, NEW m \in Down, CanSend, Send(m)
  PROVE  QueueOK'
<1>1. cur \in Sessions /\ Len(queue[cur]) < QueueCap /\ queue[cur] \in Seq(Down)
    BY DEF CanSend, LinkOK, QueueOK
<1>2. Append(queue[cur], m) \in Seq(Down) /\ Len(Append(queue[cur], m)) <= QueueCap
    BY <1>1, TaskAssumption
<1>3. QED
    BY <1>1, <1>2 DEF Send, QueueOK

(* Losing a connection empties its two queues. *)
LEMMA CurrentForgotten ==
  ASSUME QueueOK, UpOK, ForgetCurrent
  PROVE  QueueOK' /\ UpOK'
  BY TaskAssumption DEF QueueOK, UpOK, ForgetCurrent

LEMMA CreateKeepsTypes ==
  ASSUME Types, NEW t \in Tasks, CreateTask(t) \/ NotifyCreated(t)
  PROVE  Types'
<1> USE DEF Types
<1>1. CASE CreateTask(t)
    BY <1>1, ZenonT(30) DEF CreateTask, RowOK, RowType, DispOK, CancelOK, ReaderOK, LinkOK,
       QueueOK, UpOK, AgentOK, PushedOK, linkVars, Machine!Statuses
<1>2. CASE NotifyCreated(t)
    BY <1>2 DEF NotifyCreated, Push, RowOK, DispOK, CancelOK, ReaderOK, LinkOK,
       QueueOK, UpOK, AgentOK, PushedOK, linkVars, Machine!Statuses
<1>3. QED
    BY <1>1, <1>2

LEMMA DispatchKeepsTypes ==
  ASSUME Types, NEW t \in Tasks, NEW d \in Dispatchers, DispatchStep(t, d)
  PROVE  Types'
<1> USE DEF Types
<1>1. CASE DispatchRead(t, d)
    BY <1>1 DEF DispatchRead, GetByID, RowOK, DispOK, CancelOK, ReaderOK, LinkOK,
       QueueOK, UpOK, AgentOK, PushedOK, linkVars
<1>2. CASE DispatchSend(t, d)
  <2>1. [type |-> "task", task |-> t] \in Down
      BY DEF Down
  <2>2. QueueOK'
      BY <1>2, <2>1, QueueSent DEF DispatchSend, QueueOK
  <2>3. QED
      BY <1>2, <2>2 DEF DispatchSend, RowOK, DispOK, CancelOK, ReaderOK, LinkOK,
         UpOK, AgentOK, PushedOK, linkVars
<1>3. CASE DispatchMark(t, d)
  <2>1. RowOK'
      BY <1>3, RowWritten DEF DispatchMark, RowOK
  <2>2. QED
      BY <1>3, <2>1 DEF DispatchMark, DispOK, CancelOK, ReaderOK, LinkOK,
         QueueOK, UpOK, AgentOK, PushedOK, linkVars
<1>4. QED
    BY <1>1, <1>2, <1>3 DEF DispatchStep

LEMMA CancelKeepsTypes ==
  ASSUME Types, NEW c \in Cancels, CancelStep(c) \/ \E t \in Tasks : CancelRead(c, t)
  PROVE  Types'
<1> USE DEF Types
<1>1. ASSUME NEW t \in Tasks, CancelRead(c, t) PROVE Types'
    BY <1>1 DEF CancelRead, GetByID, RowOK, RowType, DispOK, CancelOK, CancelType, ReaderOK, LinkOK,
       QueueOK, UpOK, AgentOK, PushedOK, linkVars
<1>2. ASSUME CancelStep(c)
      PROVE  /\ cancel[c].task \in Tasks /\ cancel[c].retries \in 0..MaxRetry
             /\ CancelOK' /\ UNCHANGED <<disp, reader, linkVars, up, agent>>
    BY <1>2 DEF CancelStep, CancelMark, CancelFinish, CancelControl, CancelNotify,
       CancelOK, CancelType, Idle
<1>3. ASSUME CancelMark(c) \/ CancelFinish(c) PROVE RowOK' /\ UNCHANGED <<queue, pushed>>
  <2>1. cancel[c].task \in Tasks /\ cancel[c].retries \in 0..MaxRetry
      BY <1>2, <1>3 DEF CancelStep
  <2>2. "CANCELLED" \in Machine!Statuses
      BY DEF Machine!Statuses, Machine!Terminal
  <2>3. QED
      BY <1>3, <2>1, <2>2, RowWritten DEF CancelMark, CancelFinish, RowOK
<1>4. ASSUME CancelControl(c) PROVE QueueOK' /\ UNCHANGED <<row, pushed>>
  <2>1. [type |-> "cancel", task |-> cancel[c].task] \in Down
      BY <1>2, <1>4 DEF CancelStep, Down
  <2>2. QED
      BY <1>4, <2>1, QueueSent DEF CancelControl, QueueOK
<1>5. ASSUME CancelNotify(c) PROVE PushedOK' /\ UNCHANGED <<row, queue>>
    BY <1>2, <1>5 DEF CancelStep, CancelNotify, Push, PushedOK, Machine!Statuses,
       Machine!Terminal
<1>6. QED
    BY <1>1, <1>2, <1>3, <1>4, <1>5 DEF CancelStep, DispOK, ReaderOK, LinkOK,
       UpOK, AgentOK, QueueOK, RowOK, PushedOK, linkVars

(* What a message says of a task is a status of the table. *)
LEMMA StatusOfType == \A m \in Up : StatusOf(m) \in Machine!Statuses
  BY DEF StatusOf, Up, Machine!Statuses, Machine!Terminal

LEMMA ReaderKeepsTypes ==
  ASSUME Types, NEW s \in Sessions, ReaderStep(s)
  PROVE  Types'
<1> USE DEF Types
<1>1. CASE ReaderTake(s)
  <2>1. /\ up[s] \in Seq(Up) /\ up[s] # <<>>
      BY <1>1 DEF ReaderTake, UpOK
  <2>2. Head(up[s]) \in Up /\ Tail(up[s]) \in Seq(Up)
      BY <2>1
  <2>3. ReaderOK' /\ UpOK'
      BY <1>1, <2>2 DEF ReaderTake, ReaderOK, ReaderType, UpOK
  <2>4. QED
      BY <1>1, <2>3 DEF ReaderTake, RowOK, DispOK, CancelOK, LinkOK, QueueOK, AgentOK,
         PushedOK, linkVars
<1>2. ASSUME ReaderWrite(s) \/ ReaderFinish(s) \/ ReaderNotify(s)
      PROVE  /\ reader[s].msg \in Up /\ ReaderOK'
             /\ UNCHANGED <<disp, cancel, linkVars, queue, up, agent>>
    BY <1>2 DEF ReaderWrite, ReaderFinish, ReaderNotify, ReaderOK, ReaderType, Idle
<1>3. ASSUME ReaderWrite(s) PROVE RowOK' /\ UNCHANGED pushed
  <2> DEFINE m == reader[s].msg
  <2>1. m \in Up
      BY <1>2, <1>3
  <2>2. m.task \in Tasks /\ m.retries \in 0..MaxRetry /\ 0 \in 0..MaxRetry
      BY <2>1, TaskAssumption DEF Up
  <2>3. CASE UNCHANGED row
      BY <1>3, <2>3 DEF ReaderWrite, RowOK
  <2>4. CASE m.kind = "accept" /\ MarkStarted(m.task)
      BY <1>3, <2>2, <2>4, RowWritten DEF ReaderWrite
  <2>5. CASE m.kind = "reject" /\ UpdateStatus(m.task, "FAILED", 0)
      BY <1>3, <2>2, <2>5, RowWritten DEF ReaderWrite, Machine!Statuses, Machine!Terminal
  <2>6. CASE m.kind \notin {"accept", "reject"} /\ UpdateStatus(m.task, m.kind, m.retries)
    <3>1. m.kind \in Machine!Statuses
        BY <2>1, <2>6 DEF Up, Machine!Statuses, Machine!Terminal
    <3>2. QED
        BY <1>3, <2>2, <2>6, <3>1, RowWritten DEF ReaderWrite
  <2>7. QED
      BY <1>3, <2>3, <2>4, <2>5, <2>6 DEF ReaderWrite
<1>4. ASSUME ReaderFinish(s) PROVE RowOK' /\ UNCHANGED pushed
  <2>1. reader[s].msg \in Up /\ reader[s].msg.task \in Tasks
      BY <1>2, <1>4 DEF Up
  <2>2. StatusOf(reader[s].msg) \in Machine!Statuses
      BY <2>1, StatusOfType
  <2>3. QED
      BY <1>4, <2>1, <2>2, RowWritten DEF ReaderFinish, RowOK
<1>5. ASSUME ReaderNotify(s) PROVE PushedOK' /\ UNCHANGED row
  <2>1. StatusOf(reader[s].msg) \in Machine!Statuses
      BY <1>2, <1>5, StatusOfType
  <2>2. QED
      BY <1>5, <2>1 DEF ReaderNotify, Push, PushedOK
<1>6. QED
    BY <1>1, <1>2, <1>3, <1>4, <1>5 DEF ReaderStep, RowOK, DispOK, CancelOK, LinkOK,
       QueueOK, UpOK, AgentOK, PushedOK, linkVars

LEMMA ConnectionKeepsTypes ==
  ASSUME Types, Detach \/ Crash \/ \E s \in Sessions : Attach(s) \/ HandlerReturns(s)
  PROVE  Types'
<1> USE DEF Types
<1>1. ASSUME NEW s \in Sessions, Attach(s) PROVE Types'
    BY <1>1, CurrentForgotten DEF Attach, RowOK, DispOK, CancelOK, ReaderOK, LinkOK,
       AgentOK, PushedOK
<1>2. CASE Detach
    BY <1>2, CurrentForgotten DEF Detach, RowOK, DispOK, CancelOK, ReaderOK, LinkOK,
       AgentOK, PushedOK
<1>3. ASSUME NEW s \in Sessions, HandlerReturns(s) PROVE Types'
    BY <1>3 DEF HandlerReturns, RowOK, DispOK, CancelOK, ReaderOK, LinkOK, QueueOK,
       UpOK, AgentOK, PushedOK
<1>4. CASE Crash
  <2>1. DispOK' /\ ReaderOK' /\ LinkOK'
      BY <1>4 DEF Crash, DispOK, ReaderOK, ReaderType, LinkOK
  <2>2. QueueOK' /\ UpOK'
      BY <1>4, TaskAssumption DEF Crash, QueueOK, UpOK
  <2>3. CancelOK'
      BY <1>4 DEF Crash, CancelOK, CancelType, Idle
  <2>4. QED
      BY <1>4, <2>1, <2>2, <2>3 DEF Crash, RowOK, AgentOK, PushedOK
<1>5. QED
    BY <1>1, <1>2, <1>3, <1>4

LEMMA AgentKeepsTypes ==
  ASSUME Types, Receive \/ \E t \in Tasks : AgentAnswers(t)
  PROVE  Types'
<1> USE DEF Types
<1>1. CASE Receive
  <2>1. cur \in Sessions /\ queue[cur] \in Seq(Down) /\ queue[cur] # <<>>
      BY <1>1 DEF Receive, LinkOK, QueueOK
  <2>2. /\ Head(queue[cur]) \in Down /\ Tail(queue[cur]) \in Seq(Down)
        /\ Len(Tail(queue[cur])) <= Len(queue[cur])
      BY <2>1
  <2>3. QueueOK'
      BY <1>1, <2>1, <2>2, TaskAssumption DEF Receive, QueueOK
  <2>4. AgentOK'
    <3> DEFINE m == Head(queue[cur])
               a == agent[m.task]
    <3>1. m.task \in Tasks /\ a \in AgentType
        BY <2>2 DEF Down, AgentOK
    <3>2. [a EXCEPT !.state = "got", !.copies = a.copies + 1] \in AgentType
      <4>1. a.copies + 1 \in Nat
          BY <3>1 DEF AgentType
      <4>2. QED
          BY <3>1, <4>1 DEF AgentType
    <3>3. [a EXCEPT !.state = "over"] \in AgentType
        BY <3>1, SMTT(20) DEF AgentType
    <3>4. \/ agent' = [agent EXCEPT ![m.task] = [a EXCEPT !.state = "got", !.copies = a.copies + 1]]
          \/ agent' = [agent EXCEPT ![m.task] = a]
          \/ agent' = [agent EXCEPT ![m.task] = [a EXCEPT !.state = "over"]]
        BY <1>1, <3>1 DEF Receive
    <3>5. QED
        BY <3>1, <3>2, <3>3, <3>4 DEF AgentOK
  <2>5. QED
      BY <1>1, <2>3, <2>4 DEF Receive, RowOK, DispOK, CancelOK, ReaderOK, LinkOK, UpOK,
         PushedOK, linkVars
<1>2. ASSUME NEW t \in Tasks, NEW kind, NEW state, NEW n \in 0..MaxRetry,
             kind \in {"accept", "reject", "RETRYING", "RUNNING", "SUCCESS", "FAILED"},
             state \in {"working", "retrying", "over"}, Report(t, kind, state, n)
      PROVE  Types'
  <2>1. cur \in Sessions /\ up[cur] \in Seq(Up)
      BY <1>2 DEF Report, LinkOK, UpOK
  <2>2. Append(up[cur], [task |-> t, kind |-> kind, retries |-> n]) \in Seq(Up)
      BY <1>2, <2>1 DEF Up
  <2>3. UpOK' /\ AgentOK'
      BY <1>2, <2>2 DEF Report, UpOK, AgentOK, AgentType
  <2>4. QED
      BY <1>2, <2>3 DEF Report, RowOK, DispOK, CancelOK, ReaderOK, LinkOK, QueueOK,
         PushedOK, linkVars
<1>3. ASSUME NEW t \in Tasks, AgentAnswers(t) PROVE Types'
  <2>1. agent[t].retries \in 0..MaxRetry
      BY DEF AgentOK, AgentType
  <2>2. agent[t].retries < MaxRetry => agent[t].retries + 1 \in 0..MaxRetry
      BY <2>1, TaskAssumption
  <2>3. QED
      BY <1>2, <1>3, <2>1, <2>2 DEF AgentAnswers
<1>4. QED
    BY <1>1, <1>3

LEMMA TypesStep == Types /\ [Next]_vars => Types'
<1> SUFFICES ASSUME Types, [Next]_vars PROVE Types'
    OBVIOUS
<1>1. CASE UNCHANGED vars
    BY <1>1 DEF vars, linkVars, Types, RowOK, DispOK, CancelOK, ReaderOK, LinkOK, QueueOK,
       UpOK, AgentOK, PushedOK
<1>2. CASE Next
    BY <1>2, CreateKeepsTypes, DispatchKeepsTypes, CancelKeepsTypes, ReaderKeepsTypes,
       ConnectionKeepsTypes, AgentKeepsTypes DEF Next, CreateStep
<1>3. QED
    BY <1>1, <1>2

(* Every variable keeps its type, and no send queue exceeds its capacity.  *)
THEOREM TypeCorrect == Spec => []TypeOK
<1>1. Spec => []Types
    BY TypesInitial, TypesStep, PTL DEF Spec
<1>2. QED
    BY <1>1, TypesAreTypeOK, PTL

-----------------------------------------------------------------------------
(* Why no progress is shown of a task the agent was never given: whatever  *)
(* speaks of the task's progress (the agent's own state, its messages on   *)
(* the way, the message a read loop is handling, the row) comes after the  *)
(* delivery of a copy, and the number of copies never goes down.           *)
Given(t) == agent[t].copies > 0

AgentHasCopy   == \A t \in Tasks : agent[t].state # "none" => Given(t)
MessagesGiven  == \A s \in Sessions : \A i \in 1..Len(up[s]) : Given(up[s][i].task)
HandledGiven   == \A s \in Sessions : reader[s] # Idle => Given(reader[s].msg.task)
(* The server never shows progress on a task the agent was never given:    *)
(* only CANCELLED can follow PENDING without a delivery.                   *)
ProgressNeedsDelivery == \A t \in Tasks :
  row[t].status \notin {"NONE", "PENDING", "CANCELLED"} => Given(t)
DeliveryInv == /\ Types /\ AgentHasCopy /\ MessagesGiven /\ HandledGiven
               /\ ProgressNeedsDelivery

LEMMA DeliveryInitial == Init => DeliveryInv
  BY TypesInitial DEF Init, DeliveryInv, AgentHasCopy, MessagesGiven, HandledGiven,
     ProgressNeedsDelivery

(* The server's own steps on a row: they show progress only where the row  *)
(* shows it already.                                                       *)
LEMMA RowShowsNothingNew ==
  ASSUME DeliveryInv, UNCHANGED <<reader, up, agent>>,
         \A t \in Tasks : row'[t].status \in {"NONE", "PENDING", "CANCELLED", row[t].status}
  PROVE  AgentHasCopy' /\ MessagesGiven' /\ HandledGiven' /\ ProgressNeedsDelivery'
  BY DEF DeliveryInv, AgentHasCopy, MessagesGiven, HandledGiven, ProgressNeedsDelivery, Given

LEMMA TasksOfMessages ==
  ASSUME UpOK
  PROVE  \A s \in Sessions : \A i \in 1..Len(up[s]) : up[s][i].task \in Tasks
<1> TAKE s \in Sessions
<1>1. up[s] \in Seq(Up)
    BY DEF UpOK
<1> TAKE i \in 1..Len(up[s])
<1>2. up[s][i] \in Up
    BY <1>1
<1>3. QED
    BY <1>2 DEF Up

LEMMA ServerStepsDeliver ==
  ASSUME DeliveryInv,
         \/ \E t \in Tasks : CreateStep(t)
         \/ \E t \in Tasks, d \in Dispatchers : DispatchStep(t, d)
         \/ \E c \in Cancels : CancelStep(c) \/ \E t \in Tasks : CancelRead(c, t)
  PROVE  AgentHasCopy' /\ MessagesGiven' /\ HandledGiven' /\ ProgressNeedsDelivery'
<1>1. UNCHANGED <<reader, up, agent>>
    BY DEF CreateStep, CreateTask, NotifyCreated, DispatchStep, DispatchRead, GetByID, DispatchSend,
       DispatchMark, CancelStep, CancelRead, CancelMark, CancelFinish, CancelControl,
       CancelNotify
<1>2. RowOK
    BY DEF DeliveryInv, Types
<1>3. \/ UNCHANGED row
      \/ \E t \in Tasks : CreateTask(t) \/ MarkDispatched(t)
      \/ \E c \in Cancels : CancelMark(c) \/ CancelFinish(c)
    BY DEF CreateStep, NotifyCreated, DispatchStep, DispatchRead, GetByID, DispatchSend,
       DispatchMark, CancelStep, CancelRead, CancelControl, CancelNotify
<1>4. \A t \in Tasks : row'[t].status \in {"NONE", "PENDING", "CANCELLED", row[t].status}
  <2>1. ASSUME NEW t \in Tasks, CreateTask(t) \/ MarkDispatched(t)
        PROVE  \A u \in Tasks : row'[u].status \in {"PENDING", row[u].status}
      BY <1>2, <2>1 DEF CreateTask, MarkDispatched, RowOK, RowType
  <2>2. ASSUME NEW c \in Cancels, CancelMark(c) \/ CancelFinish(c)
        PROVE  \A u \in Tasks : row'[u].status \in {"CANCELLED", row[u].status}
      BY <1>2, <2>2 DEF CancelMark, CancelFinish, UpdateStatus, MarkFinished, RowOK, RowType
  <2>3. QED
      BY <1>3, <2>1, <2>2
<1>5. QED
    BY <1>1, <1>4, RowShowsNothingNew

LEMMA ReaderStepsDeliver ==
  ASSUME DeliveryInv, NEW s \in Sessions, ReaderStep(s)
  PROVE  AgentHasCopy' /\ MessagesGiven' /\ HandledGiven' /\ ProgressNeedsDelivery'
<1> USE DEF DeliveryInv
<1>1. CASE ReaderTake(s)
  <2>1. up[s] \in Seq(Up) /\ up[s] # <<>>
      BY <1>1 DEF ReaderTake, Types, UpOK
  <2>2. /\ Given(Head(up[s]).task)
        /\ \A i \in 1..Len(Tail(up[s])) : Given(Tail(up[s])[i].task)
      BY <2>1 DEF MessagesGiven
  <2>3. HandledGiven'
      BY <1>1, <2>2 DEF ReaderTake, HandledGiven, Given, Types, ReaderOK, ReaderType, Idle
  <2>4. MessagesGiven'
      BY <1>1, <2>2 DEF ReaderTake, MessagesGiven, Given, Types, UpOK
  <2>5. QED
      BY <1>1, <2>3, <2>4 DEF ReaderTake, AgentHasCopy, ProgressNeedsDelivery, Given
<1>2. ASSUME ReaderWrite(s) \/ ReaderFinish(s) \/ ReaderNotify(s)
      PROVE  /\ Given(reader[s].msg.task) /\ reader[s].msg.task \in Tasks
             /\ UNCHANGED <<up, agent>> /\ HandledGiven'
    BY <1>2 DEF ReaderWrite, ReaderFinish, ReaderNotify, HandledGiven, Given, Types,
       ReaderOK, ReaderType, Up, Idle
<1>3. ASSUME ReaderWrite(s) \/ ReaderFinish(s) \/ ReaderNotify(s)
      PROVE  \A t \in Tasks : t # reader[s].msg.task => row'[t] = row[t]
    BY <1>2, <1>3, ZenonT(30) DEF ReaderWrite, ReaderFinish, ReaderNotify, UpdateStatus, MarkStarted,
       MarkFinished, Types, RowOK
<1>4. ASSUME ReaderWrite(s) \/ ReaderFinish(s) \/ ReaderNotify(s)
      PROVE  AgentHasCopy' /\ MessagesGiven' /\ HandledGiven' /\ ProgressNeedsDelivery'
    BY <1>2, <1>3, <1>4 DEF AgentHasCopy, MessagesGiven, ProgressNeedsDelivery, Given
<1>5. QED
    BY <1>1, <1>4 DEF ReaderStep

LEMMA ConnectionStepsDeliver ==
  ASSUME DeliveryInv, Detach \/ Crash \/ \E s \in Sessions : Attach(s) \/ HandlerReturns(s)
  PROVE  AgentHasCopy' /\ MessagesGiven' /\ HandledGiven' /\ ProgressNeedsDelivery'
<1>1. UNCHANGED <<row, agent>>
    BY DEF Detach, Crash, Attach, HandlerReturns
<1>2. \A s \in Sessions : up'[s] = up[s] \/ up'[s] = <<>>
    BY DEF Detach, Crash, Attach, HandlerReturns, ForgetCurrent, DeliveryInv, Types, UpOK
<1>3. \A s \in Sessions : reader'[s] = reader[s] \/ reader'[s] = Idle
    BY DEF Detach, Crash, Attach, HandlerReturns
<1>4. MessagesGiven'
    BY <1>1, <1>2 DEF DeliveryInv, MessagesGiven, Given
<1>5. QED
    BY <1>1, <1>3, <1>4 DEF DeliveryInv, AgentHasCopy, HandledGiven, ProgressNeedsDelivery,
       Given

LEMMA AgentStepsDeliver ==
  ASSUME DeliveryInv, Receive \/ \E t \in Tasks : AgentAnswers(t)
  PROVE  AgentHasCopy' /\ MessagesGiven' /\ HandledGiven' /\ ProgressNeedsDelivery'
<1> USE DEF DeliveryInv
<1>1. CASE Receive
  <2> DEFINE m == Head(queue[cur])
             a == agent[m.task]
  <2>1. cur \in Sessions /\ queue[cur] \in Seq(Down) /\ queue[cur] # <<>>
      BY <1>1 DEF Receive, Types, LinkOK, QueueOK
  <2>2. m \in Down
      BY <2>1
  <2>9. m.task \in Tasks /\ a \in AgentType
      BY <2>2, SMTT(20) DEF Down, Types, AgentOK
  <2>3. \/ agent' = [agent EXCEPT ![m.task] =
                       [a EXCEPT !.state = "got", !.copies = a.copies + 1]]
        \/ agent' = agent
        \/ a.state # "none" /\ agent' = [agent EXCEPT ![m.task] = [a EXCEPT !.state = "over"]]
      BY <1>1, <2>9 DEF Receive, Types, AgentOK
  <2>4. \A t \in Tasks : /\ Given(t) => Given(t)'
                         /\ agent'[t].state # "none" => Given(t)'
    <3>1. agent \in [Tasks -> AgentType] /\ a.copies \in Nat
        BY <2>9 DEF Types, AgentOK, AgentType
    <3>2. a.copies + 1 > 0
        BY <3>1
    <3>3. CASE agent' = [agent EXCEPT ![m.task] =
                           [a EXCEPT !.state = "got", !.copies = a.copies + 1]]
        BY <2>9, <3>1, <3>2, <3>3 DEF Given, AgentHasCopy, AgentType
    <3>4. CASE agent' = agent
        BY <3>4 DEF Given, AgentHasCopy
    <3>5. CASE /\ a.state # "none"
               /\ agent' = [agent EXCEPT ![m.task] = [a EXCEPT !.state = "over"]]
        BY <2>9, <3>1, <3>5 DEF Given, AgentHasCopy, AgentType
    <3>6. QED
        BY <2>3, <3>3, <3>4, <3>5
  <2>5. UNCHANGED <<row, reader, up>>
      BY <1>1 DEF Receive
  <2>6. MessagesGiven'
      BY <2>4, <2>5, TasksOfMessages DEF MessagesGiven, Types
  <2>7. HandledGiven'
      BY <2>4, <2>5 DEF HandledGiven, Types, ReaderOK, ReaderType, Up
  <2>8. QED
      BY <2>4, <2>5, <2>6, <2>7 DEF AgentHasCopy, ProgressNeedsDelivery, Given
<1>2. ASSUME NEW t \in Tasks, NEW kind, NEW state, NEW n, agent[t].state # "none",
             Report(t, kind, state, n)
      PROVE  AgentHasCopy' /\ MessagesGiven' /\ HandledGiven' /\ ProgressNeedsDelivery'
  <2>1. Given(t) /\ cur \in Sessions /\ up[cur] \in Seq(Up)
      BY <1>2 DEF Report, AgentHasCopy, Types, LinkOK, UpOK
  <2>2. \A u \in Tasks : agent'[u].copies = agent[u].copies
      BY <1>2 DEF Report, Types, AgentOK, AgentType
  <2>3. \A u \in Tasks : Given(u) <=> Given(u)'
      BY <2>2 DEF Given
  <2>4. \A s \in Sessions : \A i \in 1..Len(up'[s]) :
          up'[s][i].task = t \/ (i \in 1..Len(up[s]) /\ up'[s][i] = up[s][i])
      BY <1>2, <2>1 DEF Report, Types, UpOK
  <2>5. MessagesGiven'
      BY <2>1, <2>3, <2>4, TasksOfMessages DEF MessagesGiven, Types
  <2>6. HandledGiven'
      BY <1>2, <2>3 DEF Report, HandledGiven, Types, ReaderOK, ReaderType, Up
  <2>7. AgentHasCopy'
      BY <1>2, <2>1, <2>3 DEF Report, AgentHasCopy, Types, AgentOK
  <2>8. QED
      BY <1>2, <2>3, <2>5, <2>6, <2>7 DEF Report, ProgressNeedsDelivery
<1>3. ASSUME NEW t \in Tasks, AgentAnswers(t)
      PROVE  AgentHasCopy' /\ MessagesGiven' /\ HandledGiven' /\ ProgressNeedsDelivery'
    BY <1>2, <1>3 DEF AgentAnswers
<1>4. QED
    BY <1>1, <1>3

LEMMA DeliveryStep == DeliveryInv /\ [Next]_vars => DeliveryInv'
<1> SUFFICES ASSUME DeliveryInv, [Next]_vars PROVE DeliveryInv'
    OBVIOUS
<1>1. Types'
    BY TypesStep DEF DeliveryInv
<1>2. CASE UNCHANGED vars
    BY <1>1, <1>2 DEF vars, linkVars, DeliveryInv, AgentHasCopy, MessagesGiven, HandledGiven,
       ProgressNeedsDelivery, Given
<1>3. CASE Next
    BY <1>1, <1>3, ServerStepsDeliver, ReaderStepsDeliver, ConnectionStepsDeliver,
       AgentStepsDeliver DEF Next, DeliveryInv
<1>4. QED
    BY <1>2, <1>3

(* With any number of connections, lost and reordered messages, crashes    *)
(* and failed writes: only CANCELLED can follow PENDING in the row of a    *)
(* task of which the agent got no copy.                                    *)
THEOREM ProgressNeedsDeliveryAlways == Spec => []ProgressNeedsDelivery
<1>1. DeliveryInv => ProgressNeedsDelivery
    BY DEF DeliveryInv
<1>2. QED
    BY <1>1, DeliveryInitial, DeliveryStep, PTL DEF Spec

-----------------------------------------------------------------------------
(* Why a task is printed at most once, when one goroutine dispatches it:   *)
(* as long as the goroutine has not passed its only send no copy is in a   *)
(* queue or at the agent, afterwards at most one queue place holds one,    *)
(* and none once the agent has it.  A copy leaves its queue by delivery or *)
(* with its connection; nothing sends it again.                            *)
OneDispatcher == \E d : Dispatchers = {d}

Before == {"none", "created", "ready", "checked"}
Holds(t, s, i) ==
  i \in 1..Len(queue[s]) /\ queue[s][i] = [type |-> "task", task |-> t]
Nowhere(t) == \A s \in Sessions, i \in Nat : ~Holds(t, s, i)

UnknownIsIdle == \A t \in Tasks, d \in Dispatchers :
  row[t].status = "NONE" => disp[<<t, d>>] = "none"
UnsentNowhere == \A t \in Tasks, d \in Dispatchers :
  disp[<<t, d>>] \in Before => agent[t].copies = 0 /\ Nowhere(t)
GivenOnce     == \A t \in Tasks :
  agent[t].copies = 0 \/ (agent[t].copies = 1 /\ Nowhere(t))
QueuedOnce    == \A t \in Tasks, s1, s2 \in Sessions, i1, i2 \in Nat :
  Holds(t, s1, i1) /\ Holds(t, s2, i2) => s1 = s2 /\ i1 = i2
CopyInv == UnknownIsIdle /\ UnsentNowhere /\ GivenOnce /\ QueuedOnce

LEMMA CopyInitial == Init => CopyInv
<1> SUFFICES ASSUME Init PROVE CopyInv
    OBVIOUS
<1>1. \A t \in Tasks : Nowhere(t)
    BY DEF Init, Nowhere, Holds
<1>2. \A t \in Tasks : agent[t].copies = 0
    BY DEF Init
<1>3. UnknownIsIdle
    BY DEF Init, UnknownIsIdle
<1>4. QED
    BY <1>1, <1>2, <1>3 DEF CopyInv, UnsentNowhere, GivenOnce, QueuedOnce, Nowhere

(* A dispatcher moves only for a task whose row exists, and no row goes.   *)
LEMMA UnknownStaysIdle ==
  ASSUME Types, UnknownIsIdle, Next
  PROVE  UnknownIsIdle'
<1> USE DEF Types, RowOK, RowType, DispOK
<1>1. ASSUME NEW t \in Tasks, CreateTask(t) PROVE UnknownIsIdle'
  <2>1. row'[t].status = "PENDING" /\ \A u \in Tasks \ {t} : row'[u] = row[u]
      BY <1>1 DEF CreateTask
  <2>2. \A u \in Tasks \ {t}, d \in Dispatchers : disp'[<<u, d>>] = disp[<<u, d>>]
      BY <1>1 DEF CreateTask
  <2>3. QED
      BY <2>1, <2>2 DEF UnknownIsIdle
<1>2. ASSUME \A t \in Tasks : row'[t].status = "NONE" => row[t].status = "NONE",
             \A t \in Tasks, d \in Dispatchers :
               disp'[<<t, d>>] # disp[<<t, d>>] =>
                 \E e \in Dispatchers : disp[<<t, e>>] # "none"
      PROVE  UnknownIsIdle'
    BY <1>2, ZenonT(30) DEF UnknownIsIdle
<1>3. ASSUME NEW t \in Tasks, NotifyCreated(t) PROVE UnknownIsIdle'
  <2>1. UNCHANGED row /\ \E e \in Dispatchers : disp[<<t, e>>] # "none"
      BY <1>3 DEF NotifyCreated
  <2>2. \A u \in Tasks \ {t}, d \in Dispatchers : disp'[<<u, d>>] = disp[<<u, d>>]
      BY <1>3 DEF NotifyCreated
  <2>3. QED
      BY <1>2, <2>1, <2>2
<1>4. ASSUME NEW t \in Tasks, NEW d \in Dispatchers, DispatchStep(t, d)
      PROVE  UnknownIsIdle'
  <2>1. disp[<<t, d>>] # "none"
      BY <1>4 DEF DispatchStep, DispatchRead, DispatchSend, DispatchMark
  <2>2. \A u \in Tasks, e \in Dispatchers :
          <<u, e>> # <<t, d>> => disp'[<<u, e>>] = disp[<<u, e>>]
      BY <1>4 DEF DispatchStep, DispatchRead, DispatchSend, DispatchMark
  <2>3. \A u \in Tasks : row'[u].status = row[u].status
      BY <1>4 DEF DispatchStep, DispatchRead, DispatchSend, DispatchMark, MarkDispatched
  <2>4. QED
      BY <1>2, <2>1, <2>2, <2>3
<1>5. ASSUME NEW c \in Cancels, CancelStep(c) \/ \E t \in Tasks : CancelRead(c, t)
      PROVE  UnknownIsIdle'
  <2>1. \A u \in Tasks : row'[u].status \in {"CANCELLED", row[u].status}
      BY <1>5 DEF CancelStep, CancelRead, CancelMark, CancelFinish, CancelControl,
         CancelNotify, UpdateStatus, MarkFinished
  <2>2. UNCHANGED disp
      BY <1>5 DEF CancelStep, CancelRead, CancelMark, CancelFinish, CancelControl, CancelNotify
  <2>3. QED
      BY <1>2, <2>1, <2>2
<1>6. ASSUME NEW s \in Sessions, ReaderStep(s) PROVE UnknownIsIdle'
  <2>1. UNCHANGED disp
      BY <1>6 DEF ReaderStep, ReaderTake, ReaderWrite, ReaderFinish, ReaderNotify
  <2>2. reader[s] # Idle => StatusOf(reader[s].msg) # "NONE"
      BY StatusOfType DEF ReaderOK, ReaderType, Machine!Statuses, Machine!Terminal
  <2>3. CASE ReaderTake(s) \/ ReaderNotify(s)
      BY <1>2, <2>1, <2>3 DEF ReaderTake, ReaderNotify
  <2>4. CASE ReaderWrite(s)
    <3>1. reader[s] # Idle
        BY <2>4 DEF ReaderWrite, Idle
    <3>2. \A u \in Tasks : row'[u].status \in {row[u].status, StatusOf(reader[s].msg)}
      <4>1. CASE UNCHANGED row
          BY <4>1
      <4>2. CASE reader[s].msg.kind = "accept" /\ MarkStarted(reader[s].msg.task)
          BY <4>2 DEF MarkStarted, StatusOf
      <4>3. CASE /\ reader[s].msg.kind = "reject"
                 /\ UpdateStatus(reader[s].msg.task, "FAILED", 0)
          BY <4>3, SMTT(20) DEF UpdateStatus, StatusOf
      <4>4. CASE /\ reader[s].msg.kind \notin {"accept", "reject"}
                 /\ UpdateStatus(reader[s].msg.task, reader[s].msg.kind,
                                 reader[s].msg.retries)
          BY <4>4 DEF UpdateStatus, StatusOf
      <4>5. QED
          BY <2>4, <4>1, <4>2, <4>3, <4>4 DEF ReaderWrite
    <3>3. QED
        BY <1>2, <2>1, <2>2, <3>1, <3>2
  <2>5. CASE ReaderFinish(s)
    <3>1. reader[s] # Idle
        BY <2>5 DEF ReaderFinish, Idle
    <3>2. \A u \in Tasks : row'[u].status \in {row[u].status, StatusOf(reader[s].msg)}
        BY <2>5, SMTT(20) DEF ReaderFinish, MarkFinished
    <3>3. QED
        BY <1>2, <2>1, <2>2, <3>1, <3>2
  <2>6. QED
      BY <1>6, <2>3, <2>4, <2>5 DEF ReaderStep
<1>7. CASE Crash
    BY <1>7 DEF Crash, UnknownIsIdle
<1>8. ASSUME UNCHANGED <<row, disp>> PROVE UnknownIsIdle'
    BY <1>8 DEF UnknownIsIdle
<1>9. ASSUME Detach \/ Receive \/ (\E t \in Tasks : AgentAnswers(t))
               \/ \E s \in Sessions : Attach(s) \/ HandlerReturns(s)
      PROVE  UNCHANGED <<row, disp>>
    BY <1>9, ZenonT(30) DEF Detach, Receive, AgentAnswers, Report, Attach, HandlerReturns
<1>10. QED
    BY <1>1, <1>3, <1>4, <1>5, <1>6, <1>7, <1>8, <1>9 DEF Next, CreateStep

(* A step that puts no copy into a queue and gives none to the agent.      *)
LEMMA NothingSent ==
  ASSUME CopyInv, UnknownIsIdle',
         \A t \in Tasks, s \in Sessions, i \in Nat : Holds(t, s, i)' => Holds(t, s, i),
         \A t \in Tasks : agent'[t].copies = agent[t].copies,
         \A t \in Tasks, d \in Dispatchers :
           disp'[<<t, d>>] \in Before => \E e \in Dispatchers : disp[<<t, e>>] \in Before
  PROVE  CopyInv'
<1>1. \A t \in Tasks : Nowhere(t) => Nowhere(t)'
    BY DEF Nowhere
<1>2. UnsentNowhere' /\ GivenOnce'
    BY <1>1 DEF CopyInv, UnsentNowhere, GivenOnce
<1>3. QueuedOnce'
    BY DEF CopyInv, QueuedOnce
<1>4. QED
    BY <1>2, <1>3 DEF CopyInv

(* Where a sent message goes. *)
LEMMA SentPlace ==
  ASSUME QueueOK, CanSend, LinkOK, NEW m \in Down, Send(m),
         NEW t \in Tasks, NEW s \in Sessions, NEW i \in Nat, Holds(t, s, i)'
  PROVE  \/ Holds(t, s, i)
         \/ /\ s = cur /\ i = Len(queue[cur]) + 1
            /\ m = [type |-> "task", task |-> t]
<1>1. cur \in Sessions /\ queue[cur] \in Seq(Down)
    BY DEF CanSend, LinkOK, QueueOK
<1>2. CASE s = cur
  <2>1. queue'[s] = Append(queue[s], m)
      BY <1>1, <1>2 DEF Send, QueueOK
  <2>2. QED
      BY <1>1, <1>2, <2>1 DEF Holds
<1>3. CASE s # cur
    BY <1>3 DEF Send, QueueOK, Holds
<1>4. QED
    BY <1>2, <1>3

(* No dispatcher returns to before its send. *)
LEMMA NothingReturns ==
  ASSUME Types, UnknownIsIdle, Next, NEW t \in Tasks, NEW d \in Dispatchers,
         disp'[<<t, d>>] \in Before
  PROVE  \E e \in Dispatchers : disp[<<t, e>>] \in Before
<1> USE DEF Types, DispOK, Before
<1>1. ASSUME NEW u \in Tasks, CreateStep(u)
      PROVE  \E e \in Dispatchers : disp[<<t, e>>] \in Before
    BY <1>1 DEF CreateStep, CreateTask, NotifyCreated, UnknownIsIdle
<1>2. ASSUME NEW u \in Tasks, NEW e \in Dispatchers, DispatchStep(u, e)
      PROVE  disp[<<t, d>>] \in Before
    BY <1>2 DEF DispatchStep, DispatchRead, DispatchSend, DispatchMark
<1>3. CASE Crash
    BY <1>3 DEF Crash
<1>4. CASE UNCHANGED disp
    BY <1>4
<1>5. CASE \E c \in Cancels : CancelStep(c) \/ \E u \in Tasks : CancelRead(c, u)
    BY <1>4, <1>5 DEF CancelStep, CancelRead, CancelMark, CancelFinish, CancelControl,
       CancelNotify
<1>6. CASE \E s \in Sessions : ReaderStep(s) \/ Attach(s) \/ HandlerReturns(s)
    BY <1>4, <1>6, SMTT(20) DEF ReaderStep, ReaderTake, ReaderWrite, ReaderFinish, ReaderNotify,
       Attach, HandlerReturns
<1>7. CASE Detach \/ Receive \/ \E u \in Tasks : AgentAnswers(u)
    BY <1>4, <1>7, ZenonT(30) DEF Detach, Receive, AgentAnswers, Report
<1>8. QED
    BY <1>1, <1>2, <1>3, <1>5, <1>6, <1>7 DEF Next

(* Only the agent's receipt of a copy changes how many it has. *)
LEMMA CopiesStay ==
  ASSUME Types, Next, ~Receive, NEW t \in Tasks
  PROVE  agent'[t].copies = agent[t].copies
<1>1. ASSUME NEW u \in Tasks, AgentAnswers(u) PROVE agent'[t].copies = agent[t].copies
  <2>1. PICK kind, state, n : Report(u, kind, state, n)
      BY <1>1 DEF AgentAnswers
  <2>2. agent' = [agent EXCEPT ![u].state = state, ![u].retries = n]
      BY <2>1 DEF Report
  <2>3. QED
      BY <2>2 DEF Types, AgentOK, AgentType
<1>2. ASSUME \A u \in Tasks : ~AgentAnswers(u) PROVE UNCHANGED agent
    BY <1>2 DEF Next, CreateStep, CreateTask, NotifyCreated, DispatchStep, DispatchRead,
       DispatchSend, DispatchMark, CancelStep, CancelRead, CancelMark, CancelFinish,
       CancelControl, CancelNotify, ReaderStep, ReaderTake, ReaderWrite, ReaderFinish,
       ReaderNotify, Attach, HandlerReturns, Detach, Crash
<1>3. QED
    BY <1>1, <1>2

(* Only DispatchSend puts a copy into a queue, and only at the current end. *)
LEMMA NoCopyAppears ==
  ASSUME Types, Next, ~Receive,
         NEW t \in Tasks, NEW s \in Sessions, NEW i \in Nat, Holds(t, s, i)'
  PROVE  \/ Holds(t, s, i)
         \/ /\ \E d \in Dispatchers : DispatchSend(t, d)
            /\ s = cur /\ i = Len(queue[cur]) + 1
<1> USE DEF Types
<1>1. CASE UNCHANGED queue
    BY <1>1 DEF Holds
<1>2. ASSUME NEW u \in Tasks, NEW d \in Dispatchers, DispatchSend(u, d), ~UNCHANGED queue
      PROVE  Holds(t, s, i) \/ (u = t /\ s = cur /\ i = Len(queue[cur]) + 1)
  <2>1. CanSend /\ Send([type |-> "task", task |-> u])
      BY <1>2 DEF DispatchSend
  <2>2. [type |-> "task", task |-> u] \in Down
      BY DEF Down
  <2>3. QED
      BY <2>1, <2>2, SentPlace
<1>3. ASSUME NEW c \in Cancels, CancelControl(c), ~UNCHANGED queue PROVE Holds(t, s, i)
  <2>1. CanSend /\ Send([type |-> "cancel", task |-> cancel[c].task])
      BY <1>3 DEF CancelControl
  <2>2. [type |-> "cancel", task |-> cancel[c].task] \in Down
      BY <1>3 DEF CancelControl, CancelOK, CancelType, Idle, Down
  <2>3. [type |-> "cancel", task |-> cancel[c].task] # [type |-> "task", task |-> t]
      OBVIOUS
  <2>4. QED
      BY <2>1, <2>2, <2>3, SentPlace
<1>4. CASE Detach \/ Crash \/ \E u \in Sessions : Attach(u)
  <2>1. queue'[s] = queue[s] \/ queue'[s] = <<>>
      BY <1>4 DEF Detach, Crash, Attach, ForgetCurrent
  <2>2. QED
      BY <2>1 DEF Holds
<1>5. CASE \E u \in Tasks : CreateStep(u) \/ AgentAnswers(u)
    BY <1>1, <1>5 DEF CreateStep, CreateTask, NotifyCreated, AgentAnswers, Report
<1>6. ASSUME NEW u \in Tasks, NEW d \in Dispatchers, DispatchRead(u, d) \/ DispatchMark(u, d)
      PROVE  UNCHANGED queue
    BY <1>6 DEF DispatchRead, DispatchMark
<1>7. ASSUME NEW c \in Cancels,
             \/ CancelMark(c) \/ CancelFinish(c) \/ CancelNotify(c)
             \/ \E u \in Tasks : CancelRead(c, u)
      PROVE  UNCHANGED queue
    BY <1>7 DEF CancelMark, CancelFinish, CancelNotify, CancelRead
<1>8. ASSUME NEW u \in Sessions, ReaderStep(u) \/ HandlerReturns(u) PROVE UNCHANGED queue
    BY <1>8 DEF ReaderStep, ReaderTake, ReaderWrite, ReaderFinish, ReaderNotify, HandlerReturns
<1>9. QED
    BY <1>1, <1>2, <1>3, <1>4, <1>5, <1>6, <1>7, <1>8 DEF Next, DispatchStep, CancelStep

LEMMA SendKeepsCopies ==
  ASSUME Types, CopyInv, OneDispatcher, UnknownIsIdle', Next, ~Receive,
         NEW t \in Tasks, NEW d \in Dispatchers, DispatchSend(t, d)
  PROVE  CopyInv'
<1>1. disp[<<t, d>>] = "checked" /\ disp'[<<t, d>>] \in {"sent", "ended"}
    BY DEF DispatchSend, Types, DispOK
<1>2. agent[t].copies = 0 /\ Nowhere(t)
    BY <1>1 DEF CopyInv, UnsentNowhere, Before
<1>3. \A u \in Tasks : agent'[u].copies = agent[u].copies
    BY CopiesStay
<1>4. ASSUME NEW u \in Tasks, u # t, NEW s \in Sessions, NEW i \in Nat, Holds(u, s, i)'
      PROVE  Holds(u, s, i)
  <2>1. \A v \in Tasks, e \in Dispatchers : DispatchSend(v, e) => v = t
    <3> SUFFICES ASSUME NEW v \in Tasks, NEW e \in Dispatchers, DispatchSend(v, e), v # t
                 PROVE  FALSE
        OBVIOUS
    <3>1. disp'[<<v, e>>] \in {"sent", "ended"} /\ disp[<<v, e>>] = "checked"
        BY DEF DispatchSend, Types, DispOK
    <3>2. disp'[<<v, e>>] = disp[<<v, e>>]
        BY DEF DispatchSend, Types, DispOK
    <3>3. QED
        BY <3>1, <3>2
  <2>2. QED
      BY <1>4, <2>1, NoCopyAppears
<1>5. UnsentNowhere'
  <2> SUFFICES ASSUME NEW u \in Tasks, NEW e \in Dispatchers, disp'[<<u, e>>] \in Before
               PROVE  agent'[u].copies = 0 /\ Nowhere(u)'
      BY DEF UnsentNowhere
  <2>1. u # t
      BY <1>1 DEF OneDispatcher, Before
  <2>2. \E f \in Dispatchers : disp[<<u, f>>] \in Before
      BY NothingReturns DEF CopyInv
  <2>3. agent[u].copies = 0 /\ Nowhere(u)
      BY <2>2 DEF CopyInv, UnsentNowhere
  <2>4. QED
      BY <1>3, <1>4, <2>1, <2>3 DEF Nowhere
<1>6. GivenOnce'
    BY <1>2, <1>3, <1>4 DEF CopyInv, GivenOnce, Nowhere
<1>7. QueuedOnce'
  <2> SUFFICES ASSUME NEW u \in Tasks, NEW s1 \in Sessions, NEW s2 \in Sessions,
                      NEW i1 \in Nat, NEW i2 \in Nat, Holds(u, s1, i1)', Holds(u, s2, i2)'
               PROVE  s1 = s2 /\ i1 = i2
      BY DEF QueuedOnce
  <2>1. CASE u = t
      BY <1>2, <2>1, NoCopyAppears DEF Nowhere
  <2>2. CASE u # t
      BY <1>4, <2>2 DEF CopyInv, QueuedOnce
  <2>3. QED
      BY <2>1, <2>2
<1>8. QED
    BY <1>5, <1>6, <1>7 DEF CopyInv

LEMMA ReceiveKeepsCopies ==
  ASSUME Types, CopyInv, UnknownIsIdle', Receive
  PROVE  CopyInv'
<1>1. cur \in Sessions /\ queue[cur] \in Seq(Down) /\ queue[cur] # <<>>
    BY DEF Receive, Types, LinkOK, QueueOK
<1>2. PICK m \in Down : m = Head(queue[cur])
    BY <1>1
<1>3. m.task \in Tasks /\ m.type \in {"task", "cancel"}
    BY <1>2 DEF Down
<1>4. /\ UNCHANGED disp
      /\ queue' = [queue EXCEPT ![cur] = Tail(@)]
    BY DEF Receive
<1>5. ASSUME NEW t \in Tasks, NEW s \in Sessions, NEW i \in Nat, Holds(t, s, i)'
      PROVE  IF s = cur THEN i + 1 \in Nat /\ Holds(t, s, i + 1) ELSE Holds(t, s, i)
  <2>1. CASE s = cur
    <3>1. queue'[s] = Tail(queue[s])
        BY <1>1, <1>4, <2>1 DEF Types, QueueOK
    <3>2. i \in 1..Len(Tail(queue[s])) /\ Tail(queue[s])[i] = [type |-> "task", task |-> t]
        BY <1>5, <3>1 DEF Holds
    <3>3. i + 1 \in 1..Len(queue[s]) /\ queue[s][i + 1] = Tail(queue[s])[i]
        BY <1>1, <2>1, <3>2
    <3>4. QED
        BY <2>1, <3>2, <3>3 DEF Holds
  <2>2. CASE s # cur
      BY <1>4, <1>5, <2>2 DEF Holds, Types, QueueOK
  <2>3. QED
      BY <2>1, <2>2
<1>6. \A t \in Tasks : Nowhere(t) => Nowhere(t)'
    BY <1>5 DEF Nowhere
<1>7. QueuedOnce'
  <2> SUFFICES ASSUME NEW t \in Tasks, NEW s1 \in Sessions, NEW s2 \in Sessions,
                      NEW i1 \in Nat, NEW i2 \in Nat, Holds(t, s1, i1)', Holds(t, s2, i2)'
               PROVE  s1 = s2 /\ i1 = i2
      BY DEF QueuedOnce
  <2>1. PICK j1 \in Nat : Holds(t, s1, j1) /\ (IF s1 = cur THEN j1 = i1 + 1 ELSE j1 = i1)
      BY <1>5
  <2>2. PICK j2 \in Nat : Holds(t, s2, j2) /\ (IF s2 = cur THEN j2 = i2 + 1 ELSE j2 = i2)
      BY <1>5
  <2>3. s1 = s2 /\ j1 = j2
      BY <2>1, <2>2 DEF CopyInv, QueuedOnce
  <2>4. QED
      BY <2>1, <2>2, <2>3
<1>8. CASE m.type = "cancel"
  <2>1. \A t \in Tasks : agent'[t].copies = agent[t].copies
      BY <1>2, <1>3, <1>8 DEF Receive, Types, AgentOK, AgentType
  <2>2. QED
      BY <1>4, <1>6, <1>7, <2>1 DEF CopyInv, UnsentNowhere, GivenOnce
<1>9. CASE m.type = "task"
  <2>1. Holds(m.task, cur, 1)
    <3>1. m = [type |-> "task", task |-> m.task]
        BY <1>2, <1>9 DEF Down
    <3>2. QED
        BY <1>1, <1>2, <3>1 DEF Holds
  <2>2. /\ agent[m.task].copies = 0
        /\ \A d \in Dispatchers : disp[<<m.task, d>>] \notin Before
      BY <1>1, <1>3, <2>1 DEF CopyInv, UnsentNowhere, GivenOnce, Nowhere
  <2>3. Nowhere(m.task)'
    <3> SUFFICES ASSUME NEW s \in Sessions, NEW i \in Nat, Holds(m.task, s, i)' PROVE FALSE
        BY <1>3 DEF Nowhere
    <3>1. PICK j \in Nat : /\ Holds(m.task, s, j)
                           /\ IF s = cur THEN j = i + 1 ELSE j = i
        BY <1>3, <1>5
    <3>2. s = cur /\ j = 1
        BY <1>1, <1>3, <2>1, <3>1 DEF CopyInv, QueuedOnce
    <3>3. i = 0
        BY <3>1, <3>2
    <3>4. i # 0
        BY DEF Holds
    <3>5. QED
        BY <3>3, <3>4
  <2>4. /\ agent'[m.task].copies = 1
        /\ \A t \in Tasks \ {m.task} : agent'[t].copies = agent[t].copies
    <3>1. agent' = [agent EXCEPT ![m.task] =
                      [agent[m.task] EXCEPT !.state = "got", !.copies = agent[m.task].copies + 1]]
        BY <1>2, <1>9 DEF Receive
    <3>2. QED
        BY <1>3, <2>2, <3>1 DEF Types, AgentOK, AgentType
  <2>5. QED
      BY <1>4, <1>6, <1>7, <2>2, <2>3, <2>4 DEF CopyInv, UnsentNowhere, GivenOnce
<1>10. QED
    BY <1>3, <1>8, <1>9

LEMMA CopyStep ==
  ASSUME OneDispatcher
  PROVE  Types /\ CopyInv /\ [Next]_vars => CopyInv'
<1> SUFFICES ASSUME Types, CopyInv, [Next]_vars PROVE CopyInv'
    OBVIOUS
<1>1. CASE UNCHANGED vars
    BY <1>1 DEF vars, CopyInv, UnknownIsIdle, UnsentNowhere, GivenOnce, QueuedOnce, Nowhere,
       Holds
<1>2. CASE Next
  <2>1. UnknownIsIdle'
      BY <1>2, UnknownStaysIdle DEF CopyInv
  <2>2. CASE Receive
      BY <2>1, <2>2, ReceiveKeepsCopies
  <2>3. ASSUME ~Receive, NEW t \in Tasks, NEW d \in Dispatchers, DispatchSend(t, d)
        PROVE  CopyInv'
      BY <1>2, <2>1, <2>3, SendKeepsCopies
  <2>4. ASSUME ~Receive, \A t \in Tasks, d \in Dispatchers : ~DispatchSend(t, d)
        PROVE  CopyInv'
    <3>1. \A t \in Tasks, s \in Sessions, i \in Nat : Holds(t, s, i)' => Holds(t, s, i)
        BY <1>2, <2>4, NoCopyAppears
    <3>2. \A t \in Tasks : agent'[t].copies = agent[t].copies
        BY <1>2, <2>4, CopiesStay
    <3>3. \A t \in Tasks, d \in Dispatchers :
            disp'[<<t, d>>] \in Before => \E e \in Dispatchers : disp[<<t, e>>] \in Before
        BY <1>2, NothingReturns DEF CopyInv
    <3>4. QED
        BY <2>1, <3>1, <3>2, <3>3, NothingSent
  <2>5. QED
      BY <2>2, <2>3, <2>4
<1>3. QED
    BY <1>1, <1>2

(* Over all connections, crashes and failures the agent is handed at most  *)
(* one copy of a task.                                                     *)
AtMostOneCopy ==
  \A t \in Tasks : agent[t].copies + Cardinality(Queued(t)) <= 1

(* The count AtMostOneCopy speaks of, from the places of a copy. *)
LEMMA CopyCount == Types /\ CopyInv => AtMostOneCopy
<1> SUFFICES ASSUME Types, CopyInv, NEW t \in Tasks
             PROVE  agent[t].copies + Cardinality(Queued(t)) <= 1
    BY DEF AtMostOneCopy
<1>1. \A x \in Queued(t) :
        /\ x = <<x[1], x[2]>> /\ x[1] \in Sessions /\ x[2] \in Nat
        /\ Holds(t, x[1], x[2])
    BY TaskAssumption DEF Queued, Holds, Types, QueueOK
<1>2. CASE Queued(t) = {}
  <2>1. Cardinality(Queued(t)) = 0
      BY <1>2, FS_EmptySet
  <2>2. QED
      BY <2>1 DEF CopyInv, GivenOnce
<1>3. CASE Queued(t) # {}
  <2>1. PICK x : x \in Queued(t)
      BY <1>3
  <2>2. \A y \in Queued(t) : y = x
      BY <1>1, <2>1 DEF CopyInv, QueuedOnce
  <2>3. Queued(t) = {x}
      BY <2>1, <2>2
  <2>4. Cardinality(Queued(t)) = 1
      BY <2>3, FS_Singleton
  <2>5. agent[t].copies = 0
      BY <1>1, <2>1 DEF CopyInv, GivenOnce, Nowhere
  <2>6. QED
      BY <2>4, <2>5
<1>4. QED
    BY <1>2, <1>3

(* A task is printed at most once, whatever is lost, replaced, restarted   *)
(* or refused, as long as one call of DispatchTask is made for it.         *)
THEOREM PrintedOnce ==
  ASSUME OneDispatcher
  PROVE  Spec => []AtMostOneCopy
<1>1. Types /\ CopyInv /\ [Next]_vars => CopyInv'
    BY CopyStep
<1>2. QED
    BY <1>1, TypesInitial, TypesStep, CopyInitial, CopyCount, PTL DEF Spec

-----------------------------------------------------------------------------
(* The same for any number of calls: each sends at most one copy.  All     *)
(* calls of a task are made when it exists and not before.                 *)
CreatedTogether == \A t \in Tasks, d, e \in Dispatchers :
  disp[<<t, d>>] = "created" => disp[<<t, e>>] = "created"
CallInv == UnknownIsIdle /\ CreatedTogether /\ OneCopyPerCall

FiniteCalls == IsFiniteSet(Sessions) /\ IsFiniteSet(Dispatchers)

LEMMA CountsAreFinite ==
  ASSUME FiniteCalls, NEW t \in Tasks
  PROVE  /\ IsFiniteSet(Queued(t)) /\ Cardinality(Queued(t)) \in Nat
         /\ IsFiniteSet(Queued(t))' /\ Cardinality(Queued(t))' \in Nat
         /\ IsFiniteSet(Made(t)) /\ Cardinality(Made(t)) \in Nat
         /\ IsFiniteSet(Made(t))' /\ Cardinality(Made(t))' \in Nat
<1>1. IsFiniteSet(Sessions \X (1..QueueCap))
  <2>1. 1 \in Int /\ QueueCap \in Int
      BY TaskAssumption
  <2>2. IsFiniteSet(1..QueueCap)
      BY <2>1, FS_Interval
  <2>3. QED
      BY <2>2, FS_Product DEF FiniteCalls
<1>2. /\ Queued(t) \in SUBSET (Sessions \X (1..QueueCap))
      /\ Queued(t)' \in SUBSET (Sessions \X (1..QueueCap))
    BY DEF Queued
<1>3. Made(t) \in SUBSET Dispatchers /\ Made(t)' \in SUBSET Dispatchers
    BY DEF Made
<1>4. IsFiniteSet(Queued(t)) /\ IsFiniteSet(Queued(t))'
    BY <1>1, <1>2, FS_Subset
<1>5. IsFiniteSet(Made(t)) /\ IsFiniteSet(Made(t))'
    BY <1>3, FS_Subset DEF FiniteCalls
<1>6. QED
    BY <1>4, <1>5, FS_CardinalityType

(* The places that hold a copy are those that Queued collects. *)
LEMMA QueuedHolds ==
  ASSUME Types, Types', NEW t \in Tasks, NEW x
  PROVE  /\ x \in Queued(t) <=>
              x \in Sessions \X Nat /\ Holds(t, x[1], x[2])
         /\ x \in Queued(t)' <=>
              x \in Sessions \X Nat /\ Holds(t, x[1], x[2])'
<1>1. \A s \in Sessions : Len(queue[s]) \in Nat /\ Len(queue[s]) <= QueueCap
    BY DEF Types, QueueOK
<1>2. \A s \in Sessions : Len(queue'[s]) \in Nat /\ Len(queue'[s]) <= QueueCap
    BY DEF Types, QueueOK
<1>3. x \in Queued(t) <=> x \in Sessions \X Nat /\ Holds(t, x[1], x[2])
    BY <1>1, TaskAssumption DEF Queued, Holds
<1>4. x \in Queued(t)' <=> x \in Sessions \X Nat /\ Holds(t, x[1], x[2])'
    BY <1>2, TaskAssumption DEF Queued, Holds
<1>5. QED
    BY <1>3, <1>4

(* A call that is past its send stays there. *)
LEMMA MadeGrows ==
  ASSUME Types, UnknownIsIdle, CreatedTogether, Next, NEW t \in Tasks
  PROVE  Made(t) \subseteq Made(t)' /\ CreatedTogether'
<1> USE DEF Types, DispOK
<1>1. ASSUME NEW u \in Tasks, CreateTask(u) PROVE Made(t) \subseteq Made(t)' /\ CreatedTogether'
  <2>1. \A d \in Dispatchers : disp[<<u, d>>] = "none" /\ disp'[<<u, d>>] = "created"
      BY <1>1 DEF CreateTask, UnknownIsIdle
  <2>2. \A v \in Tasks \ {u}, d \in Dispatchers : disp'[<<v, d>>] = disp[<<v, d>>]
      BY <1>1 DEF CreateTask
  <2>3. QED
      BY <2>1, <2>2 DEF Made, CreatedTogether
<1>2. ASSUME NEW u \in Tasks, NotifyCreated(u)
      PROVE  Made(t) \subseteq Made(t)' /\ CreatedTogether'
  <2>1. \A d \in Dispatchers : disp[<<u, d>>] = "created" /\ disp'[<<u, d>>] = "ready"
      BY <1>2 DEF NotifyCreated, CreatedTogether
  <2>2. \A v \in Tasks \ {u}, d \in Dispatchers : disp'[<<v, d>>] = disp[<<v, d>>]
      BY <1>2 DEF NotifyCreated
  <2>3. QED
      BY <2>1, <2>2 DEF Made, CreatedTogether
<1>3. ASSUME NEW u \in Tasks, NEW d \in Dispatchers, DispatchStep(u, d)
      PROVE  Made(t) \subseteq Made(t)' /\ CreatedTogether'
  <2>1. /\ disp[<<u, d>>] \in {"ready", "checked", "sent"}
        /\ disp'[<<u, d>>] \in {"checked", "sent", "ended"}
        /\ disp[<<u, d>>] = "sent" => disp'[<<u, d>>] = "ended"
      BY <1>3 DEF DispatchStep, DispatchRead, DispatchSend, DispatchMark
  <2>2. \A v \in Tasks, e \in Dispatchers :
          <<v, e>> # <<u, d>> => disp'[<<v, e>>] = disp[<<v, e>>]
      BY <1>3 DEF DispatchStep, DispatchRead, DispatchSend, DispatchMark
  <2>3. QED
      BY <2>1, <2>2 DEF Made, CreatedTogether
<1>4. CASE Crash
    BY <1>4 DEF Crash, Made, CreatedTogether
<1>5. CASE UNCHANGED disp
    BY <1>5 DEF Made, CreatedTogether
<1>6. CASE \E c \in Cancels : CancelStep(c) \/ \E u \in Tasks : CancelRead(c, u)
    BY <1>5, <1>6 DEF CancelStep, CancelRead, CancelMark, CancelFinish, CancelControl,
       CancelNotify
<1>7. CASE \E s \in Sessions : ReaderStep(s) \/ Attach(s) \/ HandlerReturns(s)
    BY <1>5, <1>7, SMTT(20) DEF ReaderStep, ReaderTake, ReaderWrite, ReaderFinish, ReaderNotify,
       Attach, HandlerReturns
<1>8. CASE Detach \/ Receive \/ \E u \in Tasks : AgentAnswers(u)
    BY <1>5, <1>8, ZenonT(30) DEF Detach, Receive, AgentAnswers, Report
<1>9. QED
    BY <1>1, <1>2, <1>3, <1>4, <1>6, <1>7, <1>8 DEF Next, CreateStep

(* A send adds one place and one call; any other step of the server adds   *)
(* no place.                                                               *)
LEMMA SendCounts ==
  ASSUME Types, Types', FiniteCalls, UnknownIsIdle, CreatedTogether, Next, ~Receive,
         NEW t \in Tasks,
         agent[t].copies + Cardinality(Queued(t)) <= Cardinality(Made(t))
  PROVE  agent'[t].copies + Cardinality(Queued(t)') <= Cardinality(Made(t)')
<1>1. agent'[t].copies = agent[t].copies /\ agent[t].copies \in Nat
    BY CopiesStay DEF Types, AgentOK, AgentType
<1>2. Made(t) \subseteq Made(t)'
    BY MadeGrows
<1>3. CASE \E d \in Dispatchers : DispatchSend(t, d)
  <2>1. PICK d \in Dispatchers : DispatchSend(t, d)
      BY <1>3
  <2> DEFINE x == <<cur, Len(queue[cur]) + 1>>
  <2>2. Queued(t)' \subseteq Queued(t) \cup {x}
    <3> SUFFICES ASSUME NEW y \in Queued(t)', y \notin Queued(t) PROVE y = x
        OBVIOUS
    <3>1. y \in Sessions \X Nat /\ Holds(t, y[1], y[2])'
        BY QueuedHolds
    <3>2. ~Holds(t, y[1], y[2])
        BY <3>1, QueuedHolds
    <3>3. y[1] = cur /\ y[2] = Len(queue[cur]) + 1
        BY <3>1, <3>2, NoCopyAppears
    <3>4. QED
        BY <3>1, <3>3
  <2>3. Cardinality(Queued(t)') <= Cardinality(Queued(t)) + 1
    <3>1. /\ IsFiniteSet(Queued(t) \cup {x})
          /\ Cardinality(Queued(t) \cup {x}) =
                IF x \in Queued(t) THEN Cardinality(Queued(t)) ELSE Cardinality(Queued(t)) + 1
        BY CountsAreFinite, FS_AddElement
    <3>2. Cardinality(Queued(t)') <= Cardinality(Queued(t) \cup {x})
        BY <2>2, <3>1, FS_Subset
    <3>3. QED
        BY <3>1, <3>2, CountsAreFinite
  <2>4. d \in Made(t)' /\ d \notin Made(t)
      BY <2>1 DEF DispatchSend, Made, Types, DispOK
  <2>5. Cardinality(Made(t)) + 1 <= Cardinality(Made(t)')
    <3>1. Cardinality(Made(t) \cup {d}) = Cardinality(Made(t)) + 1
        BY <2>4, CountsAreFinite, FS_AddElement
    <3>2. Cardinality(Made(t) \cup {d}) <= Cardinality(Made(t)')
        BY <1>2, <2>4, CountsAreFinite, FS_Subset
    <3>3. QED
        BY <3>1, <3>2
  <2>6. QED
      BY <1>1, <2>3, <2>5, CountsAreFinite
<1>4. CASE ~\E d \in Dispatchers : DispatchSend(t, d)
  <2>1. Queued(t)' \subseteq Queued(t)
    <3> SUFFICES ASSUME NEW y \in Queued(t)' PROVE y \in Queued(t)
        OBVIOUS
    <3>1. y \in Sessions \X Nat /\ Holds(t, y[1], y[2])'
        BY QueuedHolds
    <3>2. Holds(t, y[1], y[2])
        BY <1>4, <3>1, NoCopyAppears
    <3>3. QED
        BY <3>1, <3>2, QueuedHolds
  <2>2. Cardinality(Queued(t)') <= Cardinality(Queued(t))
      BY <2>1, CountsAreFinite, FS_Subset
  <2>3. Cardinality(Made(t)) <= Cardinality(Made(t)')
      BY <1>2, CountsAreFinite, FS_Subset
  <2>4. QED
      BY <1>1, <2>2, <2>3, CountsAreFinite
<1>5. QED
    BY <1>3, <1>4

(* Taking a message shifts the places behind it; a copy that is taken is   *)
(* one at the agent and one less in the queue.                             *)
LEMMA ReceiveCounts ==
  ASSUME Types, Types', FiniteCalls, Receive, NEW t \in Tasks
  PROVE  agent'[t].copies + Cardinality(Queued(t)') <= agent[t].copies + Cardinality(Queued(t))
<1>1. cur \in Sessions /\ queue[cur] \in Seq(Down) /\ queue[cur] # <<>>
    BY DEF Receive, Types, LinkOK, QueueOK
<1>2. PICK m \in Down : m = Head(queue[cur])
    BY <1>1
<1>3. m.task \in Tasks /\ m.type \in {"task", "cancel"}
    BY <1>2 DEF Down
<1>4. queue' = [queue EXCEPT ![cur] = Tail(@)]
    BY DEF Receive
<1> DEFINE shift == [x \in Queued(t)' |-> IF x[1] = cur THEN <<cur, x[2] + 1>> ELSE x]
           Rest == Queued(t) \ {<<cur, 1>>}
<1>5. ASSUME NEW x \in Queued(t)' PROVE shift[x] \in Rest
  <2>1. x \in Sessions \X Nat /\ Holds(t, x[1], x[2])' /\ x = <<x[1], x[2]>>
      BY QueuedHolds
  <2>2. CASE x[1] = cur
    <3>1. queue'[cur] = Tail(queue[cur])
        BY <1>1, <1>4 DEF Types, QueueOK
    <3>2. /\ x[2] \in 1..Len(Tail(queue[cur]))
          /\ Tail(queue[cur])[x[2]] = [type |-> "task", task |-> t]
        BY <2>1, <2>2, <3>1 DEF Holds
    <3>3. x[2] + 1 \in 1..Len(queue[cur]) /\ queue[cur][x[2] + 1] = Tail(queue[cur])[x[2]]
        BY <1>1, <3>2
    <3>4. Holds(t, cur, x[2] + 1) /\ x[2] + 1 \in Nat /\ x[2] + 1 # 1
        BY <2>1, <3>2, <3>3 DEF Holds
    <3>5. shift[x] = <<cur, x[2] + 1>>
        BY <2>2
    <3>6. <<cur, x[2] + 1>> \in Queued(t)
        BY <1>1, <3>4, QueuedHolds
    <3>7. QED
        BY <3>4, <3>5, <3>6
  <2>3. CASE x[1] # cur
    <3>1. Holds(t, x[1], x[2])
        BY <1>4, <2>1, <2>3 DEF Holds, Types, QueueOK
    <3>2. shift[x] = x /\ x \in Queued(t)
        BY <2>1, <2>3, <3>1, QueuedHolds
    <3>3. QED
        BY <2>3, <3>2
  <2>4. QED
      BY <2>2, <2>3
<1>6. ASSUME NEW x \in Queued(t)', NEW y \in Queued(t)', shift[x] = shift[y] PROVE x = y
  <2>1. /\ x \in Sessions \X Nat /\ y \in Sessions \X Nat
        /\ x = <<x[1], x[2]>> /\ y = <<y[1], y[2]>>
      BY QueuedHolds
  <2>2. /\ shift[x] = IF x[1] = cur THEN <<cur, x[2] + 1>> ELSE x
        /\ shift[y] = IF y[1] = cur THEN <<cur, y[2] + 1>> ELSE y
      OBVIOUS
  <2>3. (x[1] = cur) <=> (y[1] = cur)
      BY <1>6, <2>1, <2>2
  <2>4. CASE x[1] = cur
    <3>1. x[2] + 1 = y[2] + 1 /\ y[1] = cur
        BY <1>6, <2>2, <2>3, <2>4
    <3>2. x[2] = y[2]
        BY <2>1, <3>1
    <3>3. QED
        BY <2>1, <2>4, <3>1, <3>2
  <2>5. CASE x[1] # cur
      BY <1>6, <2>2, <2>3, <2>5
  <2>6. QED
      BY <2>4, <2>5
<1>7. shift \in Injection(Queued(t)', Rest)
  <2>1. shift \in [Queued(t)' -> Rest]
      BY <1>5
  <2>2. \A x, y \in Queued(t)' : shift[x] = shift[y] => x = y
      BY <1>6
  <2>3. QED
      BY ONLY <2>1, <2>2, Fun_IsInj
<1>8. IsFiniteSet(Rest) /\ Cardinality(Rest) =
        IF <<cur, 1>> \in Queued(t) THEN Cardinality(Queued(t)) - 1 ELSE Cardinality(Queued(t))
    BY CountsAreFinite, FS_RemoveElement
<1>9. Cardinality(Queued(t)') <= Cardinality(Rest)
    BY <1>7, <1>8, FS_Injection
<1>10. agent[t].copies \in Nat
    BY DEF Types, AgentOK, AgentType
<1>11. CASE m = [type |-> "task", task |-> t]
  <2>1. <<cur, 1>> \in Queued(t)
    <3>1. Holds(t, cur, 1)
        BY <1>1, <1>2, <1>11 DEF Holds
    <3>2. QED
        BY <1>1, <3>1, QueuedHolds
  <2>2. agent'[t].copies = agent[t].copies + 1
    <3>1. agent' = [agent EXCEPT ![t] =
                      [agent[t] EXCEPT !.state = "got", !.copies = agent[t].copies + 1]]
      <4>1. m.type = "task" /\ m.task = t
          BY <1>11
      <4>2. agent' = [agent EXCEPT ![m.task] =
                        [agent[m.task] EXCEPT !.state = "got",
                                              !.copies = agent[m.task].copies + 1]]
          BY <1>2, <4>1 DEF Receive
      <4>3. QED
          BY <4>1, <4>2
    <3>2. QED
        BY <3>1 DEF Types, AgentOK, AgentType
  <2>3. QED
      BY <1>8, <1>9, <1>10, <2>1, <2>2, CountsAreFinite
<1>12. CASE m # [type |-> "task", task |-> t]
  <2>1. agent'[t].copies = agent[t].copies
    <3>1. CASE m.task # t
        BY <1>2, <1>3, <3>1 DEF Receive, Types, AgentOK
    <3>2. CASE m.type = "cancel"
        BY <1>2, <1>3, <3>2 DEF Receive, Types, AgentOK, AgentType
    <3>3. QED
        BY <1>3, <1>12, <3>1, <3>2 DEF Down
  <2>2. QED
      BY <1>8, <1>9, <1>10, <2>1, CountsAreFinite
<1>13. QED
    BY <1>11, <1>12

(* However many calls of DispatchTask are made for a task, and whatever is *)
(* lost, replaced, restarted or refused, the agent is handed no more       *)
(* copies than calls got to their send: OneCopyPerCall.                    *)
THEOREM OneCopyPerCallAlways ==
  ASSUME FiniteCalls
  PROVE  Spec => []OneCopyPerCall
<1>1. Init => CallInv
  <2> SUFFICES ASSUME Init PROVE CallInv
      OBVIOUS
  <2>1. UnknownIsIdle /\ CreatedTogether
      BY DEF Init, UnknownIsIdle, CreatedTogether
  <2>2. ASSUME NEW t \in Tasks
        PROVE  agent[t].copies = 0 /\ Queued(t) = {} /\ Made(t) = {}
      BY DEF Init, Queued, Made
  <2>3. QED
      BY <2>1, <2>2, FS_EmptySet DEF CallInv, OneCopyPerCall
<1>2. Types /\ CallInv /\ [Next]_vars => CallInv'
  <2> SUFFICES ASSUME Types, CallInv, [Next]_vars PROVE CallInv'
      OBVIOUS
  <2>1. Types'
      BY TypesStep
  <2>2. CASE UNCHANGED vars
      BY <2>2 DEF vars, CallInv, UnknownIsIdle, CreatedTogether, OneCopyPerCall, Queued, Made
  <2>3. CASE Next
    <3>1. UnknownIsIdle'
        BY <2>3, UnknownStaysIdle DEF CallInv
    <3>2. CreatedTogether'
        BY <2>3, MadeGrows DEF CallInv, CreatedTogether
    <3>3. ASSUME NEW t \in Tasks
          PROVE  agent'[t].copies + Cardinality(Queued(t)') <= Cardinality(Made(t)')
      <4>1. agent[t].copies + Cardinality(Queued(t)) <= Cardinality(Made(t))
          BY DEF CallInv, OneCopyPerCall
      <4>2. CASE ~Receive
          BY <2>1, <2>3, <4>1, <4>2, SendCounts DEF CallInv
      <4>3. CASE Receive
        <5>1. agent'[t].copies + Cardinality(Queued(t)')
                <= agent[t].copies + Cardinality(Queued(t))
            BY <2>1, <4>3, ReceiveCounts
        <5>2. Made(t)' = Made(t)
            BY <4>3 DEF Receive, Made
        <5>3. agent[t].copies \in Nat /\ agent'[t].copies \in Nat
            BY <2>1 DEF Types, AgentOK, AgentType
        <5>4. QED
            BY <4>1, <5>1, <5>2, <5>3, CountsAreFinite
      <4>4. QED
          BY <4>2, <4>3
    <3>4. QED
        BY <3>1, <3>2, <3>3 DEF CallInv, OneCopyPerCall
  <2>4. QED
      BY <2>2, <2>3
<1>3. CallInv => OneCopyPerCall
    BY DEF CallInv
<1>4. QED
    BY <1>1, <1>2, <1>3, TypesInitial, TypesStep, PTL DEF Spec

-----------------------------------------------------------------------------
(* The schema of 0001_init.up.sql alone, without the updated_at of         *)
(* deploy/fix_tasks.sql that task_repo.go sets in every UPDATE.            *)
StillPending ==
  \A t \in Tasks : /\ row[t].status \in {"NONE", "PENDING"}
                   /\ ~row[t].dispatched /\ ~row[t].started /\ ~row[t].finished

(* On that schema no task ever leaves PENDING, whatever the agent reports  *)
(* and however often it is cancelled: nothing but the INSERT is stored.    *)
THEOREM NothingStored ==
  ASSUME ~HasUpdatedAt
  PROVE  Spec => []StillPending
<1>1. Init => StillPending
    BY DEF Init, StillPending
<1>2. Types /\ StillPending /\ [Next]_vars => StillPending'
  <2> SUFFICES ASSUME Types, StillPending, [Next]_vars PROVE StillPending'
      OBVIOUS
  <2>1. ~Succeeds /\ \A s \in Sessions : ~ReaderSucceeds(s)
      BY DEF Succeeds, ReaderSucceeds
  <2>2. CASE UNCHANGED row
      BY <2>2 DEF StillPending
  <2>3. ASSUME NEW t \in Tasks, CreateTask(t) PROVE StillPending'
      BY <2>3 DEF CreateTask, StillPending, Types, RowOK, RowType
  <2>4. ASSUME NEW t \in Tasks, NEW d \in Dispatchers, DispatchStep(t, d)
        PROVE  UNCHANGED row
      BY <2>1, <2>4 DEF DispatchStep, DispatchRead, DispatchSend, DispatchMark
  <2>5. ASSUME NEW c \in Cancels, CancelStep(c) \/ \E t \in Tasks : CancelRead(c, t)
        PROVE  UNCHANGED row
      BY <2>1, <2>5 DEF CancelStep, CancelRead, CancelMark, CancelFinish, CancelControl,
         CancelNotify
  <2>6. ASSUME NEW s \in Sessions, ReaderStep(s) \/ Attach(s) \/ HandlerReturns(s)
        PROVE  UNCHANGED row
      BY <2>1, <2>6 DEF ReaderStep, ReaderTake, ReaderWrite, ReaderFinish, ReaderNotify,
         Attach, HandlerReturns
  <2>7. ASSUME NEW t \in Tasks, NotifyCreated(t) \/ AgentAnswers(t)
        PROVE  UNCHANGED row
      BY <2>7 DEF NotifyCreated, AgentAnswers, Report
  <2>8. CASE Detach \/ Crash \/ Receive
      BY <2>2, <2>8 DEF Detach, Crash, Receive
  <2>9. CASE UNCHANGED vars
      BY <2>2, <2>9 DEF vars
  <2>10. QED
      BY <2>2, <2>3, <2>4, <2>5, <2>6, <2>7, <2>8, <2>9 DEF Next, CreateStep
<1>3. QED
    BY <1>1, <1>2, TypesInitial, TypesStep, PTL DEF Spec

-----------------------------------------------------------------------------
(* What the user sees while nothing fails: no statement fails, and the     *)
(* connection and the process hold.  The statuses of a task that nobody    *)
(* cancels form one chain of transitions of status.go: the row, then the   *)
(* message a read loop is about to write, then the messages it has not     *)
(* taken, the last of which is where the agent stands.                     *)
Calm == ~Faults /\ ~Drops /\ ~Crashes /\ HasUpdatedAt

Stream == IF cur \in Sessions THEN up[cur] ELSE <<>>
Writing(t) == cur \in Sessions /\ reader[cur].pc = "write" /\ reader[cur].msg.task = t
NoteOf(m) ==
  [status |-> StatusOf(m), retries |-> IF m.kind = "reject" THEN 0 ELSE m.retries]
Places(t) == {0} \cup {i \in 1..Len(Stream) : Stream[i].task = t}
Note(t, i) ==
  IF i # 0 THEN NoteOf(Stream[i])
  ELSE IF Writing(t) THEN NoteOf(reader[cur].msg)
  ELSE [status |-> row[t].status, retries |-> row[t].retries]

Fits(a, n) ==
  /\ a.state = "none" => n.status \in {"NONE", "PENDING"}
  /\ a.state = "got" => n.status = "PENDING"
  /\ a.state = "working" => n.status = "RUNNING"
  /\ a.state = "retrying" => n.status = "RETRYING"
  /\ a.state = "over" => n.status \in {"SUCCESS", "FAILED"} /\ n.retries = a.retries

Due(t) == Writing(t) =>
  Machine!CanTransition(row[t].status, StatusOf(reader[cur].msg))
Linked(t) == \A i, j \in Places(t) :
  i < j /\ (\A k \in Places(t) : k <= i \/ k >= j) =>
    Machine!CanTransition(Note(t, i).status, Note(t, j).status)
Ends(t) == \A i \in Places(t) :
  (\A k \in Places(t) : k <= i) => Fits(agent[t], Note(t, i))
Unretried(t) == agent[t].state \in {"none", "got"} => agent[t].retries = 0
ChainOf(t) == Due(t) /\ Linked(t) /\ Ends(t) /\ Unretried(t)

(* Only one connection ever exists, and only cancellable tasks are         *)
(* cancelled.                                                              *)
OneLink == /\ gone = {} /\ spent \subseteq {cur}
           /\ \A s \in Sessions : s # cur => up[s] = <<>> /\ reader[s] = Idle
RequestsKnown == \A c \in Cancels : cancel[c] # Idle => cancel[c].task \in Cancellable
OrdersKnown == \A s \in Sessions : \A i \in 1..Len(queue[s]) :
  queue[s][i].type = "cancel" => queue[s][i].task \in Cancellable
CancelsKnown == RequestsKnown /\ OrdersKnown

(* The row of a message that was written still says what the message said. *)
Written == \A s \in Sessions :
  reader[s].pc \in {"finish", "notify"} /\ reader[s].msg.task \in Undisturbed =>
    row[reader[s].msg.task].status = StatusOf(reader[s].msg)

(* The user has seen the row's status, or a handler is about to push it.   *)
Shown == \A t \in Undisturbed :
  \/ pushed[t] = row[t].status
  \/ \E d \in Dispatchers : disp[<<t, d>>] = "created"
  \/ \E s \in Sessions : reader[s].pc \in {"finish", "notify"} /\ reader[s].msg.task = t

(* A terminal status has its time, or a handler is about to write it.      *)
Stamped == \A t \in Tasks : row[t].status \in Terminal =>
  \/ row[t].finished
  \/ \E c \in Cancels : cancel[c].pc = "finish" /\ cancel[c].task = t
  \/ \E s \in Sessions : reader[s].pc = "finish" /\ reader[s].msg.task = t

ChainInv == \A t \in Undisturbed : ChainOf(t)

CalmInv == /\ DeliveryInv /\ CopyInv /\ OneLink /\ CancelsKnown
           /\ ChainInv /\ Written /\ Shown /\ Stamped

(* Nothing that breaks the chain happens. *)
LEMMA CalmExcludes ==
  ASSUME Calm, OneLink, Types
  PROVE  /\ Succeeds /\ ~Fails /\ ~Crash /\ ~Detach
         /\ \A s \in Sessions : ReaderSucceeds(s) /\ ~ReaderFails(s) /\ ~HandlerReturns(s)
         /\ \A s \in Sessions : Attach(s) => cur = NoSession
  BY DEF Calm, OneLink, Succeeds, Fails, Crash, Detach, ReaderSucceeds, ReaderFails,
     HandlerReturns, Attach, Types, LinkOK

LEMMA OneLinkStep ==
  ASSUME Calm, Types, OneLink, Next
  PROVE  OneLink'
<1> USE CalmExcludes DEF OneLink
<1>1. CASE UNCHANGED <<linkVars, up, reader>>
    BY <1>1 DEF linkVars
<1>2. CASE \E t \in Tasks : CreateStep(t)
    BY <1>1, <1>2 DEF CreateStep, CreateTask, NotifyCreated
<1>3. CASE \E t \in Tasks, d \in Dispatchers : DispatchStep(t, d)
    BY <1>1, <1>3 DEF DispatchStep, DispatchRead, DispatchSend, DispatchMark
<1>4. CASE \E c \in Cancels : CancelStep(c) \/ \E t \in Tasks : CancelRead(c, t)
    BY <1>1, <1>4 DEF CancelStep, CancelRead, CancelMark, CancelFinish, CancelControl,
       CancelNotify
<1>5. ASSUME NEW s \in Sessions, ReaderStep(s) PROVE OneLink'
  <2>1. UNCHANGED linkVars /\ s = cur
      BY <1>5 DEF ReaderStep, ReaderTake, ReaderWrite, ReaderFinish, ReaderNotify, Idle
  <2>2. \A u \in Sessions : u # s => up'[u] = up[u] /\ reader'[u] = reader[u]
      BY <1>5 DEF ReaderStep, ReaderTake, ReaderWrite, ReaderFinish, ReaderNotify,
         Types, UpOK, ReaderOK
  <2>3. QED
      BY <2>1, <2>2 DEF linkVars
<1>6. ASSUME NEW s \in Sessions, Attach(s) PROVE OneLink'
  <2>1. cur = NoSession /\ cur' = s /\ spent' = spent \cup {s} /\ UNCHANGED <<gone, reader>>
      BY <1>6 DEF Attach
  <2>2. \A u \in Sessions : up'[u] = up[u] /\ up[u] = <<>> /\ reader[u] = Idle
      BY <1>6, <2>1, TaskAssumption DEF Attach, ForgetCurrent
  <2>3. spent = {}
      BY <2>1, TaskAssumption DEF Types, LinkOK
  <2>4. QED
      BY <2>1, <2>2, <2>3
<1>7. CASE Receive
    BY <1>1, <1>7 DEF Receive
<1>8. ASSUME NEW t \in Tasks, AgentAnswers(t) PROVE OneLink'
  <2>1. PICK kind, state, n : Report(t, kind, state, n)
      BY <1>8 DEF AgentAnswers
  <2>2. QED
      BY <2>1 DEF Report, linkVars, Types, UpOK
<1>9. QED
    BY <1>2, <1>3, <1>4, <1>5, <1>6, <1>7, <1>8 DEF Next

LEMMA CancelsKnownStep ==
  ASSUME Calm, Types, OneLink, CancelsKnown, Next
  PROVE  CancelsKnown'
<1> DEFINE Meant(m) == m.type = "cancel" => m.task \in Cancellable
<1> USE CalmExcludes DEF CancelsKnown, RequestsKnown, OrdersKnown
<1>1. RequestsKnown'
  <2>1. CASE UNCHANGED cancel
      BY <2>1
  <2>2. ASSUME NEW c \in Cancels, NEW t \in Tasks, CancelRead(c, t) PROVE RequestsKnown'
      BY <2>2 DEF CancelRead, Types, CancelOK
  <2>3. ASSUME NEW c \in Cancels, CancelStep(c) PROVE RequestsKnown'
    <3>1. cancel[c] # Idle /\ \E pc : cancel' = [cancel EXCEPT ![c].pc = pc]
        BY <2>3 DEF CancelStep, CancelMark, CancelFinish, CancelControl, CancelNotify, Idle
    <3>2. cancel'[c].task = cancel[c].task /\ \A b \in Cancels \ {c} : cancel'[b] = cancel[b]
        BY <3>1 DEF Types, CancelOK, CancelType
    <3>3. QED
        BY <3>1, <3>2
  <2>4. CASE \E t \in Tasks : CreateStep(t) \/ AgentAnswers(t)
      BY <2>1, <2>4 DEF CreateStep, CreateTask, NotifyCreated, AgentAnswers, Report
  <2>5. CASE \E t \in Tasks, d \in Dispatchers : DispatchStep(t, d)
      BY <2>1, <2>5, SMTT(20) DEF DispatchStep, DispatchRead, DispatchSend, DispatchMark
  <2>6. CASE Receive \/ \E s \in Sessions : ReaderStep(s) \/ Attach(s)
      BY <2>1, <2>6, ZenonT(30) DEF ReaderStep, ReaderTake, ReaderWrite, ReaderFinish, ReaderNotify,
         Attach, Receive
  <2>7. QED
      BY <2>2, <2>3, <2>4, <2>5, <2>6 DEF Next
<1>2. ASSUME NEW m \in Down, Meant(m), CanSend, Send(m)
      PROVE  OrdersKnown'
  <2>1. cur \in Sessions /\ queue[cur] \in Seq(Down) /\ queue \in [Sessions -> Seq(Down)]
      BY <1>2 DEF CanSend, Types, LinkOK, QueueOK
  <2>2. queue'[cur] = Append(queue[cur], m) /\ \A s \in Sessions \ {cur} : queue'[s] = queue[s]
      BY <1>2, <2>1 DEF Send
  <2>3. \A i \in 1..Len(Append(queue[cur], m)) : Meant(Append(queue[cur], m)[i])
      BY <1>2, <2>1
  <2>4. QED
      BY <2>2, <2>3
<1>3. OrdersKnown'
  <2>1. CASE UNCHANGED queue
      BY <2>1
  <2>2. ASSUME NEW t \in Tasks, NEW d \in Dispatchers, DispatchSend(t, d) PROVE OrdersKnown'
    <3>1. CASE UNCHANGED queue
        BY <3>1
    <3>2. CASE CanSend /\ Send([type |-> "task", task |-> t])
        BY <1>2, <3>2 DEF Down
    <3>3. QED
        BY <2>2, <3>1, <3>2 DEF DispatchSend
  <2>3. ASSUME NEW c \in Cancels, CancelControl(c) PROVE OrdersKnown'
    <3>1. CASE UNCHANGED queue
        BY <3>1
    <3>2. cancel[c].task \in Cancellable
        BY <2>3 DEF CancelControl, Idle
    <3>3. CASE CanSend /\ Send([type |-> "cancel", task |-> cancel[c].task])
        BY <1>2, <3>2, <3>3, TaskAssumption DEF Down
    <3>4. QED
        BY <2>3, <3>1, <3>3 DEF CancelControl
  <2>4. CASE Receive
    <3>1. cur \in Sessions /\ queue[cur] \in Seq(Down) /\ queue[cur] # <<>>
        BY <2>4 DEF Receive, Types, LinkOK, QueueOK
    <3>2. queue'[cur] = Tail(queue[cur]) /\ \A s \in Sessions \ {cur} : queue'[s] = queue[s]
        BY <2>4, <3>1 DEF Receive, Types, QueueOK
    <3>3. \A i \in 1..Len(Tail(queue[cur])) : Meant(Tail(queue[cur])[i])
        BY <3>1
    <3>4. QED
        BY <3>2, <3>3
  <2>5. CASE \E s \in Sessions : Attach(s)
    <3>1. \A s \in Sessions : queue'[s] = queue[s] \/ queue'[s] = <<>>
        BY <2>5 DEF Attach, ForgetCurrent
    <3>2. QED
        BY <3>1
  <2>6. CASE \E t \in Tasks : CreateStep(t) \/ AgentAnswers(t)
      BY <2>1, <2>6 DEF CreateStep, CreateTask, NotifyCreated, AgentAnswers, Report
  <2>7. ASSUME NEW t \in Tasks, NEW d \in Dispatchers, DispatchRead(t, d) \/ DispatchMark(t, d)
        PROVE  UNCHANGED queue
      BY <2>7 DEF DispatchRead, DispatchMark
  <2>8. ASSUME NEW c \in Cancels,
               \/ CancelMark(c) \/ CancelFinish(c) \/ CancelNotify(c)
               \/ \E t \in Tasks : CancelRead(c, t)
        PROVE  UNCHANGED queue
      BY <2>8 DEF CancelMark, CancelFinish, CancelNotify, CancelRead
  <2>9. ASSUME NEW s \in Sessions, ReaderStep(s) PROVE UNCHANGED queue
      BY <2>9 DEF ReaderStep, ReaderTake, ReaderWrite, ReaderFinish, ReaderNotify
  <2>10. QED
      BY <2>1, <2>2, <2>3, <2>4, <2>5, <2>6, <2>7, <2>8, <2>9 DEF Next, DispatchStep, CancelStep
<1>4. QED
    BY <1>1, <1>3

(* A step that changes nothing the chain of t speaks of. *)
LEMMA ChainFrame ==
  ASSUME NEW t \in Undisturbed, ChainOf(t), Stream' = Stream,
         Writing(t)' <=> Writing(t), Writing(t) => reader'[cur'].msg = reader[cur].msg,
         row'[t].status = row[t].status, row'[t].retries = row[t].retries,
         agent'[t].state = agent[t].state, agent'[t].retries = agent[t].retries
  PROVE  ChainOf(t)'
<1>1. Places(t)' = Places(t) /\ \A i \in Places(t) : Note(t, i)' = Note(t, i)
    BY DEF Places, Note
<1>2. Due(t)'
    BY DEF ChainOf, Due
<1>3. Linked(t)'
    BY <1>1 DEF ChainOf, Linked
<1>4. Ends(t)'
    BY <1>1 DEF ChainOf, Ends, Fits
<1>5. QED
    BY <1>2, <1>3, <1>4 DEF ChainOf, Unretried

(* The agent was not given a task that does not exist. *)
LEMMA UnknownIsFresh ==
  ASSUME CopyInv, OneDispatcher, NEW t \in Tasks, row[t].status = "NONE"
  PROVE  agent[t].copies = 0
<1>1. PICK d : d \in Dispatchers
    BY DEF OneDispatcher
<1>2. disp[<<t, d>>] \in Before
    BY <1>1 DEF CopyInv, UnknownIsIdle, Before
<1>3. QED
    BY <1>1, <1>2 DEF CopyInv, UnsentNowhere

(* The chain of a task the agent was not given is its row alone. *)
LEMMA FreshTask ==
  ASSUME CalmInv, NEW t \in Undisturbed, agent[t].copies = 0
  PROVE  /\ Places(t) = {0} /\ ~Writing(t) /\ agent[t].state = "none"
         /\ row[t].status \in {"NONE", "PENDING"} /\ agent[t].retries = 0
<1>1. t \in Tasks /\ ~Given(t)
    BY DEF Undisturbed, Given
<1>2. ~Writing(t)
    BY <1>1 DEF Writing, CalmInv, DeliveryInv, HandledGiven, Idle
<1>3. Places(t) = {0}
    BY <1>1 DEF Places, Stream, CalmInv, DeliveryInv, MessagesGiven
<1>4. agent[t].state = "none"
    BY <1>1 DEF CalmInv, DeliveryInv, AgentHasCopy
<1>5. Fits(agent[t], Note(t, 0))
    BY <1>3 DEF CalmInv, ChainInv, ChainOf, Ends
<1>6. QED
    BY <1>2, <1>3, <1>4, <1>5 DEF Fits, Note, CalmInv, ChainInv, ChainOf, Unretried

LEMMA ShortChain ==
  ASSUME NEW t \in Undisturbed, Places(t)' = {0}, ~Writing(t)', Fits(agent[t], Note(t, 0))',
         Unretried(t)'
  PROVE  ChainOf(t)'
  BY DEF ChainOf, Due, Linked, Ends

LEMMA ServerKeepsChain ==
  ASSUME CalmInv, OneDispatcher, NEW t \in Undisturbed,
         \/ \E u \in Tasks : CreateStep(u)
         \/ \E u \in Tasks, d \in Dispatchers : DispatchStep(u, d)
         \/ \E c \in Cancels : CancelStep(c) \/ \E u \in Tasks : CancelRead(c, u)
  PROVE  ChainOf(t)'
<1> USE DEF CalmInv
<1>1. UNCHANGED <<reader, up, agent, cur>>
    BY DEF CreateStep, CreateTask, NotifyCreated, DispatchStep, DispatchRead, GetByID,
       DispatchSend, DispatchMark, CancelStep, CancelRead, CancelMark, CancelFinish,
       CancelControl, CancelNotify, linkVars
<1>2. t \in Tasks /\ RowOK /\ CancelOK
    BY DEF DeliveryInv, Types, Undisturbed
<1>3. ASSUME row'[t].status = row[t].status, row'[t].retries = row[t].retries
      PROVE  ChainOf(t)'
    BY <1>1, <1>3, ChainFrame DEF ChainInv, Stream, Writing
<1>4. ASSUME NEW u \in Tasks, CreateTask(u) PROVE ChainOf(t)'
  <2>1. CASE u # t
      BY <1>2, <1>3, <1>4, <2>1 DEF CreateTask, RowOK
  <2>2. CASE u = t
    <3>1. row[t].status = "NONE" /\ row'[t].status = "PENDING"
        BY <1>2, <1>4, <2>2 DEF CreateTask, RowOK, RowType
    <3>2. agent[t].copies = 0
        BY <1>2, <3>1, UnknownIsFresh
    <3>3. Places(t) = {0} /\ ~Writing(t) /\ agent[t].state = "none" /\ agent[t].retries = 0
        BY <3>2, FreshTask
    <3>4. Places(t)' = {0} /\ ~Writing(t)'
        BY <1>1, <3>3 DEF Places, Writing, Stream
    <3>5. Fits(agent[t], Note(t, 0))'
        BY <1>1, <3>1, <3>3, <3>4 DEF Fits, Note
    <3>6. QED
        BY <1>1, <3>3, <3>4, <3>5, ShortChain DEF Unretried
  <2>3. QED
      BY <2>1, <2>2
<1>5. ASSUME NEW u \in Tasks, NotifyCreated(u) PROVE UNCHANGED row
    BY <1>5 DEF NotifyCreated
<1>6. ASSUME NEW u \in Tasks, NEW d \in Dispatchers, DispatchStep(u, d)
      PROVE  row'[t].status = row[t].status /\ row'[t].retries = row[t].retries
    BY <1>2, <1>6, SMTT(20) DEF DispatchStep, DispatchRead, DispatchSend, DispatchMark, MarkDispatched,
       RowOK, RowType
<1>7. ASSUME NEW c \in Cancels, CancelStep(c) PROVE row'[t] = row[t]
  <2>1. cancel[c].task # t
      BY <1>7 DEF CancelStep, CancelMark, CancelFinish, CancelControl, CancelNotify, Idle,
         CancelsKnown, RequestsKnown, Undisturbed
  <2>2. QED
      BY <1>2, <1>7, <2>1, ZenonT(30) DEF CancelStep, CancelMark, CancelFinish, CancelControl,
         CancelNotify, UpdateStatus, MarkFinished, RowOK
<1>8. ASSUME NEW c \in Cancels, NEW u \in Tasks, CancelRead(c, u) PROVE UNCHANGED row
    BY <1>8 DEF CancelRead
<1>9. QED
    BY <1>3, <1>4, <1>5, <1>6, <1>7, <1>8 DEF CreateStep

LEMMA AttachKeepsChain ==
  ASSUME CalmInv, NEW t \in Undisturbed, NEW s \in Sessions, Attach(s), cur = NoSession
  PROVE  ChainOf(t)'
<1>1. Stream = <<>> /\ Stream' = <<>>
    BY TaskAssumption DEF Stream, Attach, ForgetCurrent, CalmInv, OneLink
<1>2. ~Writing(t) /\ ~Writing(t)'
    BY TaskAssumption DEF Writing, Attach, CalmInv, OneLink, Idle
<1>3. UNCHANGED <<row, agent>>
    BY DEF Attach
<1>4. QED
    BY <1>1, <1>2, <1>3, ChainFrame DEF CalmInv, ChainInv

LEMMA ReceiveKeepsChain ==
  ASSUME CalmInv, OneDispatcher, NEW t \in Undisturbed, Receive
  PROVE  ChainOf(t)'
<1> DEFINE m == Head(queue[cur])
<1> USE DEF CalmInv
<1>1. UNCHANGED <<row, reader, up, cur>>
    BY DEF Receive, linkVars
<1>2. cur \in Sessions /\ queue[cur] \in Seq(Down) /\ queue[cur] # <<>>
    BY DEF Receive, DeliveryInv, Types, LinkOK, QueueOK
<1>3. m \in Down /\ 1 \in 1..Len(queue[cur]) /\ queue[cur][1] = m
    BY <1>2
<1>4. t \in Tasks /\ m.task \in Tasks /\ m.type \in {"task", "cancel"} /\ AgentOK
    BY <1>3 DEF Down, Undisturbed, DeliveryInv, Types
<1>5. CASE m.task # t
  <2>1. agent'[t] = agent[t]
      BY <1>4, <1>5 DEF Receive, AgentOK
  <2>2. QED
      BY <1>1, <2>1, ChainFrame DEF ChainInv, Stream, Writing
<1>6. CASE m.task = t
  <2>1. m.type = "task"
      BY <1>2, <1>3, <1>4, <1>6 DEF CancelsKnown, OrdersKnown, Undisturbed
  <2>2. Holds(t, cur, 1)
    <3>1. m = [type |-> "task", task |-> t]
        BY <1>3, <1>6, <2>1 DEF Down
    <3>2. QED
        BY <1>3, <3>1 DEF Holds
  <2>3. agent[t].copies = 0
      BY <1>2, <1>4, <2>2 DEF CopyInv, GivenOnce, Nowhere
  <2>4. row[t].status = "PENDING"
    <3>1. \A d \in Dispatchers : disp[<<t, d>>] \notin Before
        BY <1>2, <1>4, <2>2 DEF CopyInv, UnsentNowhere, Nowhere
    <3>2. row[t].status # "NONE"
        BY <1>4, <3>1 DEF CopyInv, UnknownIsIdle, Before, OneDispatcher
    <3>3. QED
        BY <2>3, <3>2, FreshTask
  <2>5. agent'[t].state = "got" /\ agent'[t].retries = 0
    <3>1. agent' = [agent EXCEPT ![t] =
                      [agent[t] EXCEPT !.state = "got", !.copies = agent[t].copies + 1]]
        BY <1>6, <2>1 DEF Receive
    <3>2. agent[t].retries = 0 /\ agent[t] \in AgentType
        BY <1>4, <2>3, FreshTask DEF AgentOK
    <3>3. QED
        BY <1>4, <3>1, <3>2 DEF AgentOK, AgentType
  <2>6. Places(t)' = {0} /\ ~Writing(t)'
    <3>1. Places(t) = {0} /\ ~Writing(t)
        BY <2>3, FreshTask
    <3>2. QED
        BY <1>1, <3>1 DEF Places, Writing, Stream
  <2>7. Fits(agent[t], Note(t, 0))'
      BY <1>1, <2>4, <2>5, <2>6 DEF Fits, Note
  <2>8. QED
      BY <2>5, <2>6, <2>7, ShortChain DEF Unretried
<1>7. QED
    BY <1>5, <1>6

(* What the agent says next follows from where it stands. *)
LEMMA ReportExtendsChain ==
  ASSUME CalmInv, NEW u \in Tasks, NEW m \in Up, NEW state,
         m.task = u, state \notin {"none", "got"}, Report(u, m.kind, state, m.retries),
         u \in Undisturbed =>
           \A n : Fits(agent[u], n) => Machine!CanTransition(n.status, StatusOf(m)),
         u \in Undisturbed => Fits([agent[u] EXCEPT !.state = state, !.retries = m.retries],
                                   NoteOf(m)),
         NEW t \in Undisturbed
  PROVE  ChainOf(t)'
<1> USE DEF CalmInv
<1>1. cur \in Sessions /\ up \in [Sessions -> Seq(Up)] /\ Stream = up[cur]
    BY TaskAssumption DEF Report, DeliveryInv, Types, LinkOK, UpOK, Stream
<1>1a. PICK n \in Nat : n = Len(Stream) + 1
    BY <1>1
<1>2. m = [task |-> u, kind |-> m.kind, retries |-> m.retries]
    BY DEF Up
<1>3. Stream' = Append(Stream, m) /\ UNCHANGED <<cur, row, reader>>
    BY <1>1, <1>2 DEF Report, Stream, linkVars
<1>4. /\ Stream \in Seq(Up) /\ n = Len(Stream) + 1 /\ Len(Stream) \in Nat
      /\ \A i \in 1..Len(Stream) : Stream'[i] = Stream[i]
      /\ Stream'[n] = m /\ Len(Stream') = n
    BY <1>1, <1>3, <1>1a
<1>5. (Writing(t)' <=> Writing(t)) /\ \A i \in Places(t) : Note(t, i)' = Note(t, i)
    BY <1>3, <1>4 DEF Writing, Note, Places
<1>6. Due(t)'
    BY <1>3 DEF ChainInv, ChainOf, Due, Writing
<1>7. CASE t # u
  <2>1. Places(t)' = Places(t)
      BY <1>4, <1>7 DEF Places
  <2>2. agent'[t] = agent[t]
      BY <1>7 DEF Report, DeliveryInv, Types, AgentOK, Undisturbed
  <2>3. Linked(t)' /\ Ends(t)' /\ Unretried(t)'
      BY <1>5, <2>1, <2>2 DEF ChainInv, ChainOf, Linked, Ends, Unretried
  <2>4. QED
      BY <1>6, <2>3 DEF ChainOf
<1>8. CASE t = u
  <2>1. Places(t)' = Places(t) \cup {n} /\ \A i \in Places(t) : i \in Nat /\ i < n
      BY <1>4, <1>8 DEF Places
  <2>2. Note(t, n)' = NoteOf(m)
      BY <1>4 DEF Note
  <2>3. agent'[t] = [agent[t] EXCEPT !.state = state, !.retries = m.retries]
      BY <1>8 DEF Report, DeliveryInv, Types, AgentOK
  <2>4. Ends(t)'
    <3>1. Fits(agent[t], Note(t, n))'
        BY <1>8, <2>2, <2>3 DEF Fits
    <3>2. \A i \in Places(t)' : (\A k \in Places(t)' : k <= i) => i = n
        BY <1>4, <2>1
    <3>3. QED
        BY <3>1, <3>2 DEF Ends
  <2>5. Linked(t)'
    <3> SUFFICES ASSUME NEW i \in Places(t)', NEW j \in Places(t)', i < j,
                        \A k \in Places(t)' : k <= i \/ k >= j
                 PROVE  Machine!CanTransition(Note(t, i)'.status, Note(t, j)'.status)
        BY DEF Linked
    <3>1. i \in Places(t)
      <4>1. j <= n
          BY <1>4, <2>1
      <4>2. i # n
          BY <1>4, <2>1, <4>1
      <4>3. QED
          BY <2>1, <4>2
    <3>2. CASE j = n
      <4>1. \A k \in Places(t) : k <= i
          BY <1>4, <2>1, <3>2
      <4>2. Fits(agent[t], Note(t, i))
          BY <3>1, <4>1 DEF ChainInv, ChainOf, Ends
      <4>3. Note(t, j)'.status = StatusOf(m)
          BY <2>2, <3>2 DEF NoteOf
      <4>4. Machine!CanTransition(Note(t, i).status, StatusOf(m))
          BY <1>8, <4>2
      <4>5. QED
          BY <1>5, <3>1, <4>3, <4>4
    <3>3. CASE j # n
      <4>1. j \in Places(t)
          BY <2>1, <3>3
      <4>2. QED
          BY <1>5, <2>1, <3>1, <4>1 DEF ChainInv, ChainOf, Linked
    <3>4. QED
        BY <3>2, <3>3
  <2>6. QED
      BY <1>6, <1>8, <2>3, <2>4, <2>5 DEF ChainOf, Unretried
<1>9. QED
    BY <1>7, <1>8

LEMMA AgentKeepsChain ==
  ASSUME CalmInv, NEW u \in Tasks, AgentAnswers(u), NEW t \in Undisturbed
  PROVE  ChainOf(t)'
<1>1. agent[u] \in AgentType
    BY DEF CalmInv, DeliveryInv, Types, AgentOK
<1>2. ASSUME NEW kind \in {"accept", "reject", "RETRYING", "RUNNING", "SUCCESS", "FAILED"},
             NEW state \in {"working", "retrying", "over"}, NEW n \in 0..MaxRetry,
             Report(u, kind, state, n),
             \A note : Fits(agent[u], note) =>
               Machine!CanTransition(note.status,
                 StatusOf([task |-> u, kind |-> kind, retries |-> n])),
             state = "working" => kind \in {"accept", "RUNNING"},
             state = "retrying" => kind = "RETRYING",
             state = "over" => kind \in {"SUCCESS", "FAILED"}
                               \/ (kind = "reject" /\ (u \in Undisturbed => n = 0))
      PROVE  ChainOf(t)'
  <2> DEFINE m == [task |-> u, kind |-> kind, retries |-> n]
  <2>1. m \in Up
      BY DEF Up
  <2>2. u \in Undisturbed => Fits([agent[u] EXCEPT !.state = state, !.retries = n], NoteOf(m))
      BY <1>1, <1>2 DEF Fits, NoteOf, StatusOf, AgentType
  <2>3. QED
      BY <1>2, <2>1, <2>2, ReportExtendsChain
<1>3. agent[u].retries \in 0..MaxRetry
    BY <1>1 DEF AgentType
<1>4. CASE agent[u].state = "got"
  <2>1. u \in Undisturbed => agent[u].retries = 0
      BY <1>4 DEF CalmInv, ChainInv, ChainOf, Unretried
  <2>2. \A note : Fits(agent[u], note) => note.status = "PENDING"
      BY <1>4 DEF Fits
  <2>3. CASE Report(u, "accept", "working", agent[u].retries)
      BY <1>2, <1>3, <2>2, <2>3 DEF StatusOf, Machine!CanTransition, Machine!Terminal
  <2>4. CASE Report(u, "reject", "over", agent[u].retries)
      BY <1>2, <1>3, <2>1, <2>2, <2>4 DEF StatusOf, Machine!CanTransition, Machine!Terminal
  <2>5. QED
      BY <1>4, <2>3, <2>4 DEF AgentAnswers
<1>5. CASE agent[u].state = "working"
  <2>1. \A note : Fits(agent[u], note) => note.status = "RUNNING"
      BY <1>5 DEF Fits
  <2>2. CASE Report(u, "SUCCESS", "over", agent[u].retries)
      BY <1>2, <1>3, <2>1, <2>2 DEF StatusOf, Machine!CanTransition, Machine!Terminal
  <2>3. CASE Report(u, "FAILED", "over", agent[u].retries)
      BY <1>2, <1>3, <2>1, <2>3 DEF StatusOf, Machine!CanTransition, Machine!Terminal
  <2>4. CASE agent[u].retries < MaxRetry /\ Report(u, "RETRYING", "retrying", agent[u].retries + 1)
    <3>1. agent[u].retries + 1 \in 0..MaxRetry
        BY <1>3, <2>4, TaskAssumption
    <3>2. QED
        BY <1>2, <2>1, <2>4, <3>1 DEF StatusOf, Machine!CanTransition, Machine!Terminal
  <2>5. QED
      BY <1>5, <2>2, <2>3, <2>4 DEF AgentAnswers
<1>6. CASE agent[u].state = "retrying"
  <2>1. \A note : Fits(agent[u], note) => note.status = "RETRYING"
      BY <1>6 DEF Fits
  <2>2. Report(u, "RUNNING", "working", agent[u].retries)
      BY <1>6 DEF AgentAnswers
  <2>3. QED
      BY <1>2, <1>3, <2>1, <2>2 DEF StatusOf, Machine!CanTransition, Machine!Terminal
<1>7. QED
    BY <1>4, <1>5, <1>6 DEF AgentAnswers

(* Taking a message moves it from the first place to the row's place. *)
LEMMA TakeKeepsChain ==
  ASSUME CalmInv, NEW s \in Sessions, ReaderTake(s), NEW t \in Undisturbed
  PROVE  ChainOf(t)'
<1> USE DEF CalmInv
<1>1. s = cur /\ cur \in Sessions /\ Stream \in Seq(Up) /\ Stream # <<>>
    BY DEF ReaderTake, Stream, DeliveryInv, Types, UpOK
<1>2. PICK m \in Up : m = Head(Stream) /\ m = Stream[1]
    BY <1>1
<1>3. /\ Stream' = Tail(Stream) /\ UNCHANGED <<cur, row, agent>>
      /\ reader[cur] = Idle /\ reader'[cur] = [pc |-> "write", msg |-> m]
    BY <1>1, <1>2 DEF ReaderTake, Stream, DeliveryInv, Types, UpOK, ReaderOK, linkVars
<1>4. /\ Len(Stream) \in Nat /\ Len(Stream') = Len(Stream) - 1 /\ 1 \in 1..Len(Stream)
      /\ \A i \in 1..Len(Stream') : Stream'[i] = Stream[i + 1] /\ i + 1 \in 1..Len(Stream)
      /\ \A i \in 1..Len(Stream) : i - 1 = 0 \/ i - 1 \in 1..Len(Stream')
    BY <1>1, <1>3
<1>5. ~Writing(t) /\ (Writing(t)' <=> m.task = t)
    BY <1>1, <1>3 DEF Writing, Idle
<1>6. Unretried(t)'
    BY <1>3 DEF ChainInv, ChainOf, Unretried
<1>7. CASE m.task # t
  <2>1. /\ \A i \in Places(t)' : i = 0 \/ (i \in Nat /\ i # 0 /\ i + 1 \in Places(t))
        /\ \A i \in Places(t) : i = 0 \/ (i \in Nat /\ i # 0 /\ i - 1 # 0 /\ i - 1 \in Places(t)')
        /\ 0 \in Places(t)
    <3>1. 1 \notin Places(t)
        BY <1>2, <1>7 DEF Places
    <3>2. QED
        BY <1>4, <3>1 DEF Places
  <2>2. /\ Note(t, 0)' = Note(t, 0)
        /\ \A i \in Places(t)' : i # 0 => Note(t, i)' = Note(t, i + 1)
      BY <1>3, <1>4, <1>5, <1>7 DEF Note, Places
  <2>3. Linked(t)'
    <3> SUFFICES ASSUME NEW i \in Places(t)', NEW j \in Places(t)', i < j,
                        \A k \in Places(t)' : k <= i \/ k >= j
                 PROVE  Machine!CanTransition(Note(t, i)'.status, Note(t, j)'.status)
        BY DEF Linked
    <3>1. PICK i0 \in Places(t) : /\ IF i = 0 THEN i0 = 0 ELSE i0 = i + 1
                                  /\ Note(t, i)' = Note(t, i0)
        BY <2>1, <2>2
    <3>2. j \in Nat /\ j # 0 /\ j + 1 \in Places(t) /\ Note(t, j)' = Note(t, j + 1)
        BY <2>1, <2>2
    <3>3. i0 < j + 1 /\ \A k \in Places(t) : k <= i0 \/ k >= j + 1
        BY <2>1, <3>1, <3>2
    <3>4. QED
        BY <3>1, <3>2, <3>3 DEF ChainInv, ChainOf, Linked
  <2>4. Ends(t)'
    <3> SUFFICES ASSUME NEW i \in Places(t)', \A k \in Places(t)' : k <= i
                 PROVE  Fits(agent[t], Note(t, i))'
        BY DEF Ends
    <3>1. PICK i0 \in Places(t) : /\ IF i = 0 THEN i0 = 0 ELSE i0 = i + 1
                                  /\ Note(t, i)' = Note(t, i0)
        BY <2>1, <2>2
    <3>2. \A k \in Places(t) : k <= i0
        BY <2>1, <3>1
    <3>3. QED
        BY <1>3, <3>1, <3>2 DEF ChainInv, ChainOf, Ends, Fits
  <2>5. QED
      BY <1>5, <1>6, <1>7, <2>3, <2>4 DEF ChainOf, Due
<1>8. CASE m.task = t
  <2>1. /\ \A i \in Places(t)' : i \in Nat /\ i + 1 \in Places(t)
        /\ \A i \in Places(t) : i = 0 \/ (i \in Nat /\ i # 0 /\ i - 1 \in Places(t)')
        /\ 0 \in Places(t) /\ 1 \in Places(t)
      BY <1>2, <1>4, <1>8 DEF Places
  <2>2. \A i \in Places(t)' : Note(t, i)' = Note(t, i + 1)
      BY <1>2, <1>3, <1>4, <1>5, <1>8 DEF Note, Places
  <2>3. Linked(t)'
    <3> SUFFICES ASSUME NEW i \in Places(t)', NEW j \in Places(t)', i < j,
                        \A k \in Places(t)' : k <= i \/ k >= j
                 PROVE  Machine!CanTransition(Note(t, i)'.status, Note(t, j)'.status)
        BY DEF Linked
    <3>0. i \in Nat /\ j \in Nat /\ i + 1 < j + 1
        BY <2>1
    <3>1. ASSUME NEW k \in Places(t) PROVE k <= i + 1 \/ k >= j + 1
      <4>1. CASE k = 0
          BY <3>0, <4>1
      <4>2. CASE k \in Nat /\ k - 1 \in Places(t)'
        <5>1. k - 1 <= i \/ k - 1 >= j
            BY <4>2
        <5>2. QED
            BY <3>0, <4>2, <5>1
      <4>3. QED
          BY <2>1, <4>1, <4>2
    <3>2. QED
        BY <2>1, <2>2, <3>0, <3>1 DEF ChainInv, ChainOf, Linked
  <2>4. Ends(t)'
    <3> SUFFICES ASSUME NEW i \in Places(t)', \A k \in Places(t)' : k <= i
                 PROVE  Fits(agent[t], Note(t, i))'
        BY DEF Ends
    <3>1. \A k \in Places(t) : k <= i + 1
        BY <2>1
    <3>2. QED
        BY <1>3, <2>1, <2>2, <3>1 DEF ChainInv, ChainOf, Ends, Fits
  <2>5. Due(t)'
    <3>1. \A k \in Places(t) : k <= 0 \/ k >= 1
        BY <2>1
    <3>2. Machine!CanTransition(Note(t, 0).status, Note(t, 1).status)
        BY <2>1, <3>1 DEF ChainInv, ChainOf, Linked
    <3>3. Note(t, 0).status = row[t].status /\ Note(t, 1).status = StatusOf(m)
        BY <1>2, <1>5 DEF Note, NoteOf
    <3>4. QED
        BY <1>3, <3>2, <3>3 DEF Due
  <2>6. QED
      BY <1>6, <2>3, <2>4, <2>5 DEF ChainOf
<1>9. QED
    BY <1>7, <1>8

(* What the first write of a read loop leaves. *)
LEMMA WriteSays ==
  ASSUME Calm, CalmInv, NEW s \in Sessions, ReaderWrite(s), NEW m, m = reader[s].msg
  PROVE  /\ m \in Up /\ s = cur /\ UNCHANGED <<cur, up, agent, disp, cancel, pushed>>
         /\ reader'[s].msg = m
         /\ reader'[s].pc = IF StatusOf(m) \in Terminal THEN "finish" ELSE "notify"
         /\ \A u \in Sessions \ {s} : reader'[u] = reader[u]
         /\ row'[m.task].status = StatusOf(m)
         /\ StatusOf(m) \in Terminal => row'[m.task].retries = NoteOf(m).retries
         /\ row'[m.task].finished = row[m.task].finished
         /\ \A u \in Tasks \ {m.task} : row'[u] = row[u]
<1> USE DEF CalmInv, DeliveryInv, Types
<1>1. reader[s] # Idle /\ reader[s].pc = "write"
    BY DEF ReaderWrite, Idle
<1>2. m \in Up /\ s = cur /\ m.task \in Tasks
    BY <1>1 DEF ReaderOK, ReaderType, OneLink, Up
<1>3. UNCHANGED <<cur, up, agent, disp, cancel, pushed>>
    BY DEF ReaderWrite, linkVars
<1>4. reader' = [reader EXCEPT ![s].pc = IF StatusOf(m) \in Terminal THEN "finish" ELSE "notify"]
    BY CalmExcludes DEF ReaderWrite
<1>5. /\ reader'[s].msg = m
      /\ reader'[s].pc = IF StatusOf(m) \in Terminal THEN "finish" ELSE "notify"
      /\ \A u \in Sessions \ {s} : reader'[u] = reader[u]
    BY <1>1, <1>4 DEF ReaderOK, ReaderType
<1>6. /\ row'[m.task].status = StatusOf(m)
      /\ StatusOf(m) \in Terminal => row'[m.task].retries = NoteOf(m).retries
      /\ row'[m.task].finished = row[m.task].finished
      /\ \A u \in Tasks \ {m.task} : row'[u] = row[u]
  <2>0. row \in [Tasks -> RowType] /\ row[m.task] \in RowType
      BY <1>2 DEF RowOK
  <2>1. CASE m.kind = "accept" /\ MarkStarted(m.task)
    <3>1. /\ row'[m.task] = [row[m.task] EXCEPT !.status = "RUNNING", !.started = TRUE]
          /\ \A u \in Tasks \ {m.task} : row'[u] = row[u]
        BY <1>2, <2>0, <2>1, ZenonT(30) DEF MarkStarted
    <3>2. StatusOf(m) = "RUNNING" /\ StatusOf(m) \notin Terminal
        BY <2>1 DEF StatusOf, Terminal, Machine!Terminal
    <3>3. QED
        BY <2>0, <3>1, <3>2, SMTT(20) DEF RowType
  <2>2. CASE m.kind = "reject" /\ UpdateStatus(m.task, "FAILED", 0)
    <3>1. /\ row'[m.task] = [row[m.task] EXCEPT !.status = "FAILED", !.retries = 0]
          /\ \A u \in Tasks \ {m.task} : row'[u] = row[u]
        BY <1>2, <2>0, <2>2, ZenonT(30) DEF UpdateStatus
    <3>2. StatusOf(m) = "FAILED" /\ NoteOf(m).retries = 0
        BY <2>2 DEF StatusOf, NoteOf
    <3>3. QED
        BY <2>0, <3>1, <3>2, SMTT(20) DEF RowType
  <2>3. CASE m.kind \notin {"accept", "reject"} /\ UpdateStatus(m.task, m.kind, m.retries)
    <3>1. /\ row'[m.task] = [row[m.task] EXCEPT !.status = m.kind, !.retries = m.retries]
          /\ \A u \in Tasks \ {m.task} : row'[u] = row[u]
        BY <1>2, <2>0, <2>3, ZenonT(30) DEF UpdateStatus
    <3>2. StatusOf(m) = m.kind /\ NoteOf(m).retries = m.retries
        BY <2>3 DEF StatusOf, NoteOf
    <3>3. QED
        BY <2>0, <3>1, <3>2 DEF RowType
  <2>4. QED
      BY <2>1, <2>2, <2>3, CalmExcludes DEF ReaderWrite
<1>7. QED
    BY <1>2, <1>3, <1>5, <1>6

LEMMA WriteKeepsChain ==
  ASSUME Calm, CalmInv, NEW s \in Sessions, ReaderWrite(s), NEW t \in Undisturbed
  PROVE  ChainOf(t)'
<1>1. PICK m : m = reader[s].msg
    OBVIOUS
<1>2. /\ m \in Up /\ s = cur /\ UNCHANGED <<cur, up, agent>>
      /\ reader'[s].msg = m /\ reader'[s].pc \in {"finish", "notify"}
      /\ row'[m.task].status = StatusOf(m)
      /\ StatusOf(m) \in Terminal => row'[m.task].retries = NoteOf(m).retries
      /\ \A u \in Tasks \ {m.task} : row'[u] = row[u]
    BY <1>1, WriteSays
<1>3. ~Writing(t)' /\ (Writing(t) <=> m.task = t) /\ Stream' = Stream
    BY <1>1, <1>2 DEF Writing, Stream, ReaderWrite
<1>4. Unretried(t)' /\ Due(t)'
    BY <1>2, <1>3 DEF CalmInv, ChainInv, ChainOf, Unretried, Due
<1>5. Places(t)' = Places(t) /\ \A i \in Places(t) : i # 0 => Note(t, i)' = Note(t, i)
    BY <1>3 DEF Places, Note
<1>6. /\ Note(t, 0)'.status = Note(t, 0).status
      /\ Note(t, 0).status \in Terminal => Note(t, 0)'.retries = Note(t, 0).retries
  <2>1. CASE m.task = t
      BY <1>1, <1>2, <1>3, <2>1 DEF Note, NoteOf
  <2>2. CASE m.task # t
      BY <1>2, <1>3, <2>2 DEF Note, Undisturbed
  <2>3. QED
      BY <2>1, <2>2
<1>7. Linked(t)'
    BY <1>5, <1>6 DEF CalmInv, ChainInv, ChainOf, Linked
<1>8. Ends(t)'
    BY <1>2, <1>5, <1>6 DEF CalmInv, ChainInv, ChainOf, Ends, Fits, Terminal, Machine!Terminal
<1>9. QED
    BY <1>4, <1>7, <1>8 DEF ChainOf

LEMMA ReaderKeepsChain ==
  ASSUME Calm, CalmInv, NEW s \in Sessions, ReaderStep(s), NEW t \in Undisturbed
  PROVE  ChainOf(t)'
<1>1. ASSUME ReaderFinish(s) \/ ReaderNotify(s) PROVE ChainOf(t)'
  <2>1. UNCHANGED <<cur, up, agent>> /\ Stream' = Stream
      BY <1>1 DEF ReaderFinish, ReaderNotify, linkVars, Stream
  <2>2. /\ reader[s].pc \in {"finish", "notify"} /\ reader'[s].pc \in {"notify", "idle"}
        /\ reader[s].msg.task \in Tasks
        /\ \A u \in Sessions \ {s} : reader'[u] = reader[u]
      BY <1>1, CalmExcludes DEF ReaderFinish, ReaderNotify, Idle, CalmInv, DeliveryInv, Types,
         ReaderOK, ReaderType, Up
  <2>3. row'[t].status = row[t].status /\ row'[t].retries = row[t].retries
    <3>1. CASE ReaderNotify(s)
        BY <3>1 DEF ReaderNotify
    <3>2. CASE ReaderFinish(s)
        BY <2>2, <3>2, CalmExcludes DEF ReaderFinish, MarkFinished, CalmInv, DeliveryInv, Types,
           RowOK, RowType, Written, Undisturbed
    <3>3. QED
        BY <1>1, <3>1, <3>2
  <2>4. ~(cur = s /\ Writing(t)) /\ (Writing(t)' <=> Writing(t))
        /\ (Writing(t) => reader'[cur'].msg = reader[cur].msg)
      BY <2>1, <2>2 DEF Writing
  <2>5. QED
      BY <2>1, <2>3, <2>4, ChainFrame DEF CalmInv, ChainInv
<1>2. QED
    BY <1>1, TakeKeepsChain, WriteKeepsChain DEF ReaderStep

(* What was written, shown and stamped: one lemma for each group of steps. *)
Seen == Written /\ Shown /\ Stamped

LEMMA CreateKeepsSeen ==
  ASSUME CalmInv, OneDispatcher, NEW t \in Tasks, CreateStep(t)
  PROVE  Seen'
<1> USE DEF CalmInv, DeliveryInv, Types
<1>1. CASE CreateTask(t)
  <2>1. UNCHANGED <<reader, cancel, pushed>>
      BY <1>1 DEF CreateTask
  <2>2. /\ row[t].status = "NONE" /\ row'[t].status = "PENDING"
        /\ \A u \in Tasks \ {t} : row'[u] = row[u]
      BY <1>1 DEF CreateTask, RowOK, RowType
  <2>3. \A s \in Sessions : reader[s].pc \in {"finish", "notify"} => reader[s].msg.task # t
    <3>1. agent[t].copies = 0
        BY <2>2, UnknownIsFresh
    <3>2. QED
        BY <3>1 DEF HandledGiven, Given, Idle
  <2>4. Written'
      BY <2>1, <2>2, <2>3 DEF Written, Undisturbed
  <2>5. Shown'
    <3>1. PICK d : d \in Dispatchers
        BY DEF OneDispatcher
    <3>2. disp'[<<t, d>>] = "created"
        BY <1>1, <3>1 DEF CreateTask, DispOK
    <3>3. \A u \in Tasks \ {t}, e \in Dispatchers : disp'[<<u, e>>] = disp[<<u, e>>]
        BY <1>1 DEF CreateTask, DispOK
    <3>4. QED
        BY <2>1, <2>2, <3>1, <3>2, <3>3 DEF Shown, Undisturbed
  <2>6. Stamped'
      BY <2>1, <2>2 DEF Stamped, Terminal, Machine!Terminal
  <2>7. QED
      BY <2>4, <2>5, <2>6 DEF Seen
<1>2. CASE NotifyCreated(t)
  <2>1. UNCHANGED <<row, reader, cancel>>
      BY <1>2 DEF NotifyCreated
  <2>2. Shown'
    <3>1. \A u \in Tasks \ {t} : /\ pushed'[u] = pushed[u]
                                 /\ \A e \in Dispatchers : disp'[<<u, e>>] = disp[<<u, e>>]
        BY <1>2 DEF NotifyCreated, Push, PushedOK, DispOK
    <3>2. ASSUME t \in Undisturbed PROVE pushed'[t] = row'[t].status
      <4>1. PICK d \in Dispatchers : disp[<<t, d>>] = "created"
          BY <1>2 DEF NotifyCreated
      <4>2. row[t].status # "NONE" /\ agent[t].copies = 0
          BY <4>1 DEF CopyInv, UnknownIsIdle, UnsentNowhere, Before
      <4>3. row[t].status = "PENDING"
          BY <3>2, <4>2, FreshTask
      <4>4. QED
          BY <1>2, <2>1, <4>3 DEF NotifyCreated, Push, PushedOK
    <3>3. QED
        BY <2>1, <3>1, <3>2 DEF Shown, Undisturbed
  <2>3. QED
      BY <2>1, <2>2 DEF Seen, Written, Stamped
<1>3. QED
    BY <1>1, <1>2 DEF CreateStep

LEMMA DispatchKeepsSeen ==
  ASSUME CalmInv, NEW t \in Tasks, NEW d \in Dispatchers, DispatchStep(t, d)
  PROVE  Seen'
<1> USE DEF CalmInv, DeliveryInv, Types
<1>1. UNCHANGED <<reader, cancel, pushed>>
    BY DEF DispatchStep, DispatchRead, DispatchSend, DispatchMark
<1>2. \A u \in Tasks : row'[u].status = row[u].status /\ row'[u].finished = row[u].finished
    BY DEF DispatchStep, DispatchRead, DispatchSend, DispatchMark, MarkDispatched, RowOK, RowType
<1>3. \A u \in Tasks, e \in Dispatchers :
        disp[<<u, e>>] = "created" => disp'[<<u, e>>] = "created"
    BY DEF DispatchStep, DispatchRead, DispatchSend, DispatchMark, DispOK
<1>4. Written'
    BY <1>1, <1>2 DEF Written, Undisturbed
<1>5. Shown'
    BY <1>1, <1>2, <1>3 DEF Shown, Undisturbed
<1>6. Stamped'
    BY <1>1, <1>2 DEF Stamped
<1>7. QED
    BY <1>4, <1>5, <1>6 DEF Seen

LEMMA CancelKeepsSeen ==
  ASSUME Calm, CalmInv, NEW c \in Cancels, CancelStep(c) \/ \E t \in Tasks : CancelRead(c, t)
  PROVE  Seen'
<1> USE CalmExcludes DEF CalmInv, DeliveryInv, Types
<1>1. UNCHANGED <<reader, disp>>
    BY DEF CancelStep, CancelRead, CancelMark, CancelFinish, CancelControl, CancelNotify
<1>2. ASSUME CancelStep(c)
      PROVE  cancel[c].task \in Tasks /\ cancel[c].task \notin Undisturbed /\ cancel[c] # Idle
    BY <1>2, TaskAssumption DEF CancelStep, CancelMark, CancelFinish, CancelControl,
       CancelNotify, Idle, CancelsKnown, RequestsKnown, Undisturbed
<1>3. \A u \in Undisturbed : row'[u] = row[u] /\ pushed'[u] = pushed[u]
  <2>1. CASE CancelStep(c)
      BY <1>2, <2>1 DEF CancelStep, CancelMark, CancelFinish, CancelControl, CancelNotify,
         UpdateStatus, MarkFinished, Push, RowOK, PushedOK, Undisturbed
  <2>2. CASE \E t \in Tasks : CancelRead(c, t)
      BY <2>2 DEF CancelRead
  <2>3. QED
      BY <2>1, <2>2, SMTT(20)
<1>4. Written' /\ Shown'
    BY <1>1, <1>3 DEF Written, Shown
<1>5. Stamped'
  <2>1. ASSUME UNCHANGED row, cancel[c].pc # "finish",
               \A b \in Cancels \ {c} : cancel'[b] = cancel[b]
        PROVE  Stamped'
      BY <1>1, <2>1 DEF Stamped
  <2>2. CASE CancelControl(c) \/ CancelNotify(c) \/ \E t \in Tasks : CancelRead(c, t)
      BY <2>1, <2>2 DEF CancelControl, CancelNotify, CancelRead, CancelOK, Idle
  <2>3. CASE CancelMark(c)
    <3>1. /\ cancel'[c].pc = "finish" /\ cancel'[c].task = cancel[c].task
          /\ \A b \in Cancels \ {c} : cancel'[b] = cancel[b]
          /\ cancel[c].pc # "finish"
        BY <1>2, <2>3 DEF CancelStep, CancelMark, CancelOK, CancelType
    <3>2. \A u \in Tasks \ {cancel[c].task} : row'[u] = row[u]
        BY <2>3 DEF CancelMark, UpdateStatus, RowOK
    <3>3. QED
        BY <1>1, <3>1, <3>2 DEF Stamped
  <2>4. CASE CancelFinish(c)
    <3>1. row'[cancel[c].task].finished
        BY <1>2, <2>4 DEF CancelStep, CancelFinish, MarkFinished, RowOK, RowType
    <3>2. /\ \A b \in Cancels \ {c} : cancel'[b] = cancel[b]
          /\ \A u \in Tasks \ {cancel[c].task} : row'[u] = row[u]
        BY <2>4 DEF CancelFinish, MarkFinished, RowOK, CancelOK
    <3>3. QED
        BY <1>1, <3>1, <3>2 DEF Stamped
  <2>5. QED
      BY <2>2, <2>3, <2>4 DEF CancelStep
<1>6. QED
    BY <1>4, <1>5 DEF Seen

LEMMA ReaderKeepsSeen ==
  ASSUME Calm, CalmInv, NEW s \in Sessions, ReaderStep(s)
  PROVE  Seen'
<1> USE CalmExcludes DEF CalmInv, DeliveryInv, Types
<1>1. CASE ReaderTake(s)
  <2>1. UNCHANGED <<row, disp, cancel, pushed>> /\ reader[s].pc = "idle"
      BY <1>1 DEF ReaderTake, Idle
  <2>2. reader'[s].pc = "write" /\ \A u \in Sessions \ {s} : reader'[u] = reader[u]
      BY <1>1 DEF ReaderTake, ReaderOK
  <2>3. QED
      BY <2>1, <2>2 DEF Seen, Written, Shown, Stamped
<1>2. CASE ReaderWrite(s)
  <2>1. PICK m : m = reader[s].msg
      OBVIOUS
  <2>2. /\ m \in Up /\ s = cur /\ UNCHANGED <<cur, up, agent, disp, cancel, pushed>>
        /\ reader'[s].msg = m
        /\ reader'[s].pc = IF StatusOf(m) \in Terminal THEN "finish" ELSE "notify"
        /\ \A u \in Sessions \ {s} : reader'[u] = reader[u]
        /\ row'[m.task].status = StatusOf(m)
        /\ row'[m.task].finished = row[m.task].finished
        /\ \A u \in Tasks \ {m.task} : row'[u] = row[u]
      BY <1>2, <2>1, WriteSays
  <2>3. reader[s].pc = "write" /\ \A u \in Sessions \ {s} : reader'[u].pc = "idle"
      BY <1>2, <2>2 DEF ReaderWrite, OneLink, Idle
  <2>4. Written'
      BY <2>2, <2>3 DEF Written
  <2>5. Shown'
      BY <2>2, <2>3 DEF Shown, Undisturbed
  <2>6. Stamped'
      BY <2>2, <2>3 DEF Stamped
  <2>7. QED
      BY <2>4, <2>5, <2>6 DEF Seen
<1>3. CASE ReaderFinish(s)
  <2>1. PICK m : m = reader[s].msg
      OBVIOUS
  <2>2. /\ reader[s] # Idle /\ reader[s].pc = "finish" /\ UNCHANGED <<disp, cancel, pushed>>
        /\ MarkFinished(m.task, StatusOf(m))
        /\ reader' = [reader EXCEPT ![s].pc = "notify"]
      BY <1>3, <2>1 DEF ReaderFinish, Idle
  <2>3. m.task \in Tasks
      BY <2>1, <2>2 DEF ReaderOK, ReaderType, Up
  <2>4. /\ reader'[s].pc = "notify" /\ reader'[s].msg = m
        /\ \A u \in Sessions \ {s} : reader'[u] = reader[u]
      BY <2>1, <2>2 DEF ReaderOK, ReaderType
  <2>5. /\ row'[m.task].status = StatusOf(m) /\ row'[m.task].finished
        /\ \A u \in Tasks \ {m.task} : row'[u] = row[u]
      BY <2>2, <2>3 DEF MarkFinished, RowOK, RowType
  <2>6. m.task \in Undisturbed => row[m.task].status = StatusOf(m)
      BY <2>1, <2>2 DEF Written
  <2>7. Written'
      BY <2>1, <2>4, <2>5, <2>6 DEF Written, Undisturbed
  <2>8. Shown'
      BY <2>1, <2>2, <2>4, <2>5 DEF Shown, Undisturbed
  <2>9. Stamped'
      BY <2>1, <2>2, <2>4, <2>5 DEF Stamped
  <2>10. QED
      BY <2>7, <2>8, <2>9 DEF Seen
<1>4. CASE ReaderNotify(s)
  <2>1. PICK m : m = reader[s].msg
      OBVIOUS
  <2>2. /\ reader[s].pc = "notify" /\ UNCHANGED <<row, disp, cancel>>
        /\ pushed' = [pushed EXCEPT ![m.task] = StatusOf(m)]
        /\ reader'[s].pc = "idle" /\ \A u \in Sessions \ {s} : reader'[u] = reader[u]
      BY <1>4, <2>1 DEF ReaderNotify, Push, Idle, ReaderOK
  <2>3. m.task \in Undisturbed => row[m.task].status = StatusOf(m)
      BY <2>1, <2>2 DEF Written
  <2>4. Written'
      BY <2>2 DEF Written
  <2>5. Shown'
    <3>1. \A u \in Undisturbed \ {m.task} : pushed'[u] = pushed[u]
        BY <2>2 DEF PushedOK, Undisturbed
    <3>2. m.task \in Undisturbed => pushed'[m.task] = row'[m.task].status
        BY <2>2, <2>3 DEF PushedOK, Undisturbed
    <3>3. QED
        BY <2>1, <2>2, <3>1, <3>2 DEF Shown
  <2>6. Stamped'
      BY <2>2 DEF Stamped
  <2>7. QED
      BY <2>4, <2>5, <2>6 DEF Seen
<1>5. QED
    BY <1>1, <1>2, <1>3, <1>4 DEF ReaderStep

LEMMA CalmInitial == Init /\ OneDispatcher => CalmInv
<1> SUFFICES ASSUME Init, OneDispatcher PROVE CalmInv
    OBVIOUS
<1>1. DeliveryInv /\ CopyInv
    BY DeliveryInitial, CopyInitial
<1>2. OneLink /\ CancelsKnown
    BY DEF Init, OneLink, CancelsKnown, RequestsKnown, OrdersKnown
<1>3. ChainInv
  <2> SUFFICES ASSUME NEW t \in Undisturbed PROVE ChainOf(t)
      BY DEF ChainInv
  <2>1. t \in Tasks
      BY DEF Undisturbed
  <2>2. Places(t) = {0} /\ ~Writing(t)
      BY DEF Init, Places, Writing, Stream, Idle
  <2>3. Fits(agent[t], Note(t, 0)) /\ Unretried(t)
      BY <2>1, <2>2 DEF Init, Fits, Note, Unretried
  <2>4. QED
      BY <2>2, <2>3 DEF ChainOf, Due, Linked, Ends
<1>4. Written /\ Shown /\ Stamped
    BY DEF Init, Written, Shown, Stamped, Idle, Undisturbed, Terminal, Machine!Terminal
<1>5. QED
    BY <1>1, <1>2, <1>3, <1>4 DEF CalmInv

LEMMA CalmStep ==
  ASSUME Calm, OneDispatcher
  PROVE  CalmInv /\ [Next]_vars => CalmInv'
<1> SUFFICES ASSUME CalmInv, [Next]_vars PROVE CalmInv'
    OBVIOUS
<1>1. DeliveryInv' /\ CopyInv'
    BY DeliveryStep, CopyStep DEF CalmInv, DeliveryInv
<1>2. CASE UNCHANGED vars
  <2>1. Stream' = Stream /\ \A t \in Tasks : Writing(t)' <=> Writing(t)
      BY <1>2 DEF vars, linkVars, Stream, Writing
  <2>2. ChainInv'
      BY <1>2, <2>1, ChainFrame DEF vars, linkVars, CalmInv, ChainInv, Undisturbed
  <2>3. OneLink' /\ CancelsKnown'
      BY <1>2 DEF vars, linkVars, CalmInv, OneLink, CancelsKnown, RequestsKnown, OrdersKnown
  <2>4. Written' /\ Shown' /\ Stamped'
      BY <1>2 DEF vars, CalmInv, Written, Shown, Stamped
  <2>5. QED
      BY <1>1, <2>2, <2>3, <2>4 DEF CalmInv
<1>3. CASE Next
  <2>1. Types /\ OneLink /\ CancelsKnown
      BY DEF CalmInv, DeliveryInv
  <2>2. OneLink' /\ CancelsKnown'
      BY <1>3, <2>1, OneLinkStep, CancelsKnownStep
  <2>3. ChainInv'
    <3> SUFFICES ASSUME NEW t \in Undisturbed PROVE ChainOf(t)'
        BY DEF ChainInv
    <3>1. QED
        BY <1>3, <2>1, CalmExcludes, ServerKeepsChain, AttachKeepsChain, ReceiveKeepsChain,
           AgentKeepsChain, ReaderKeepsChain DEF Next
  <2>4. Seen'
    <3>1. ASSUME UNCHANGED <<row, disp, cancel, reader, pushed>> PROVE Seen'
        BY <3>1, SMTT(20) DEF CalmInv, Seen, Written, Shown, Stamped
    <3>2. ASSUME Receive \/ (\E t \in Tasks : AgentAnswers(t)) \/ \E s \in Sessions : Attach(s)
          PROVE  UNCHANGED <<row, disp, cancel, reader, pushed>>
        BY <3>2, ZenonT(30) DEF Receive, AgentAnswers, Report, Attach
    <3>3. QED
        BY <1>3, <2>1, <3>1, <3>2, CalmExcludes, CreateKeepsSeen, DispatchKeepsSeen,
           CancelKeepsSeen, ReaderKeepsSeen DEF Next
  <2>5. QED
      BY <1>1, <2>2, <2>3, <2>4 DEF CalmInv, Seen
<1>4. QED
    BY <1>2, <1>3

(* Every step of the handlers is a step of status.go's machine, or none. *)
LEMMA StepFollowsMachine ==
  ASSUME Calm, OneDispatcher, CalmInv, [Next]_vars
  PROVE  [Machine!Next]_([t \in Undisturbed |-> row[t].status])
<1> SUFFICES ASSUME ~(\A t \in Undisturbed : row'[t].status = row[t].status)
             PROVE  Machine!Next
    OBVIOUS
<1> USE CalmExcludes DEF CalmInv, DeliveryInv, Types
<1>1. \/ \E t \in Tasks : CreateTask(t)
      \/ \E s \in Sessions : ReaderWrite(s)
  <2>1. ASSUME UNCHANGED row PROVE FALSE
      BY <2>1
  <2>2. ~UNCHANGED vars
      BY <2>1 DEF vars
  <2>3. ASSUME NEW t \in Tasks, NEW d \in Dispatchers, DispatchStep(t, d) PROVE FALSE
      BY <2>3 DEF DispatchStep, DispatchRead, DispatchSend, DispatchMark, MarkDispatched,
         RowOK, RowType, Undisturbed
  <2>4. ASSUME NEW c \in Cancels, CancelStep(c) PROVE FALSE
    <3>1. cancel[c].task \notin Undisturbed
        BY <2>4, SMTT(20) DEF CancelStep, CancelMark, CancelFinish, CancelControl, CancelNotify, Idle,
           CancelsKnown, RequestsKnown, Undisturbed
    <3>2. QED
        BY <2>4, <3>1 DEF CancelStep, CancelMark, CancelFinish, CancelControl, CancelNotify,
           UpdateStatus, MarkFinished, RowOK, Undisturbed
  <2>5. ASSUME NEW s \in Sessions, ReaderFinish(s) PROVE FALSE
    <3>1. /\ reader[s].pc = "finish" /\ reader[s].msg.task \in Tasks
          /\ MarkFinished(reader[s].msg.task, StatusOf(reader[s].msg))
        BY <2>5 DEF ReaderFinish, Idle, ReaderOK, ReaderType, Up
    <3>2. QED
        BY <3>1, ZenonT(30) DEF Written, MarkFinished, RowOK, RowType, Undisturbed
  <2>6. ASSUME NEW s \in Sessions, ReaderTake(s) \/ ReaderNotify(s) \/ Attach(s)
        PROVE  FALSE
      BY <2>1, <2>6 DEF ReaderTake, ReaderNotify, Attach
  <2>7. ASSUME NEW t \in Tasks, NotifyCreated(t) \/ AgentAnswers(t) PROVE FALSE
      BY <2>1, <2>7 DEF NotifyCreated, AgentAnswers, Report
  <2>8. ASSUME Receive \/ \E c \in Cancels, t \in Tasks : CancelRead(c, t) PROVE FALSE
      BY <2>1, <2>8 DEF Receive, CancelRead
  <2>9. QED
      BY <2>2, <2>3, <2>4, <2>5, <2>6, <2>7, <2>8 DEF Next, CreateStep, ReaderStep
<1>2. ASSUME NEW t \in Tasks, CreateTask(t) PROVE Machine!Next
  <2>1. /\ row[t].status = "NONE" /\ row'[t].status = "PENDING"
        /\ \A u \in Tasks \ {t} : row'[u] = row[u]
      BY <1>2 DEF CreateTask, RowOK, RowType
  <2>2. t \in Undisturbed
      BY <2>1 DEF Undisturbed
  <2>3. Machine!Submit(t)
      BY <2>1, <2>2 DEF Machine!Submit, Undisturbed
  <2>4. QED
      BY <2>2, <2>3 DEF Machine!Next
<1>3. ASSUME NEW s \in Sessions, ReaderWrite(s) PROVE Machine!Next
  <2>1. PICK m : m = reader[s].msg
      OBVIOUS
  <2>2. /\ m \in Up /\ s = cur /\ row'[m.task].status = StatusOf(m)
        /\ \A u \in Tasks \ {m.task} : row'[u] = row[u]
      BY <1>3, <2>1, WriteSays
  <2>3. m.task \in Undisturbed
      BY <2>2 DEF Undisturbed
  <2>4. Machine!CanTransition(row[m.task].status, StatusOf(m))
    <3>1. Writing(m.task)
        BY <1>3, <2>1, <2>2 DEF Writing, ReaderWrite
    <3>2. QED
        BY <2>1, <2>2, <2>3, <3>1 DEF ChainInv, ChainOf, Due
  <2>5. Machine!Transition(m.task, StatusOf(m))
      BY <2>2, <2>3, <2>4 DEF Machine!Transition, Undisturbed
  <2>6. StatusOf(m) \in Machine!Statuses
      BY <2>2, StatusOfType
  <2>7. QED
      BY <2>3, <2>5, <2>6 DEF Machine!Next
<1>4. QED
    BY <1>1, <1>2, <1>3

LEMMA CalmAlways ==
  ASSUME Calm, OneDispatcher
  PROVE  Spec => []CalmInv
<1>1. Init => CalmInv
    BY CalmInitial
<1>2. CalmInv /\ [Next]_vars => CalmInv'
    BY CalmStep
<1>3. QED
    BY <1>1, <1>2, PTL DEF Spec

(* FollowsMachine: the handlers, which write statuses without a look at    *)
(* the row, implement the state machine of status.go for the tasks nobody  *)
(* cancels, while no statement fails and the connection and the process    *)
(* hold.                                                                   *)
THEOREM MachineImplemented ==
  ASSUME Calm, OneDispatcher
  PROVE  Spec => FollowsMachine
<1>1. Init => Machine!Init
    BY DEF Init, Machine!Init, Undisturbed
<1>2. CalmInv /\ [Next]_vars => [Machine!Next]_([t \in Undisturbed |-> row[t].status])
    BY StepFollowsMachine
<1>3. Spec => []CalmInv
    BY CalmAlways
<1>4. QED
    BY <1>1, <1>2, <1>3, PTL DEF Spec, FollowsMachine, Machine!Spec

(* ResultRecorded: the row tells how the task ended and how often the      *)
(* agent retried it, in the same calm.                                     *)
THEOREM ResultRecordedAlways ==
  ASSUME Calm, OneDispatcher
  PROVE  Spec => []ResultRecorded
<1>1. CalmInv => ResultRecorded
  <2> SUFFICES ASSUME CalmInv, NEW t \in Undisturbed, agent[t].state = "over", Quiet(t)
               PROVE  row[t].status \in Terminal /\ row[t].retries = agent[t].retries
      BY DEF ResultRecorded
  <2>1. Places(t) = {0} /\ ~Writing(t)
    <3>1. ASSUME NEW i \in 1..Len(Stream) PROVE Stream[i].task # t
      <4>1. cur \in Sessions /\ Stream = up[cur] /\ up[cur] \in Seq(Up)
          BY <3>1 DEF Stream, CalmInv, DeliveryInv, Types, UpOK
      <4>2. i \in DOMAIN up[cur]
          BY <3>1, <4>1
      <4>3. QED
          BY <4>1, <4>2 DEF Quiet
    <3>2. QED
        BY <3>1 DEF Places, Writing, Quiet, Idle
  <2>2. Fits(agent[t], Note(t, 0))
      BY <2>1 DEF CalmInv, ChainInv, ChainOf, Ends
  <2>3. QED
      BY <2>1, <2>2 DEF Fits, Note, Terminal, Machine!Terminal
<1>2. QED
    BY <1>1, CalmAlways, PTL

(* PushedIsCurrent: at rest the user has been shown the row's status, in   *)
(* the same calm.                                                          *)
THEOREM PushedIsCurrentAlways ==
  ASSUME Calm, OneDispatcher
  PROVE  Spec => []PushedIsCurrent
<1>1. CalmInv => PushedIsCurrent
  <2> SUFFICES ASSUME CalmInv, NEW t \in Undisturbed, Quiet(t)
               PROVE  pushed[t] = row[t].status
      BY DEF PushedIsCurrent
  <2>1. \A d \in Dispatchers : disp[<<t, d>>] # "created"
      BY DEF Quiet
  <2>2. \A s \in Sessions :
          reader[s].pc \in {"finish", "notify"} => reader[s].msg.task # t
      BY DEF Quiet, Idle
  <2>3. QED
      BY <2>1, <2>2 DEF CalmInv, Shown
<1>2. QED
    BY <1>1, CalmAlways, PTL

(* TerminalIsStamped: at rest a terminal status carries its time, even     *)
(* where a cancellation and a result met, in the same calm.                *)
THEOREM TerminalIsStampedAlways ==
  ASSUME Calm, OneDispatcher
  PROVE  Spec => []TerminalIsStamped
<1>1. CalmInv => TerminalIsStamped
    BY DEF CalmInv, Stamped, TerminalIsStamped, Quiet, Idle
<1>2. QED
    BY <1>1, CalmAlways, PTL

-----------------------------------------------------------------------------
(* Why a row only moves forwards, whatever fails: what the agent says of a *)
(* task it says in the order of the task's life, a message is handled      *)
(* before the next one is taken, and all that is still to be said, or to   *)
(* be written for the current connection, is ahead of the row and of what  *)
(* a cancelling request remembers of it.                                   *)
Last == 2 * MaxRetry + 4
StageOf(m) == Stage([status |-> StatusOf(m), retries |-> m.retries])
NextStage(t) ==      \* a bound on what the agent says next of task t
  CASE agent[t].state = "working"  -> 2 * agent[t].retries + 4
    [] agent[t].state = "retrying" -> 2 * agent[t].retries + 3
    [] agent[t].state = "over"     -> Last + 1
    [] OTHER                       -> 3
Speaks(s, t) == reader[s] # Idle /\ reader[s].msg.task = t
HandledStage(s) == StageOf(reader[s].msg)
Ended(t) == row[t].status \in {"SUCCESS", "FAILED"}

(* No write behind stage n has been made or is being prepared. *)
Clear(t, n) ==
  /\ 2 * row[t].retries + 3 <= n
  /\ Ended(t) => Last < n
  /\ \A c \in Cancels :
       cancel[c].pc = "mark" /\ cancel[c].task = t => 2 * cancel[c].retries + 3 <= n

HandledSaid  == \A s \in Sessions, t \in Tasks : Speaks(s, t) => HandledStage(s) < NextStage(t)
MessagesSaid == \A s \in Sessions : \A i \in 1..Len(up[s]) :
  StageOf(up[s][i]) < NextStage(up[s][i].task)
SaidInOrder  == \A s \in Sessions : \A i, j \in 1..Len(up[s]) :
  i < j /\ up[s][i].task = up[s][j].task => StageOf(up[s][i]) < StageOf(up[s][j])
HandledFirst == \A r, s \in Sessions : \A i \in 1..Len(up[s]) :
  Speaks(r, up[s][i].task) => HandledStage(r) < StageOf(up[s][i])
OldFirst     == \A s \in Sessions \ {cur}, t \in Tasks :
  cur \in Sessions /\ Speaks(s, t) /\ Speaks(cur, t) => HandledStage(s) < HandledStage(cur)
NewIsIdle    == /\ cur \in Sessions => cur \in spent
                /\ \A s \in Sessions \ spent : reader[s] = Idle
OldSaysNothing == \A s \in Sessions \ {cur} : Len(up[s]) = 0
InOrder == /\ HandledSaid /\ MessagesSaid /\ SaidInOrder /\ HandledFirst
           /\ OldFirst /\ NewIsIdle /\ OldSaysNothing

AgentAhead    == \A t \in Tasks : Clear(t, NextStage(t))
MessagesAhead == \A s \in Sessions : \A i \in 1..Len(up[s]) :
  Clear(up[s][i].task, StageOf(up[s][i]))
WriteAhead    == \A t \in Tasks :
  cur \in Sessions /\ Speaks(cur, t) /\ reader[cur].pc = "write" => Clear(t, HandledStage(cur))
FinishEnds    == \A s \in Sessions :
  reader[s].pc = "finish" => StatusOf(reader[s].msg) \in {"SUCCESS", "FAILED"}
FinishAgrees  == \A t \in Tasks :
  cur \in Sessions /\ Speaks(cur, t) /\ reader[cur].pc = "finish" /\ Ended(t) =>
    row[t].status = StatusOf(reader[cur].msg)
RowBehind == AgentAhead /\ MessagesAhead /\ WriteAhead /\ FinishEnds /\ FinishAgrees

AdvanceInv == DeliveryInv /\ CopyInv /\ InOrder /\ RowBehind

(* The stages are numbers, and a message of a terminal status is the last. *)
LEMMA StageOfKind ==
  ASSUME NEW m \in Up
  PROVE  /\ StageOf(m) = IF m.kind \in {"accept", "RUNNING"} THEN 2 * m.retries + 3
                         ELSE IF m.kind = "RETRYING" THEN 2 * m.retries + 2 ELSE Last
         /\ StageOf(m) \in Nat /\ StageOf(m) <= Last /\ m.retries \in 0..MaxRetry
         /\ m.task \in Tasks /\ Last \in Nat
         /\ StatusOf(m) \in {"SUCCESS", "FAILED"} => StageOf(m) = Last
<1>1. m.retries \in 0..MaxRetry /\ m.task \in Tasks
    BY DEF Up
<1>2. CASE m.kind \in {"accept", "RUNNING"}
    BY <1>1, <1>2, TaskAssumption DEF StageOf, Stage, StatusOf, Last
<1>3. CASE m.kind = "RETRYING"
    BY <1>1, <1>3, TaskAssumption DEF StageOf, Stage, StatusOf, Last
<1>4. CASE m.kind \in {"reject", "SUCCESS", "FAILED"}
    BY <1>1, <1>4, TaskAssumption DEF StageOf, Stage, StatusOf, Last
<1>5. QED
    BY <1>2, <1>3, <1>4 DEF Up

LEMMA MessagesTyped ==
  ASSUME Types
  PROVE  /\ \A s \in Sessions : up[s] \in Seq(Up)
         /\ \A s \in Sessions : \A i \in 1..Len(up[s]) : up[s][i] \in Up
         /\ \A s \in Sessions : reader[s] # Idle => reader[s].msg \in Up
<1>1. \A s \in Sessions : up[s] \in Seq(Up)
    BY DEF Types, UpOK
<1>2. \A s \in Sessions : \A i \in 1..Len(up[s]) : up[s][i] \in Up
    BY <1>1
<1>3. \A s \in Sessions : reader[s] # Idle => reader[s].msg \in Up
    BY DEF Types, ReaderOK, ReaderType
<1>4. QED
    BY <1>1, <1>2, <1>3

LEMMA NextStageNat ==
  ASSUME Types, NEW t \in Tasks
  PROVE  NextStage(t) \in Nat /\ 3 <= NextStage(t) /\ Last \in Nat
<1>1. agent[t].retries \in 0..MaxRetry
    BY DEF Types, AgentOK, AgentType
<1>2. QED
    BY <1>1, TaskAssumption DEF NextStage, Last

LEMMA ClearUpwards ==
  ASSUME Types, NEW t \in Tasks, NEW n \in Nat, NEW k \in Nat, n <= k, Clear(t, n)
  PROVE  Clear(t, k)
<1>1. row[t].retries \in Nat /\ Last \in Nat
    BY TaskAssumption DEF Types, RowOK, RowType, Last
<1>2. \A c \in Cancels : cancel[c].pc = "mark" => cancel[c].retries \in Nat
    BY DEF Types, CancelOK, CancelType, Idle
<1>3. QED
    BY <1>1, <1>2 DEF Clear

LEMMA AdvanceInitial == Init => InOrder /\ RowBehind
<1> SUFFICES ASSUME Init PROVE InOrder /\ RowBehind
    OBVIOUS
<1>0. cur \notin Sessions
    BY TaskAssumption DEF Init
<1>1. /\ \A s \in Sessions : reader[s] = Idle /\ Len(up[s]) = 0
      /\ \A c \in Cancels : cancel[c] = Idle
    BY DEF Init
<1>2. InOrder
    BY <1>0, <1>1 DEF InOrder, HandledSaid, MessagesSaid, SaidInOrder, HandledFirst,
       OldFirst, NewIsIdle, OldSaysNothing, Speaks
<1>3. AgentAhead
    BY <1>1 DEF Init, AgentAhead, Clear, NextStage, Ended, Idle
<1>4. QED
    BY <1>1, <1>2, <1>3 DEF RowBehind, MessagesAhead, WriteAhead, FinishEnds, FinishAgrees,
       Speaks, Idle

(* A step that touches no message, and keeps the rows behind what was      *)
(* ahead of them.                                                          *)
LEMMA QuietlyAhead ==
  ASSUME Types, Types', InOrder, RowBehind, UNCHANGED <<reader, up, agent, cur, spent>>,
         \A t \in Tasks, n \in Nat : Clear(t, n) => Clear(t, n)',
         \A t \in Tasks : Ended(t)' => row'[t].status = row[t].status
  PROVE  InOrder' /\ RowBehind'
<1>1. InOrder'
    BY DEF InOrder, HandledSaid, MessagesSaid, SaidInOrder, HandledFirst, OldFirst,
       NewIsIdle, OldSaysNothing, Speaks, HandledStage, NextStage
<1>2. AgentAhead'
  <2> SUFFICES ASSUME NEW t \in Tasks PROVE Clear(t, NextStage(t))'
      BY DEF AgentAhead
  <2>1. PICK n \in Nat : n = NextStage(t)
      BY NextStageNat
  <2>2. NextStage(t)' = n
      BY <2>1 DEF NextStage
  <2>3. Clear(t, n)
      BY <2>1 DEF RowBehind, AgentAhead
  <2>4. QED
      BY <2>2, <2>3 DEF Clear, Ended
<1>3. MessagesAhead'
  <2> SUFFICES ASSUME NEW s \in Sessions, NEW i \in 1..Len(up[s])
               PROVE  Clear(up[s][i].task, StageOf(up[s][i]))'
      BY DEF MessagesAhead
  <2>1. PICK m \in Up : m = up[s][i]
      BY MessagesTyped
  <2>2. Clear(m.task, StageOf(m)) /\ m.task \in Tasks /\ StageOf(m) \in Nat
      BY <2>1, StageOfKind DEF RowBehind, MessagesAhead
  <2>3. PICK n \in Nat : n = StageOf(m)
      BY <2>2
  <2>4. Clear(m.task, n)'
      BY <2>2, <2>3
  <2>5. QED
      BY <2>1, <2>3, <2>4 DEF Clear, Ended
<1>4. WriteAhead'
  <2> SUFFICES ASSUME NEW t \in Tasks, cur \in Sessions, Speaks(cur, t), reader[cur].pc = "write"
               PROVE  Clear(t, HandledStage(cur))'
      BY DEF WriteAhead, Speaks
  <2>1. reader[cur].msg \in Up
      BY MessagesTyped DEF Speaks
  <2>2. PICK n \in Nat : n = HandledStage(cur)
      BY <2>1, StageOfKind DEF HandledStage
  <2>3. Clear(t, n)'
      BY <2>2 DEF RowBehind, WriteAhead
  <2>4. QED
      BY <2>2, <2>3 DEF Clear, HandledStage, Ended
<1>5. FinishEnds' /\ FinishAgrees'
    BY DEF RowBehind, FinishEnds, FinishAgrees, Speaks, Ended
<1>6. QED
    BY <1>1, <1>2, <1>3, <1>4, <1>5 DEF RowBehind

LEMMA NextStageOf ==
  ASSUME NEW t
  PROVE  /\ agent[t].state = "working" => NextStage(t) = 2 * agent[t].retries + 4
         /\ agent[t].state = "retrying" => NextStage(t) = 2 * agent[t].retries + 3
         /\ agent[t].state = "over" => NextStage(t) = Last + 1
         /\ agent[t].state \in {"none", "got"} => NextStage(t) = 3
  BY DEF NextStage

(* The request that creates a task, the dispatcher and the requests to     *)
(* cancel write nothing but PENDING, the dispatch mark and CANCELLED.      *)
LEMMA ServerStaysBehind ==
  ASSUME Types, Types', InOrder, RowBehind,
         \/ \E t \in Tasks : CreateStep(t)
         \/ \E t \in Tasks, d \in Dispatchers : DispatchStep(t, d)
         \/ \E c \in Cancels : CancelStep(c) \/ \E t \in Tasks : CancelRead(c, t)
  PROVE  InOrder' /\ RowBehind'
<1> USE DEF Types, RowOK, RowType, CancelOK, CancelType
<1>1. UNCHANGED <<reader, up, agent, cur, spent>>
    BY DEF CreateStep, CreateTask, NotifyCreated, DispatchStep, DispatchRead, DispatchSend,
       DispatchMark, CancelStep, CancelRead, CancelMark, CancelFinish, CancelControl,
       CancelNotify, linkVars
<1>2. ASSUME UNCHANGED cancel,
             \A t \in Tasks : /\ row'[t].retries = row[t].retries
                              /\ row'[t].status \in {row[t].status, "PENDING"}
      PROVE  InOrder' /\ RowBehind'
  <2>1. \A t \in Tasks, n \in Nat : Clear(t, n) => Clear(t, n)'
      BY <1>2 DEF Clear, Ended
  <2>2. \A t \in Tasks : Ended(t)' => row'[t].status = row[t].status
      BY <1>2 DEF Ended
  <2>3. QED
      BY <1>1, <2>1, <2>2, QuietlyAhead
<1>3. ASSUME NEW t \in Tasks, CreateStep(t) PROVE InOrder' /\ RowBehind'
  <2>1. UNCHANGED cancel
      BY <1>3 DEF CreateStep, CreateTask, NotifyCreated
  <2>2. \A u \in Tasks : /\ row'[u].retries = row[u].retries
                         /\ row'[u].status \in {row[u].status, "PENDING"}
      BY <1>3 DEF CreateStep, CreateTask, NotifyCreated
  <2>3. QED
      BY <1>2, <2>1, <2>2
<1>4. ASSUME NEW t \in Tasks, NEW d \in Dispatchers, DispatchStep(t, d)
      PROVE  InOrder' /\ RowBehind'
  <2>1. UNCHANGED cancel
      BY <1>4 DEF DispatchStep, DispatchRead, DispatchSend, DispatchMark
  <2>2. \A u \in Tasks : row'[u].retries = row[u].retries /\ row'[u].status = row[u].status
      BY <1>4 DEF DispatchStep, DispatchRead, DispatchSend, DispatchMark, MarkDispatched
  <2>3. QED
      BY <1>2, <2>1, <2>2
<1>5. ASSUME NEW c \in Cancels, NEW t \in Tasks, CancelRead(c, t)
      PROVE  InOrder' /\ RowBehind'
  <2>1. /\ UNCHANGED row /\ cancel'[c].task = t /\ cancel'[c].retries = row[t].retries
        /\ \A d \in Cancels \ {c} : cancel'[d] = cancel[d]
      BY <1>5 DEF CancelRead, GetByID
  <2>2. \A u \in Tasks, n \in Nat : Clear(u, n) => Clear(u, n)'
      BY <2>1 DEF Clear, Ended
  <2>3. QED
      BY <1>1, <2>1, <2>2, QuietlyAhead
<1>6. ASSUME NEW c \in Cancels, CancelStep(c) PROVE InOrder' /\ RowBehind'
  <2>1. /\ cancel[c].task \in Tasks /\ cancel'[c].pc # "mark"
        /\ \A d \in Cancels \ {c} : cancel'[d] = cancel[d]
      BY <1>6 DEF CancelStep, CancelMark, CancelFinish, CancelControl, CancelNotify, Idle
  <2>2. PICK k \in Tasks : k = cancel[c].task
      BY <2>1
  <2>3. /\ \A u \in Tasks : row'[u].status \in {row[u].status, "CANCELLED"}
        /\ \A u \in Tasks : \/ row'[u].retries = row[u].retries
                            \/ /\ u = k /\ cancel[c].pc = "mark"
                               /\ row'[u].retries = cancel[c].retries
    <3>1. CASE CancelMark(c)
        BY <2>2, <3>1 DEF CancelMark, UpdateStatus
    <3>2. CASE CancelFinish(c)
      <4>1. CASE UNCHANGED row
          BY <4>1
      <4>2. CASE row' = [row EXCEPT ![k].status = "CANCELLED", ![k].finished = TRUE]
          BY <4>2
      <4>3. QED
          BY <2>2, <3>2, <4>1, <4>2 DEF CancelFinish, MarkFinished
    <3>3. CASE CancelControl(c) \/ CancelNotify(c)
        BY <3>3 DEF CancelControl, CancelNotify
    <3>4. QED
        BY <1>6, <3>1, <3>2, <3>3 DEF CancelStep
  <2>4. \A u \in Tasks, n \in Nat : Clear(u, n) => Clear(u, n)'
    <3> SUFFICES ASSUME NEW u \in Tasks, NEW n \in Nat, Clear(u, n) PROVE Clear(u, n)'
        OBVIOUS
    <3>1. 2 * row'[u].retries + 3 <= n
        BY <2>2, <2>3 DEF Clear
    <3>2. Ended(u)' => Last < n
        BY <2>3 DEF Clear, Ended
    <3>3. \A d \in Cancels : cancel'[d].pc = "mark" /\ cancel'[d].task = u =>
                               2 * cancel'[d].retries + 3 <= n
        BY <2>1 DEF Clear
    <3>4. QED
        BY <3>1, <3>2, <3>3 DEF Clear, Last
  <2>5. \A u \in Tasks : Ended(u)' => row'[u].status = row[u].status
      BY <2>3 DEF Ended
  <2>6. QED
      BY <1>1, <2>4, <2>5, QuietlyAhead
<1>7. QED
    BY <1>3, <1>4, <1>5, <1>6

(* The message a read loop takes is the first of those on their way.       *)
LEMMA Taken ==
  ASSUME Types, NEW s \in Sessions, ReaderTake(s)
  PROVE  /\ s = cur /\ up[s] \in Seq(Up) /\ 1 \in 1..Len(up[s])
         /\ reader[s] = Idle /\ reader'[s] = [pc |-> "write", msg |-> up[s][1]]
         /\ \A r \in Sessions \ {s} : reader'[r] = reader[r] /\ up'[r] = up[r]
         /\ \A i \in 1..Len(up'[s]) : i + 1 \in 1..Len(up[s]) /\ up'[s][i] = up[s][i + 1]
<1>1. up[s] \in Seq(Up) /\ up[s] # <<>>
    BY DEF ReaderTake, Types, UpOK
<1>2. Head(up[s]) = up[s][1] /\ 1 \in 1..Len(up[s])
    BY <1>1
<1>3. up'[s] = Tail(up[s]) /\ reader'[s] = [pc |-> "write", msg |-> Head(up[s])]
    BY DEF ReaderTake, Types, UpOK, ReaderOK
<1>4. \A i \in 1..Len(Tail(up[s])) :
        i + 1 \in 1..Len(up[s]) /\ Tail(up[s])[i] = up[s][i + 1]
    BY <1>1
<1>5. QED
    BY <1>1, <1>2, <1>3, <1>4 DEF ReaderTake, Types, UpOK, ReaderOK

LEMMA TakeStaysAhead ==
  ASSUME Types, InOrder, RowBehind, NEW s \in Sessions, ReaderTake(s)
  PROVE  InOrder' /\ RowBehind'
<1>1. UNCHANGED <<row, cancel, agent, cur, spent>>
    BY DEF ReaderTake, linkVars
<1>2. /\ s = cur /\ up[s] \in Seq(Up) /\ 1 \in 1..Len(up[s]) /\ up[s][1] \in Up
      /\ reader[s] = Idle /\ reader'[s] = [pc |-> "write", msg |-> up[s][1]]
    BY Taken, MessagesTyped
<1>3. \A r \in Sessions \ {s} : reader'[r] = reader[r] /\ up'[r] = up[r]
    BY Taken
<1>4. \A i \in 1..Len(up'[s]) : i + 1 \in 1..Len(up[s]) /\ up'[s][i] = up[s][i + 1]
    BY Taken
<1>5. \A t \in Tasks : Speaks(s, t)' <=> up[s][1].task = t
    BY <1>2 DEF Speaks, Idle
<1>6. HandledStage(s)' = StageOf(up[s][1])
    BY <1>2 DEF HandledStage
<1>7. \A r \in Sessions \ {s} : /\ \A t \in Tasks : Speaks(r, t)' <=> Speaks(r, t)
                                /\ HandledStage(r)' = HandledStage(r)
    BY <1>3 DEF Speaks, HandledStage
<1>8. \A t \in Tasks : NextStage(t)' = NextStage(t)
    BY <1>1 DEF NextStage
<1>9. \A r \in Sessions \ {s} : Len(up[r]) = 0
    BY <1>2 DEF InOrder, OldSaysNothing
<1>10. \A i \in 1..Len(up[s]) : up[s][i].task \in Tasks
    BY TasksOfMessages DEF Types
<1>11. HandledSaid'
    BY <1>2, <1>5, <1>6, <1>7, <1>8 DEF InOrder, HandledSaid, MessagesSaid
<1>12. MessagesSaid'
    BY <1>3, <1>4, <1>8, <1>9, <1>10 DEF InOrder, MessagesSaid
<1>13. SaidInOrder'
  <2> SUFFICES ASSUME NEW i \in 1..Len(up'[s]), NEW j \in 1..Len(up'[s]), i < j,
                      up'[s][i].task = up'[s][j].task
               PROVE  StageOf(up'[s][i]) < StageOf(up'[s][j])
      BY <1>3, <1>9 DEF SaidInOrder
  <2>1. /\ i + 1 \in 1..Len(up[s]) /\ j + 1 \in 1..Len(up[s]) /\ i + 1 < j + 1
        /\ up'[s][i] = up[s][i + 1] /\ up'[s][j] = up[s][j + 1]
      BY <1>4
  <2>2. QED
      BY <2>1 DEF InOrder, SaidInOrder
<1>14. HandledFirst'
  <2> SUFFICES ASSUME NEW r \in Sessions, NEW i \in 1..Len(up'[s]),
                      Speaks(r, up[s][i].task)'
               PROVE  HandledStage(r)' < StageOf(up'[s][i])
      BY <1>3, <1>9 DEF HandledFirst
  <2>1. i + 1 \in 1..Len(up[s]) /\ up'[s][i] = up[s][i + 1] /\ 1 < i + 1
      BY <1>4
  <2>2. CASE r = s
    <3>1. up[s][1].task = up[s][i + 1].task
        BY <1>2, <1>5, <1>10, <2>1, <2>2 DEF Speaks, Idle
    <3>2. StageOf(up[s][1]) < StageOf(up[s][i + 1])
        BY <1>2, <2>1, <3>1 DEF InOrder, SaidInOrder
    <3>3. QED
        BY <1>6, <2>1, <2>2, <3>2
  <2>3. CASE r # s
    <3>1. Speaks(r, up[s][i + 1].task)
        BY <1>3, <2>1, <2>3 DEF Speaks
    <3>2. HandledStage(r) < StageOf(up[s][i + 1])
        BY <2>1, <3>1 DEF InOrder, HandledFirst
    <3>3. QED
        BY <1>7, <2>1, <2>3, <3>2
  <2>4. QED
      BY <2>2, <2>3
<1>15. OldFirst'
  <2> SUFFICES ASSUME NEW r \in Sessions \ {s}, NEW t \in Tasks, Speaks(r, t)', Speaks(s, t)'
               PROVE  HandledStage(r)' < HandledStage(s)'
      BY <1>1, <1>2 DEF OldFirst
  <2>1. QED
      BY <1>2, <1>5, <1>6, <1>7 DEF InOrder, HandledFirst
<1>16. NewIsIdle' /\ OldSaysNothing'
  <2>1. s \in spent
      BY <1>2 DEF InOrder, NewIsIdle
  <2>2. QED
      BY <1>1, <1>2, <1>3, <2>1 DEF InOrder, NewIsIdle, OldSaysNothing
<1>17. \A t \in Tasks : \A n : Clear(t, n)' <=> Clear(t, n)
    BY <1>1 DEF Clear, Ended
<1>18. AgentAhead'
    BY <1>8, <1>17 DEF RowBehind, AgentAhead
<1>19. MessagesAhead'
    BY <1>3, <1>4, <1>9, <1>10, <1>17 DEF RowBehind, MessagesAhead
<1>20. WriteAhead'
    BY <1>1, <1>2, <1>5, <1>6, <1>17 DEF RowBehind, MessagesAhead, WriteAhead
<1>21. FinishEnds' /\ FinishAgrees'
    BY <1>1, <1>2, <1>3 DEF RowBehind, FinishEnds, FinishAgrees
<1>22. QED
    BY <1>11, <1>12, <1>13, <1>14, <1>15, <1>16, <1>18, <1>19, <1>20, <1>21
       DEF InOrder, RowBehind

(* Writing a message of stage k leaves every later stage clear. *)
LEMMA WriteKeepsClear ==
  ASSUME Types, NEW m \in Up, NEW t \in Tasks, NEW n \in Nat, UNCHANGED cancel, Clear(t, n),
         m.task = t => StageOf(m) < n,
         \/ m.kind = "accept" /\ MarkStarted(m.task)
         \/ m.kind = "reject" /\ UpdateStatus(m.task, "FAILED", 0)
         \/ m.kind \notin {"accept", "reject"} /\ UpdateStatus(m.task, m.kind, m.retries)
         \/ StatusOf(m) \in {"SUCCESS", "FAILED"} /\ MarkFinished(m.task, StatusOf(m))
         \/ UNCHANGED row
  PROVE  Clear(t, n)'
<1> USE DEF Types, RowOK, RowType
<1>1. m.task \in Tasks /\ m.retries \in 0..MaxRetry /\ StageOf(m) \in Nat /\ Last \in Nat
    BY StageOfKind
<1>2. row[t].retries \in Nat /\ Last >= 4
    BY TaskAssumption DEF Last
<1>3. CASE UNCHANGED row \/ m.task # t
  <2>1. row'[t] = row[t]
      BY <1>1, <1>3 DEF MarkStarted, UpdateStatus, MarkFinished
  <2>2. QED
      BY <2>1 DEF Clear, Ended
<1>4. ASSUME m.task = t, 2 * row'[t].retries + 3 <= n, Ended(t)' => StageOf(m) = Last
      PROVE  Clear(t, n)'
  <2>1. Ended(t)' => Last < n
      BY <1>4
  <2>2. \A c \in Cancels : cancel[c].pc = "mark" /\ cancel[c].task = t =>
                             2 * cancel[c].retries + 3 <= n
      BY DEF Clear
  <2>3. QED
      BY <1>4, <2>1, <2>2 DEF Clear, Last
<1>5. CASE m.task = t /\ m.kind = "accept" /\ MarkStarted(m.task)
  <2>1. row'[t].retries = row[t].retries /\ row'[t].status = "RUNNING"
      BY <1>1, <1>5 DEF MarkStarted
  <2>2. QED
      BY <1>4, <1>5, <2>1 DEF Clear, Ended
<1>6. CASE m.task = t /\ m.kind = "reject" /\ UpdateStatus(m.task, "FAILED", 0)
  <2>1. row'[t].retries = 0
      BY <1>1, <1>6 DEF UpdateStatus
  <2>2. StageOf(m) = Last
      BY <1>6, StageOfKind
  <2>3. QED
      BY <1>1, <1>2, <1>4, <1>6, <2>1, <2>2
<1>7. CASE m.task = t /\ m.kind \notin {"accept", "reject"} /\ UpdateStatus(m.task, m.kind, m.retries)
  <2>1. row'[t].retries = m.retries /\ row'[t].status = m.kind
      BY <1>1, <1>7 DEF UpdateStatus
  <2>2. m.kind \in {"SUCCESS", "FAILED"} => StageOf(m) = Last
      BY StageOfKind
  <2>3. 2 * m.retries + 2 <= StageOf(m)
    <3>1. 2 * m.retries + 3 <= Last
        BY <1>1, TaskAssumption DEF Last
    <3>2. QED
        BY <1>1, <3>1, StageOfKind
  <2>4. 2 * row'[t].retries + 3 <= n
      BY <1>1, <1>7, <2>1, <2>3
  <2>5. Ended(t)' => StageOf(m) = Last
      BY <2>1, <2>2 DEF Ended
  <2>6. QED
      BY <1>4, <1>7, <2>4, <2>5
<1>8. CASE m.task = t /\ StatusOf(m) \in {"SUCCESS", "FAILED"} /\ MarkFinished(m.task, StatusOf(m))
  <2>1. row'[t].retries = row[t].retries
      BY <1>1, <1>8 DEF MarkFinished
  <2>2. StageOf(m) = Last
      BY <1>8, StageOfKind
  <2>3. QED
      BY <1>4, <1>8, <2>1, <2>2 DEF Clear
<1>9. QED
    BY <1>3, <1>5, <1>6, <1>7, <1>8

(* What a read loop does once it has taken a message. *)
LEMMA Handling ==
  ASSUME Types, RowBehind, NEW s \in Sessions,
         ReaderWrite(s) \/ ReaderFinish(s) \/ ReaderNotify(s)
  PROVE  /\ reader[s] # Idle /\ reader[s].msg \in Up
         /\ UNCHANGED <<up, agent, cur, spent, cancel>>
         /\ \A r \in Sessions \ {s} : reader'[r] = reader[r]
         /\ reader'[s] # Idle => /\ reader'[s].msg = reader[s].msg
                                 /\ reader'[s].pc \in {"finish", "notify"}
         /\ \/ reader[s].msg.kind = "accept" /\ MarkStarted(reader[s].msg.task)
            \/ reader[s].msg.kind = "reject" /\ UpdateStatus(reader[s].msg.task, "FAILED", 0)
            \/ /\ reader[s].msg.kind \notin {"accept", "reject"}
               /\ UpdateStatus(reader[s].msg.task, reader[s].msg.kind, reader[s].msg.retries)
            \/ /\ StatusOf(reader[s].msg) \in {"SUCCESS", "FAILED"}
               /\ reader[s].pc = "finish" /\ reader'[s].pc # "finish"
               /\ MarkFinished(reader[s].msg.task, StatusOf(reader[s].msg))
            \/ UNCHANGED row /\ reader'[s].pc # "finish"
<1>1. reader[s] # Idle
    BY DEF ReaderWrite, ReaderFinish, ReaderNotify, Idle
<1>2. reader[s] \in [pc : {"write", "finish", "notify"}, msg : Up]
    BY <1>1 DEF Types, ReaderOK, ReaderType
<1>3. CASE ReaderWrite(s)
    BY <1>1, <1>2, <1>3 DEF ReaderWrite, Types, ReaderOK, Idle, linkVars
<1>4. CASE ReaderFinish(s)
    BY <1>1, <1>2, <1>4 DEF ReaderFinish, Types, ReaderOK, Idle, linkVars, RowBehind, FinishEnds
<1>5. CASE ReaderNotify(s)
    BY <1>1, <1>2, <1>5 DEF ReaderNotify, Types, ReaderOK, Idle, linkVars
<1>6. QED
    BY <1>3, <1>4, <1>5

(* What handling a message leaves in the row of its task. *)
LEMMA WrittenStatus ==
  ASSUME Types, RowBehind, NEW s \in Sessions, NEW t \in Tasks,
         ReaderWrite(s) \/ ReaderFinish(s) \/ ReaderNotify(s)
  PROVE  \/ row'[t] = row[t] /\ reader'[s].pc # "finish"
         \/ row'[t] = row[t] /\ reader[s].msg.task # t
         \/ row'[t].status = StatusOf(reader[s].msg) /\ reader[s].msg.task = t
<1> DEFINE m == reader[s].msg
<1>0. row \in [Tasks -> RowType]
    BY DEF Types, RowOK
<1>1. m \in Up /\ m.task \in Tasks
    BY Handling, StageOfKind
<1>2. CASE m.kind = "accept" /\ MarkStarted(m.task)
  <2>1. StatusOf(m) = "RUNNING"
      BY <1>2 DEF StatusOf
  <2>2. QED
      BY <1>0, <1>1, <1>2, <2>1, ZenonT(20) DEF MarkStarted, RowType
<1>3. CASE m.kind = "reject" /\ UpdateStatus(m.task, "FAILED", 0)
  <2>1. StatusOf(m) = "FAILED"
      BY <1>3 DEF StatusOf
  <2>2. QED
      BY <1>0, <1>1, <1>3, <2>1, ZenonT(20) DEF UpdateStatus, RowType
<1>4. CASE m.kind \notin {"accept", "reject"} /\ UpdateStatus(m.task, m.kind, m.retries)
  <2>1. StatusOf(m) = m.kind
      BY <1>4 DEF StatusOf
  <2>2. QED
      BY <1>0, <1>1, <1>4, <2>1, ZenonT(20) DEF UpdateStatus, RowType
<1>5. CASE MarkFinished(m.task, StatusOf(m))
    BY <1>0, <1>1, <1>5, ZenonT(30) DEF MarkFinished, RowType
<1>6. CASE UNCHANGED row /\ reader'[s].pc # "finish"
    BY <1>6
<1>7. QED
    BY <1>2, <1>3, <1>4, <1>5, <1>6, Handling

LEMMA HandleStaysAhead ==
  ASSUME Types, InOrder, RowBehind, NEW s \in Sessions,
         ReaderWrite(s) \/ ReaderFinish(s) \/ ReaderNotify(s)
  PROVE  InOrder' /\ RowBehind'
<1>1. PICK m \in Up : m = reader[s].msg
    BY Handling
<1>2. /\ UNCHANGED <<up, agent, cur, spent, cancel>>
      /\ \A r \in Sessions \ {s} : reader'[r] = reader[r]
      /\ reader[s] # Idle
      /\ reader'[s] # Idle => reader'[s].msg = m /\ reader'[s].pc \in {"finish", "notify"}
    BY <1>1, Handling
<1>3. m.task \in Tasks /\ StageOf(m) \in Nat /\ StageOf(m) <= Last /\ Last \in Nat
    BY StageOfKind
<1>4. \A r \in Sessions, t \in Tasks : Speaks(r, t)' => Speaks(r, t)
    BY <1>1, <1>2 DEF Speaks
<1>5. \A r \in Sessions, t \in Tasks : Speaks(r, t)' => HandledStage(r)' = HandledStage(r)
    BY <1>1, <1>2 DEF Speaks, HandledStage
<1>6. /\ \A t \in Tasks : Speaks(s, t) <=> t = m.task
      /\ HandledStage(s) = StageOf(m)
    BY <1>1, <1>2 DEF Speaks, HandledStage
<1>7. \A r \in Sessions : \A i \in 1..Len(up[r]) :
        /\ up[r][i] \in Up /\ up[r][i].task \in Tasks /\ StageOf(up[r][i]) \in Nat
    BY MessagesTyped, StageOfKind
<1>8. \A t \in Tasks : NextStage(t)' = NextStage(t) /\ NextStage(t) \in Nat
    BY <1>2, NextStageNat DEF NextStage
<1>9. InOrder'
  <2>1. HandledSaid' /\ HandledFirst' /\ OldFirst'
      BY <1>2, <1>4, <1>5, <1>7, <1>8 DEF InOrder, HandledSaid, HandledFirst, OldFirst
  <2>2. MessagesSaid' /\ SaidInOrder' /\ OldSaysNothing'
      BY <1>2, <1>7, <1>8 DEF InOrder, MessagesSaid, SaidInOrder, OldSaysNothing
  <2>3. NewIsIdle'
      BY <1>2 DEF InOrder, NewIsIdle
  <2>4. QED
      BY <2>1, <2>2, <2>3 DEF InOrder
<1>10. ASSUME NEW t \in Tasks, NEW n \in Nat, Clear(t, n), m.task = t => StageOf(m) < n
       PROVE  Clear(t, n)'
  <2>1. \/ m.kind = "accept" /\ MarkStarted(m.task)
        \/ m.kind = "reject" /\ UpdateStatus(m.task, "FAILED", 0)
        \/ m.kind \notin {"accept", "reject"} /\ UpdateStatus(m.task, m.kind, m.retries)
        \/ StatusOf(m) \in {"SUCCESS", "FAILED"} /\ MarkFinished(m.task, StatusOf(m))
        \/ UNCHANGED row
      BY <1>1, Handling
  <2>2. QED
      BY <1>2, <1>10, <2>1, WriteKeepsClear
<1>11. AgentAhead'
  <2> SUFFICES ASSUME NEW t \in Tasks PROVE Clear(t, NextStage(t))'
      BY DEF AgentAhead
  <2>1. PICK n \in Nat : n = NextStage(t) /\ NextStage(t)' = n
      BY <1>8
  <2>2. Clear(t, n)
      BY <2>1 DEF RowBehind, AgentAhead
  <2>3. m.task = t => StageOf(m) < n
      BY <1>6, <2>1 DEF InOrder, HandledSaid
  <2>4. Clear(t, n)'
      BY <1>10, <2>2, <2>3
  <2>5. QED
      BY <2>1, <2>4 DEF Clear, Ended
<1>12. MessagesAhead'
  <2> SUFFICES ASSUME NEW r \in Sessions, NEW i \in 1..Len(up[r])
               PROVE  Clear(up[r][i].task, StageOf(up[r][i]))'
      BY <1>2 DEF MessagesAhead
  <2>1. PICK k \in Up : k = up[r][i] /\ k.task \in Tasks /\ StageOf(k) \in Nat
      BY <1>7
  <2>2. PICK n \in Nat : n = StageOf(k)
      BY <2>1
  <2>3. Clear(k.task, n)
      BY <2>1, <2>2 DEF RowBehind, MessagesAhead
  <2>4. m.task = k.task => StageOf(m) < n
      BY <1>6, <2>1, <2>2 DEF InOrder, HandledFirst
  <2>5. Clear(k.task, n)'
      BY <1>10, <2>1, <2>3, <2>4
  <2>6. QED
      BY <1>2, <2>1, <2>2, <2>5 DEF Clear, Ended
<1>13. WriteAhead'
  <2> SUFFICES ASSUME NEW t \in Tasks, cur \in Sessions, Speaks(cur, t)', reader'[cur].pc = "write"
               PROVE  Clear(t, HandledStage(cur))'
      BY <1>2 DEF WriteAhead
  <2>1. cur # s
      BY <1>2 DEF Speaks
  <2>2. reader'[cur] = reader[cur] /\ reader[cur].msg \in Up /\ Speaks(cur, t)
      BY <1>2, <1>4, <2>1, MessagesTyped DEF Speaks
  <2>3. PICK n \in Nat : n = StageOf(reader[cur].msg)
      BY <2>2, StageOfKind
  <2>4. Clear(t, n)
      BY <2>2, <2>3 DEF RowBehind, WriteAhead, HandledStage
  <2>5. m.task = t => StageOf(m) < n
      BY <1>6, <2>1, <2>2, <2>3 DEF InOrder, OldFirst, HandledStage
  <2>6. Clear(t, n)'
      BY <1>10, <2>4, <2>5
  <2>7. QED
      BY <1>2, <2>2, <2>3, <2>6 DEF Clear, HandledStage, Ended
<1>14. FinishEnds'
  <2>1. reader'[s].pc = "finish" => StatusOf(m) \in {"SUCCESS", "FAILED"}
    <3>1. StatusOf(m) # "CANCELLED"
        BY DEF Up, StatusOf
    <3>2. QED
      <4>0. /\ reader[s] \in [pc : {"write", "finish", "notify"}, msg : Up]
            /\ reader \in [Sessions -> ReaderType]
          BY <1>2 DEF Types, ReaderOK, ReaderType
      <4>1. CASE ReaderWrite(s)
        <5>1. \/ reader' = [reader EXCEPT ![s] = Idle]
              \/ reader' = [reader EXCEPT ![s].pc =
                              IF StatusOf(m) \in Terminal THEN "finish" ELSE "notify"]
            BY <1>1, <4>1 DEF ReaderWrite
        <5>2. ASSUME StatusOf(m) \notin Terminal PROVE reader'[s].pc # "finish"
          <6>1. \/ reader' = [reader EXCEPT ![s] = Idle]
                \/ reader' = [reader EXCEPT ![s].pc = "notify"]
              BY <5>1, <5>2
          <6>2. QED
              BY <4>0, <6>1 DEF Idle
        <5>3. QED
            BY <3>1, <5>2 DEF Terminal, Machine!Terminal
      <4>2. CASE ReaderFinish(s)
          BY <4>0, <4>2 DEF ReaderFinish, Idle
      <4>3. CASE ReaderNotify(s)
          BY <4>3 DEF ReaderNotify, Types, ReaderOK, Idle
      <4>4. QED
          BY <4>1, <4>2, <4>3
  <2>2. reader'[s].pc = "finish" => reader'[s].msg = m
      BY <1>2 DEF Idle
  <2>3. QED
      BY <1>2, <2>1, <2>2 DEF RowBehind, FinishEnds
<1>15. FinishAgrees'
  <2> SUFFICES ASSUME NEW t \in Tasks, cur \in Sessions, Speaks(cur, t)',
                      reader'[cur].pc = "finish", Ended(t)'
               PROVE  row'[t].status = StatusOf(reader'[cur].msg)
      BY <1>2 DEF FinishAgrees
  <2>1. CASE cur = s
    <3>1. reader'[s].msg = m /\ m.task = t
        BY <1>2, <2>1 DEF Speaks
    <3>2. QED
        BY <1>1, <2>1, <3>1, WrittenStatus
  <2>2. CASE cur # s
    <3>1. /\ reader'[cur] = reader[cur] /\ Speaks(cur, t) /\ reader[cur].pc = "finish"
          /\ reader[cur].msg \in Up
        BY <1>2, <1>4, <2>2, MessagesTyped DEF Speaks
    <3>2. StageOf(reader[cur].msg) = Last
        BY <3>1, StageOfKind DEF RowBehind, FinishEnds
    <3>3. CASE row'[t] = row[t]
        BY <3>1, <3>3 DEF RowBehind, FinishAgrees, Ended
    <3>4. CASE row'[t].status = StatusOf(m) /\ m.task = t
      <4>1. StageOf(m) < Last
          BY <1>6, <2>2, <3>1, <3>2, <3>4 DEF InOrder, OldFirst, HandledStage
      <4>2. StatusOf(m) \in {"SUCCESS", "FAILED"} => StageOf(m) = Last
          BY StageOfKind
      <4>3. QED
          BY <1>3, <3>4, <4>1, <4>2 DEF Ended
    <3>5. row'[t] = row[t] \/ (row'[t].status = StatusOf(m) /\ m.task = t)
        BY <1>1, WrittenStatus
    <3>6. QED
        BY <3>3, <3>4, <3>5
  <2>3. QED
      BY <2>1, <2>2
<1>16. QED
    BY <1>9, <1>11, <1>12, <1>13, <1>14, <1>15 DEF RowBehind

(* Connections come with nothing said and go with all that was said.       *)
LEMMA LinkStaysAhead ==
  ASSUME Types, InOrder, RowBehind,
         Detach \/ Crash \/ \E s \in Sessions : Attach(s) \/ HandlerReturns(s)
  PROVE  InOrder' /\ RowBehind'
<1>1. UNCHANGED <<row, agent>>
    BY DEF Detach, Crash, Attach, HandlerReturns
<1>2. CASE \E s \in Sessions : HandlerReturns(s)
  <2>1. UNCHANGED <<row, cancel, agent, reader, up, cur, spent>>
      BY <1>2 DEF HandlerReturns
  <2>2. \A t \in Tasks : NextStage(t)' = NextStage(t)
      BY <2>1 DEF NextStage
  <2>3. InOrder'
      BY <2>1, <2>2, TasksOfMessages DEF InOrder, HandledSaid, MessagesSaid, SaidInOrder,
         HandledFirst, OldFirst, NewIsIdle, OldSaysNothing, Speaks, HandledStage, Types
  <2>4. QED
      BY <2>1, <2>2, <2>3 DEF RowBehind, AgentAhead, MessagesAhead, WriteAhead, FinishEnds,
         FinishAgrees, Clear, Ended, Speaks, HandledStage
<1>3. ASSUME \A s \in Sessions : Len(up'[s]) = 0,
             \A s \in Sessions : reader'[s] = reader[s] \/ reader'[s] = Idle,
             cur' \in Sessions => cur' \in spent' /\ reader'[cur'] = Idle,
             spent \subseteq spent',
             \A c \in Cancels : cancel'[c] = cancel[c] \/ cancel'[c].pc # "mark"
      PROVE  InOrder' /\ RowBehind'
  <2>1. \A t \in Tasks : NextStage(t)' = NextStage(t)
      BY <1>1 DEF NextStage
  <2>2. \A s \in Sessions, t \in Tasks :
          Speaks(s, t)' => Speaks(s, t) /\ HandledStage(s)' = HandledStage(s)
      BY <1>3 DEF Speaks, HandledStage
  <2>3. HandledSaid'
      BY <2>1, <2>2 DEF InOrder, HandledSaid
  <2>4. OldFirst' /\ NewIsIdle'
      BY <1>3 DEF InOrder, OldFirst, NewIsIdle, Speaks
  <2>5. MessagesSaid' /\ SaidInOrder' /\ HandledFirst' /\ OldSaysNothing' /\ MessagesAhead'
      BY <1>3 DEF MessagesSaid, SaidInOrder, HandledFirst, OldSaysNothing, MessagesAhead
  <2>6. \A t \in Tasks : \A n : Clear(t, n) => Clear(t, n)'
      BY <1>1, <1>3 DEF Clear, Ended
  <2>7. AgentAhead'
      BY <2>1, <2>6 DEF RowBehind, AgentAhead
  <2>8. WriteAhead' /\ FinishAgrees'
      BY <1>3 DEF WriteAhead, FinishAgrees, Speaks
  <2>9. FinishEnds'
      BY <1>3 DEF RowBehind, FinishEnds, Idle
  <2>10. QED
      BY <2>3, <2>4, <2>5, <2>7, <2>8, <2>9 DEF InOrder, RowBehind
<1>4. ASSUME ForgetCurrent PROVE \A s \in Sessions : Len(up'[s]) = 0
    BY <1>4 DEF ForgetCurrent, InOrder, OldSaysNothing
<1>5. ASSUME NEW s \in Sessions, Attach(s) PROVE InOrder' /\ RowBehind'
    BY <1>3, <1>4, <1>5 DEF Attach, InOrder, NewIsIdle
<1>6. CASE Detach
    BY <1>3, <1>4, <1>6, TaskAssumption DEF Detach
<1>7. CASE Crash
  <2>1. \A c \in Cancels : cancel'[c].pc # "mark"
      BY <1>7 DEF Crash, Types, CancelOK, CancelType, Idle
  <2>2. /\ \A s \in Sessions : Len(up'[s]) = 0 /\ reader'[s] = Idle
        /\ cur' \notin Sessions /\ spent' = spent
      BY <1>7, TaskAssumption DEF Crash
  <2>3. QED
      BY <1>3, <2>1, <2>2
<1>8. QED
    BY <1>2, <1>5, <1>6, <1>7

(* What the agent says: of one task, at the end of the current connection. *)
LEMMA Reported ==
  ASSUME Types, NEW t \in Tasks, NEW kind, NEW state, NEW n, NEW m \in Up,
         m = [task |-> t, kind |-> kind, retries |-> n],
         Report(t, kind, state, n)
  PROVE  /\ cur \in Sessions /\ up[cur] \in Seq(Up)
         /\ \A s \in Sessions \ {cur} : up'[s] = up[s]
         /\ Len(up'[cur]) = Len(up[cur]) + 1
         /\ \A i \in 1..Len(up'[cur]) :
              up'[cur][i] = IF i = Len(up[cur]) + 1 THEN m ELSE up[cur][i]
<1>1. cur \in Sessions /\ up[cur] \in Seq(Up)
    BY DEF Report, Types, LinkOK, UpOK
<1>2. up'[cur] = Append(up[cur], m)
    BY <1>1 DEF Report, Types, UpOK
<1>3. \A s \in Sessions \ {cur} : up'[s] = up[s]
    BY DEF Report, Types, UpOK
<1>4. QED
    BY <1>1, <1>2, <1>3

LEMMA ReportStaysAhead ==
  ASSUME Types, InOrder, RowBehind, NEW t \in Tasks, NEW kind, NEW state, NEW n,
         [task |-> t, kind |-> kind, retries |-> n] \in Up,
         Report(t, kind, state, n),
         NextStage(t) <= StageOf([task |-> t, kind |-> kind, retries |-> n]),
         StageOf([task |-> t, kind |-> kind, retries |-> n]) < NextStage(t)',
         NextStage(t)' \in Nat
  PROVE  InOrder' /\ RowBehind'
<1>1. PICK m \in Up : m = [task |-> t, kind |-> kind, retries |-> n]
    OBVIOUS
<1>2. UNCHANGED <<row, cancel, reader, cur, spent>> /\ m.task = t
    BY <1>1 DEF Report, linkVars
<1>3. /\ cur \in Sessions /\ up[cur] \in Seq(Up)
      /\ \A s \in Sessions \ {cur} : up'[s] = up[s] /\ Len(up[s]) = 0
      /\ Len(up'[cur]) = Len(up[cur]) + 1
      /\ \A i \in 1..Len(up'[cur]) :
           up'[cur][i] = IF i = Len(up[cur]) + 1 THEN m ELSE up[cur][i]
    BY <1>1, Reported DEF InOrder, OldSaysNothing
<1>30. \A i \in 1..Len(up'[cur]) :
         i # Len(up[cur]) + 1 => i \in 1..Len(up[cur]) /\ up'[cur][i] = up[cur][i]
    BY <1>3
<1>4. \A i \in 1..Len(up[cur]) :
        up[cur][i] \in Up /\ up[cur][i].task \in Tasks /\ StageOf(up[cur][i]) \in Nat
    BY <1>3, StageOfKind, MessagesTyped
<1>5. /\ StageOf(m) \in Nat /\ NextStage(t) \in Nat /\ NextStage(t) <= StageOf(m)
      /\ StageOf(m) < NextStage(t)' /\ NextStage(t)' \in Nat
    BY <1>1, StageOfKind, NextStageNat
<1>6. \A u \in Tasks \ {t} : NextStage(u)' = NextStage(u)
    BY DEF NextStage, Report, Types, AgentOK
<1>7. \A u \in Tasks : NextStage(u) \in Nat /\ NextStage(u)' \in Nat /\ NextStage(u) <= NextStage(u)'
    BY <1>5, <1>6, NextStageNat
<1>8. \A s \in Sessions, u \in Tasks : Speaks(s, u) => HandledStage(s) \in Nat
    BY MessagesTyped, StageOfKind DEF Speaks, HandledStage
<1>9. /\ \A s \in Sessions, u \in Tasks : Speaks(s, u)' <=> Speaks(s, u)
      /\ \A s \in Sessions : HandledStage(s)' = HandledStage(s)
    BY <1>2 DEF Speaks, HandledStage
<1>10. HandledSaid'
    BY <1>7, <1>8, <1>9 DEF InOrder, HandledSaid
<1>11. MessagesSaid'
  <2> SUFFICES ASSUME NEW s \in Sessions, NEW i \in 1..Len(up'[s])
               PROVE  StageOf(up'[s][i]) < NextStage(up[s][i].task)'
      BY DEF MessagesSaid
  <2>0. s = cur
      BY <1>3
  <2>1. CASE i = Len(up[cur]) + 1
      BY <1>2, <1>3, <1>5, <2>0, <2>1
  <2>2. CASE i # Len(up[cur]) + 1
    <3>1. i \in 1..Len(up[cur])
        BY <1>3, <2>0, <2>2
    <3>2. PICK k \in Up : /\ k = up[cur][i] /\ k.task \in Tasks /\ StageOf(k) \in Nat
                          /\ up'[cur][i] = k
        BY <1>3, <1>4, <2>2, <3>1, SMTT(20)
    <3>3. StageOf(k) < NextStage(k.task)
        BY <1>3, <3>1, <3>2 DEF InOrder, MessagesSaid
    <3>4. StageOf(k) < NextStage(k.task)'
        BY <1>7, <3>2, <3>3
    <3>5. QED
        BY <1>2, <2>0, <3>2, <3>4
  <2>3. QED
      BY <2>1, <2>2
<1>12. \A i \in 1..Len(up[cur]) : up[cur][i].task = t => StageOf(up[cur][i]) < StageOf(m)
  <2> TAKE i \in 1..Len(up[cur])
  <2>1. StageOf(up[cur][i]) < NextStage(up[cur][i].task)
      BY <1>3 DEF InOrder, MessagesSaid
  <2>2. QED
      BY <1>4, <1>5, <2>1
<1>13. SaidInOrder'
  <2> SUFFICES ASSUME NEW i \in 1..Len(up'[cur]), NEW j \in 1..Len(up'[cur]), i < j,
                      up'[cur][i].task = up'[cur][j].task
               PROVE  StageOf(up'[cur][i]) < StageOf(up'[cur][j])
      BY <1>2, <1>3 DEF SaidInOrder
  <2>1. i \in 1..Len(up[cur]) /\ up'[cur][i] = up[cur][i]
      BY <1>3
  <2>2. CASE j = Len(up[cur]) + 1
      BY <1>2, <1>3, <1>12, <2>1, <2>2
  <2>3. CASE j # Len(up[cur]) + 1
    <3>1. j \in 1..Len(up[cur]) /\ up'[cur][j] = up[cur][j]
        BY <1>30, <2>3
    <3>2. QED
        BY <1>3, <2>1, <3>1 DEF InOrder, SaidInOrder
  <2>4. QED
      BY <2>2, <2>3
<1>14. HandledFirst'
  <2> SUFFICES ASSUME NEW r \in Sessions, NEW i \in 1..Len(up'[cur]), Speaks(r, up[cur][i].task)'
               PROVE  HandledStage(r)' < StageOf(up'[cur][i])
      BY <1>2, <1>3 DEF HandledFirst
  <2>1. CASE i = Len(up[cur]) + 1
    <3>1. Speaks(r, t)
        BY <1>2, <1>3, <2>1 DEF Speaks
    <3>2. HandledStage(r) < NextStage(t) /\ HandledStage(r) \in Nat
        BY <1>8, <3>1 DEF InOrder, HandledSaid
    <3>3. QED
        BY <1>3, <1>5, <1>9, <2>1, <3>2
  <2>2. CASE i # Len(up[cur]) + 1
    <3>1. i \in 1..Len(up[cur]) /\ up'[cur][i] = up[cur][i]
        BY <1>3, <2>2
    <3>2. Speaks(r, up[cur][i].task)
        BY <1>2, <3>1 DEF Speaks
    <3>3. QED
        BY <1>3, <1>9, <3>1, <3>2 DEF InOrder, HandledFirst
  <2>3. QED
      BY <2>1, <2>2
<1>15. OldFirst' /\ NewIsIdle' /\ OldSaysNothing'
    BY <1>2, <1>3, <1>9 DEF InOrder, OldFirst, NewIsIdle, OldSaysNothing
<1>16. \A u \in Tasks : \A k : Clear(u, k)' <=> Clear(u, k)
    BY <1>2 DEF Clear, Ended
<1>17. AgentAhead'
  <2> SUFFICES ASSUME NEW u \in Tasks PROVE Clear(u, NextStage(u))'
      BY DEF AgentAhead
  <2>1. PICK k \in Nat : k = NextStage(u)'
      BY <1>7
  <2>2. Clear(u, NextStage(u))
      BY DEF RowBehind, AgentAhead
  <2>3. Clear(u, k)
      BY <1>7, <2>1, <2>2, ClearUpwards
  <2>4. QED
      BY <1>2, <2>1, <2>3 DEF Clear, Ended
<1>18. Clear(t, StageOf(m))
    BY <1>5, ClearUpwards DEF RowBehind, AgentAhead
<1>19. MessagesAhead'
  <2> SUFFICES ASSUME NEW i \in 1..Len(up'[cur])
               PROVE  Clear(up[cur][i].task, StageOf(up[cur][i]))'
      BY <1>2, <1>3 DEF MessagesAhead
  <2>1. CASE i = Len(up[cur]) + 1
      BY <1>2, <1>3, <1>18, <2>1 DEF Clear, Ended
  <2>2. CASE i # Len(up[cur]) + 1
    <3>1. i \in 1..Len(up[cur]) /\ up'[cur][i] = up[cur][i]
        BY <1>3, <2>2
    <3>2. Clear(up[cur][i].task, StageOf(up[cur][i]))
        BY <1>3, <3>1 DEF RowBehind, MessagesAhead
    <3>3. QED
        BY <1>2, <3>1, <3>2 DEF Clear, Ended
  <2>3. QED
      BY <2>1, <2>2
<1>20. WriteAhead' /\ FinishEnds' /\ FinishAgrees'
    BY <1>2, <1>9, <1>16 DEF RowBehind, WriteAhead, FinishEnds, FinishAgrees, Ended
<1>21. QED
    BY <1>10, <1>11, <1>13, <1>14, <1>15, <1>17, <1>19, <1>20 DEF InOrder, RowBehind

LEMMA AgentStaysAhead ==
  ASSUME Types, InOrder, RowBehind, NEW t \in Tasks, AgentAnswers(t)
  PROVE  InOrder' /\ RowBehind'
<1>1. PICK r \in 0..MaxRetry : r = agent[t].retries
    BY DEF Types, AgentOK, AgentType
<1>2. PICK kind, state, n :
        /\ Report(t, kind, state, n)
        /\ \/ agent[t].state = "got" /\ n = r /\ kind = "accept" /\ state = "working"
           \/ agent[t].state = "got" /\ n = r /\ kind = "reject" /\ state = "over"
           \/ /\ agent[t].state = "working" /\ n = r /\ kind \in {"SUCCESS", "FAILED"}
              /\ state = "over"
           \/ /\ agent[t].state = "working" /\ n = r + 1 /\ r < MaxRetry
              /\ kind = "RETRYING" /\ state = "retrying"
           \/ agent[t].state = "retrying" /\ n = r /\ kind = "RUNNING" /\ state = "working"
    BY <1>1 DEF AgentAnswers
<1>3. n \in 0..MaxRetry /\ MaxRetry \in Nat
    BY <1>1, <1>2, TaskAssumption
<1>4. PICK m \in Up : m = [task |-> t, kind |-> kind, retries |-> n]
    BY <1>2, <1>3 DEF Up
<1>5. m.kind = kind /\ m.retries = n
    BY <1>4
<1>6. agent'[t].state = state /\ agent'[t].retries = n
    BY <1>2 DEF Report, Types, AgentOK, AgentType
<1>7. /\ state = "working" => NextStage(t)' = 2 * n + 4
      /\ state = "retrying" => NextStage(t)' = 2 * n + 3
      /\ state = "over" => NextStage(t)' = Last + 1
    BY <1>6 DEF NextStage
<1>8. /\ agent[t].state = "working" => NextStage(t) = 2 * r + 4
      /\ agent[t].state = "retrying" => NextStage(t) = 2 * r + 3
      /\ agent[t].state = "got" => NextStage(t) = 3
    BY <1>1, NextStageOf
<1>9. /\ StageOf(m) = IF kind \in {"accept", "RUNNING"} THEN 2 * n + 3
                       ELSE IF kind = "RETRYING" THEN 2 * n + 2 ELSE Last
      /\ Last = 2 * MaxRetry + 4
    BY <1>5, StageOfKind DEF Last
<1>10. NextStage(t) <= StageOf(m) /\ StageOf(m) < NextStage(t)' /\ NextStage(t)' \in Nat
    BY <1>1, <1>2, <1>3, <1>7, <1>8, <1>9
<1>11. QED
    BY <1>2, <1>4, <1>10, ReportStaysAhead

(* A copy reaches the agent once, and a cancelled task is over. *)
LEMMA ReceiveStaysAhead ==
  ASSUME DeliveryInv, CopyInv, InOrder, RowBehind, Receive
  PROVE  InOrder' /\ RowBehind'
<1>1. UNCHANGED <<row, cancel, reader, up, cur, spent>> /\ Types
    BY DEF Receive, linkVars, DeliveryInv
<1>2. cur \in Sessions /\ queue[cur] \in Seq(Down) /\ queue[cur] # <<>>
    BY <1>1 DEF Receive, Types, LinkOK, QueueOK
<1>3. PICK m \in Down : m = Head(queue[cur])
    BY <1>2
<1>4. m.task \in Tasks /\ m.type \in {"task", "cancel"} /\ agent \in [Tasks -> AgentType]
    BY <1>1, <1>3 DEF Down, Types, AgentOK
<1>5. \A u \in Tasks \ {m.task} : agent'[u] = agent[u]
    BY <1>3, <1>4 DEF Receive
<1>6. ASSUME m.type = "task"
      PROVE  NextStage(m.task) <= NextStage(m.task)' /\ NextStage(m.task)' \in Nat
  <2>1. Holds(m.task, cur, 1)
    <3>1. m = [type |-> "task", task |-> m.task]
        BY <1>3, <1>6 DEF Down
    <3>2. QED
        BY <1>2, <1>3, <3>1 DEF Holds
  <2>2. agent[m.task].copies = 0
      BY <1>2, <1>4, <2>1 DEF CopyInv, GivenOnce, Nowhere
  <2>3. agent[m.task].state = "none"
      BY <1>4, <2>2 DEF DeliveryInv, AgentHasCopy, Given
  <2>4. agent'[m.task].state = "got"
      BY <1>3, <1>4, <1>6 DEF Receive, AgentType
  <2>5. NextStage(m.task) = 3 /\ NextStage(m.task)' = 3
      BY <2>3, <2>4 DEF NextStage
  <2>6. QED
      BY <2>5
<1>7. ASSUME m.type = "cancel"
      PROVE  NextStage(m.task) <= NextStage(m.task)' /\ NextStage(m.task)' \in Nat
  <2>1. agent'[m.task].state = "over" \/ agent'[m.task] = agent[m.task]
      BY <1>3, <1>4, <1>7 DEF Receive, AgentType
  <2>2. CASE agent'[m.task].state = "over"
    <3>1. NextStage(m.task)' = Last + 1
        BY <2>2 DEF NextStage
    <3>2. NextStage(m.task) <= Last + 1 /\ NextStage(m.task) \in Nat /\ Last \in Nat
      <4>1. agent[m.task].retries \in 0..MaxRetry /\ Last = 2 * MaxRetry + 4
          BY <1>4 DEF AgentType, Last
      <4>2. agent[m.task].state \in {"none", "got", "working", "retrying", "over"}
          BY <1>4 DEF AgentType
      <4>3. QED
          BY <4>1, <4>2, NextStageOf, TaskAssumption
    <3>3. QED
        BY <3>1, <3>2
  <2>3. CASE agent'[m.task] = agent[m.task]
    <3>1. NextStage(m.task)' = NextStage(m.task)
        BY <2>3 DEF NextStage
    <3>2. QED
        BY <1>1, <1>4, <3>1, NextStageNat
  <2>4. QED
      BY <2>1, <2>2, <2>3
<1>8. NextStage(m.task) <= NextStage(m.task)' /\ NextStage(m.task)' \in Nat
    BY <1>4, <1>6, <1>7
<1>9. \A u \in Tasks \ {m.task} : NextStage(u)' = NextStage(u)
    BY <1>5 DEF NextStage
<1>10. \A u \in Tasks : NextStage(u) \in Nat /\ NextStage(u)' \in Nat /\ NextStage(u) <= NextStage(u)'
    BY <1>1, <1>8, <1>9, NextStageNat
<1>11. /\ \A s \in Sessions, u \in Tasks : Speaks(s, u)' <=> Speaks(s, u)
       /\ \A s \in Sessions : HandledStage(s)' = HandledStage(s)
       /\ \A s \in Sessions, u \in Tasks : Speaks(s, u) => HandledStage(s) \in Nat
    BY <1>1, MessagesTyped, StageOfKind DEF Speaks, HandledStage
<1>12. \A s \in Sessions : \A i \in 1..Len(up[s]) :
         up[s][i].task \in Tasks /\ StageOf(up[s][i]) \in Nat
    BY <1>1, MessagesTyped, StageOfKind
<1>13. HandledSaid'
    BY <1>10, <1>11 DEF InOrder, HandledSaid
<1>14. MessagesSaid'
  <2> SUFFICES ASSUME NEW s \in Sessions, NEW i \in 1..Len(up[s])
               PROVE  StageOf(up[s][i]) < NextStage(up[s][i].task)'
      BY <1>1 DEF MessagesSaid
  <2>1. PICK u \in Tasks : u = up[s][i].task
      BY <1>12
  <2>2. StageOf(up[s][i]) < NextStage(u)'
      BY <1>10, <1>12, <2>1 DEF InOrder, MessagesSaid
  <2>3. QED
      BY <1>1, <2>1, <2>2
<1>15. SaidInOrder' /\ HandledFirst' /\ OldFirst' /\ NewIsIdle' /\ OldSaysNothing'
    BY <1>1, <1>11, <1>12 DEF InOrder, SaidInOrder, HandledFirst, OldFirst, NewIsIdle,
       OldSaysNothing
<1>16. \A u \in Tasks : \A k : Clear(u, k)' <=> Clear(u, k)
    BY <1>1 DEF Clear, Ended
<1>17. AgentAhead'
  <2> SUFFICES ASSUME NEW u \in Tasks PROVE Clear(u, NextStage(u))'
      BY DEF AgentAhead
  <2>1. PICK k \in Nat : k = NextStage(u)'
      BY <1>10
  <2>2. Clear(u, NextStage(u))
      BY DEF RowBehind, AgentAhead
  <2>3. Clear(u, k)
      BY <1>1, <1>10, <2>1, <2>2, ClearUpwards
  <2>4. QED
      BY <1>1, <2>1, <2>3 DEF Clear, Ended
<1>18. MessagesAhead' /\ WriteAhead' /\ FinishEnds' /\ FinishAgrees'
    BY <1>1, <1>11, <1>12, <1>16 DEF RowBehind, MessagesAhead, WriteAhead, FinishEnds,
       FinishAgrees, Ended
<1>19. QED
    BY <1>13, <1>14, <1>15, <1>17, <1>18 DEF InOrder, RowBehind

LEMMA AdvanceStep ==
  ASSUME OneDispatcher
  PROVE  AdvanceInv /\ [Next]_vars => AdvanceInv'
<1> SUFFICES ASSUME AdvanceInv, [Next]_vars PROVE AdvanceInv'
    OBVIOUS
<1> USE DEF AdvanceInv
<1>1. DeliveryInv' /\ CopyInv' /\ Types /\ Types'
    BY DeliveryStep, CopyStep DEF DeliveryInv
<1>2. CASE UNCHANGED vars
  <2>1. \A t \in Tasks, n \in Nat : Clear(t, n) => Clear(t, n)'
      BY <1>2 DEF vars, linkVars, Clear, Ended
  <2>2. \A t \in Tasks : Ended(t)' => row'[t].status = row[t].status
      BY <1>2 DEF vars
  <2>3. QED
      BY <1>1, <1>2, <2>1, <2>2, QuietlyAhead DEF vars, linkVars
<1>3. CASE Next
  <2>1. CASE \/ \E t \in Tasks : CreateStep(t)
             \/ \E t \in Tasks, d \in Dispatchers : DispatchStep(t, d)
             \/ \E c \in Cancels : CancelStep(c) \/ \E t \in Tasks : CancelRead(c, t)
      BY <1>1, <2>1, ServerStaysBehind
  <2>2. ASSUME NEW s \in Sessions, ReaderStep(s) PROVE AdvanceInv'
      BY <1>1, <2>2, TakeStaysAhead, HandleStaysAhead DEF ReaderStep
  <2>3. CASE Detach \/ Crash \/ \E s \in Sessions : Attach(s) \/ HandlerReturns(s)
      BY <1>1, <2>3, LinkStaysAhead
  <2>4. CASE Receive
      BY <1>1, <2>4, ReceiveStaysAhead
  <2>5. ASSUME NEW t \in Tasks, AgentAnswers(t) PROVE AdvanceInv'
      BY <1>1, <2>5, AgentStaysAhead
  <2>6. QED
      BY <1>3, <2>1, <2>2, <2>3, <2>4, <2>5 DEF Next
<1>4. QED
    BY <1>2, <1>3

(* What one step does to one row. *)
RowMovesOn(t) ==
  \/ row'[t].status = row[t].status /\ row'[t].retries = row[t].retries
  \/ Stage(row[t]) < Stage(row'[t])
  \/ "CANCELLED" \in {row[t].status, row'[t].status}
  \/ \E s \in Sessions \ {cur} : Speaks(s, t)

LEMMA StageOfRow ==
  ASSUME NEW r \in RowType
  PROVE  /\ r.status = "NONE" => Stage(r) = 0
         /\ r.status = "PENDING" => Stage(r) = 1
         /\ r.status = "RETRYING" => Stage(r) = 2 * r.retries + 2
         /\ r.status = "RUNNING" => Stage(r) = 2 * r.retries + 3
         /\ r.status \in {"SUCCESS", "FAILED", "CANCELLED"} => Stage(r) = Last
         /\ r.status \in {"NONE", "PENDING", "RETRYING", "RUNNING", "SUCCESS", "FAILED", "CANCELLED"}
         /\ r.retries \in 0..MaxRetry
  BY DEF Stage, Last, RowType, Machine!Statuses, Machine!Terminal

(* The current connection's read loop writes what is ahead of the row.     *)
LEMMA CurrentMovesOn ==
  ASSUME Types, Types', RowBehind, NEW t \in Tasks, cur \in Sessions, Speaks(cur, t),
         ReaderWrite(cur) \/ ReaderFinish(cur), row[t].status # "CANCELLED"
  PROVE  RowMovesOn(t)
<1>1. PICK m \in Up : m = reader[cur].msg /\ m.task = t
    BY MessagesTyped DEF Speaks
<1>2. PICK r \in RowType : r = row[t]
    BY DEF Types, RowOK
<1>3. PICK q \in RowType : q = row'[t]
    BY DEF Types, RowOK
<1>4. Last = 2 * MaxRetry + 4 /\ MaxRetry \in Nat /\ m.retries \in 0..MaxRetry
    BY TaskAssumption, StageOfKind DEF Last
<1>5. r.retries \in 0..MaxRetry /\ q.retries \in 0..MaxRetry
    BY DEF RowType
<1>6. CASE ReaderWrite(cur) /\ ~UNCHANGED row
  <2>1. 2 * r.retries + 3 <= StageOf(m) /\ ~Ended(t)
    <3>1. Clear(t, StageOf(m))
        BY <1>1, <1>6 DEF RowBehind, WriteAhead, HandledStage, ReaderWrite
    <3>2. QED
        BY <1>2, <1>4, <3>1, StageOfKind DEF Clear
  <2>2. r.status \in {"NONE", "PENDING", "RETRYING", "RUNNING"}
      BY <1>2, <2>1, StageOfRow DEF Ended
  <2>3. Stage(r) <= 2 * r.retries + 3 /\ (r.status # "RUNNING" => Stage(r) < 2 * r.retries + 3)
      BY <1>5, <2>2, StageOfRow
  <2>4. CASE m.kind = "accept" /\ MarkStarted(t)
    <3>1. q.status = "RUNNING" /\ q.retries = r.retries
        BY <1>2, <1>3, <2>4 DEF MarkStarted, Types, RowOK, RowType
    <3>2. Stage(q) = 2 * r.retries + 3
        BY <3>1, StageOfRow
    <3>3. r.status # "RUNNING" => Stage(r) < Stage(q)
        BY <2>3, <3>2
    <3>4. QED
        BY <1>2, <1>3, <3>1, <3>3 DEF RowMovesOn
  <2>5. CASE m.kind = "reject" /\ UpdateStatus(t, "FAILED", 0)
    <3>1. q.status = "FAILED"
        BY <1>3, <2>5 DEF UpdateStatus, Types, RowOK, RowType
    <3>2. Stage(q) = Last
        BY <3>1, StageOfRow
    <3>3. Stage(r) < Stage(q)
        BY <1>4, <1>5, <2>2, <3>2, StageOfRow
    <3>4. QED
        BY <1>2, <1>3, <3>3 DEF RowMovesOn
  <2>6. CASE m.kind \notin {"accept", "reject"} /\ UpdateStatus(t, m.kind, m.retries)
    <3>1. q.status = m.kind /\ q.retries = m.retries
        BY <1>3, <2>6 DEF UpdateStatus, Types, RowOK, RowType
    <3>2. Stage(q) = StageOf(m)
        BY <2>6, <3>1 DEF StageOf, StatusOf, Stage
    <3>3. Stage(r) < Stage(q) \/ (r.status = "RUNNING" /\ StageOf(m) = 2 * r.retries + 3)
        BY <1>4, <1>5, <2>1, <2>2, <2>3, <3>2, StageOfRow, StageOfKind
    <3>4. StageOf(m) = 2 * r.retries + 3 => m.kind = "RUNNING" /\ m.retries = r.retries
      <4>1. m.kind \in {"RETRYING", "RUNNING", "SUCCESS", "FAILED"}
          BY <2>6 DEF Up
      <4>2. QED
          BY <1>4, <1>5, <4>1, StageOfKind
    <3>5. QED
        BY <1>2, <1>3, <3>1, <3>3, <3>4 DEF RowMovesOn
  <2>7. QED
      BY <1>1, <1>6, <2>4, <2>5, <2>6 DEF ReaderWrite
<1>7. CASE ReaderFinish(cur) /\ ~UNCHANGED row
  <2>1. /\ StatusOf(m) \in {"SUCCESS", "FAILED"}
        /\ Ended(t) => r.status = StatusOf(m)
      BY <1>1, <1>2, <1>7 DEF RowBehind, FinishEnds, FinishAgrees, ReaderFinish
  <2>2. q.status = StatusOf(m) /\ q.retries = r.retries
      BY <1>1, <1>2, <1>3, <1>7 DEF ReaderFinish, MarkFinished, Types, RowOK, RowType
  <2>3. ~Ended(t) => r.status \in {"NONE", "PENDING", "RETRYING", "RUNNING"}
      BY <1>2, StageOfRow DEF Ended
  <2>4. ~Ended(t) => Stage(r) < Stage(q)
      BY <1>4, <1>5, <2>1, <2>2, <2>3, StageOfRow
  <2>5. QED
      BY <1>2, <1>3, <2>1, <2>2, <2>4 DEF RowMovesOn
<1>8. CASE UNCHANGED row
    BY <1>8, SMTT(20) DEF RowMovesOn
<1>9. QED
    BY <1>6, <1>7, <1>8

LEMMA RowWriters ==
  ASSUME [Next]_vars
  PROVE  \/ UNCHANGED row
         \/ \E u \in Tasks : CreateTask(u) \/ MarkDispatched(u)
         \/ \E c \in Cancels : CancelMark(c) \/ CancelFinish(c)
         \/ \E s \in Sessions : ReaderWrite(s) \/ ReaderFinish(s)
  BY ZenonT(30) DEF vars, Next, CreateStep, NotifyCreated, DispatchStep, DispatchRead, DispatchSend,
     DispatchMark, CancelStep, CancelRead, CancelControl, CancelNotify, ReaderStep, ReaderTake,
     ReaderNotify, Attach, HandlerReturns, Detach, Crash, Receive, AgentAnswers, Report

LEMMA RowsMoveOn ==
  ASSUME Types, Types', RowBehind, [Next]_vars, NEW t \in Tasks
  PROVE  RowMovesOn(t)
<1> USE DEF Types, RowOK
<1>1. CASE UNCHANGED row
    BY <1>1 DEF RowMovesOn
<1>2. ASSUME NEW u \in Tasks, CreateTask(u) PROVE RowMovesOn(t)
  <2>1. CASE u = t
    <3>1. row[t].status = "NONE" /\ row'[t].status = "PENDING"
        BY <1>2, <2>1 DEF CreateTask, RowType
    <3>2. Stage(row[t]) = 0 /\ Stage(row'[t]) = 1
        BY <3>1 DEF Stage
    <3>3. QED
        BY <3>2 DEF RowMovesOn
  <2>2. CASE u # t
      BY <1>2, <2>2 DEF CreateTask, RowMovesOn
  <2>3. QED
      BY <2>1, <2>2
<1>3. ASSUME NEW u \in Tasks, MarkDispatched(u) PROVE RowMovesOn(t)
    BY <1>3 DEF MarkDispatched, RowType, RowMovesOn
<1>4. ASSUME NEW c \in Cancels, CancelMark(c) \/ CancelFinish(c) PROVE RowMovesOn(t)
  <2>1. row'[t] = row[t] \/ row'[t].status = "CANCELLED"
      BY <1>4 DEF CancelMark, CancelFinish, UpdateStatus, MarkFinished, RowType
  <2>2. QED
      BY <2>1 DEF RowMovesOn
<1>5. ASSUME NEW s \in Sessions, ReaderWrite(s) \/ ReaderFinish(s) PROVE RowMovesOn(t)
  <2>1. CASE ~Speaks(s, t)
    <3>1. reader[s].msg.task # t /\ row'[t] = row[t]
      <4>1. reader[s].msg.task # t
          BY <1>5, <2>1, Handling DEF Speaks
      <4>2. QED
          BY <1>5, <4>1, WrittenStatus
    <3>2. QED
        BY <3>1 DEF RowMovesOn
  <2>2. CASE Speaks(s, t) /\ s # cur
      BY <2>2 DEF RowMovesOn
  <2>3. CASE Speaks(s, t) /\ s = cur /\ row[t].status # "CANCELLED"
      BY <1>5, <2>3, CurrentMovesOn
  <2>4. CASE row[t].status = "CANCELLED"
      BY <2>4 DEF RowMovesOn
  <2>5. QED
      BY <2>1, <2>2, <2>3, <2>4
<1>6. QED
    BY <1>1, <1>2, <1>3, <1>4, <1>5, RowWriters

(* Whatever fails, is lost or is cancelled, for one dispatcher of each     *)
(* task: a row moves forwards, except where CANCELLED is written or        *)
(* overwritten and under a message of a connection already replaced.       *)
THEOREM RowsAdvanceAlways ==
  ASSUME OneDispatcher
  PROVE  Spec => RowsAdvance
<1>1. Init => AdvanceInv
    BY DeliveryInitial, CopyInitial, AdvanceInitial DEF AdvanceInv
<1>2. AdvanceInv /\ [Next]_vars => AdvanceInv'
    BY AdvanceStep
<1>3. AdvanceInv /\ AdvanceInv' /\ [Next]_vars =>
        [\A t \in Tasks : RowMovesOn(t)]_vars
    BY RowsMoveOn DEF AdvanceInv, DeliveryInv
<1>4. [\A t \in Tasks : RowMovesOn(t)]_vars =>
      [\A t \in Tasks :
       \/ row'[t].status = row[t].status /\ row'[t].retries = row[t].retries
       \/ Stage(row[t]) < Stage(row'[t])
       \/ "CANCELLED" \in {row[t].status, row'[t].status}
       \/ \E s \in Sessions \ {cur} : reader[s] # Idle /\ reader[s].msg.task = t]_vars
    BY DEF RowMovesOn, Speaks
<1>5. QED
    BY <1>1, <1>2, <1>3, <1>4, PTL DEF Spec, RowsAdvance

(* Where no connection is ever replaced, no message is handled on an old   *)
(* one; and a task that nobody may cancel is never CANCELLED.              *)
NoneOld == \A s \in Sessions : reader[s] # Idle => s = cur
NeverCancelled == \A t \in Undisturbed : row[t].status # "CANCELLED"
SteadyInv == AdvanceInv /\ NoneOld /\ RequestsKnown /\ NeverCancelled

LEMMA NoneOldStep ==
  ASSUME ~Drops, Types, RowBehind, NoneOld, [Next]_vars
  PROVE  NoneOld'
<1>1. ASSUME NEW s \in Sessions, ReaderTake(s) PROVE NoneOld'
    BY <1>1, Taken DEF NoneOld, ReaderTake, linkVars
<1>2. ASSUME NEW s \in Sessions, ReaderWrite(s) \/ ReaderFinish(s) \/ ReaderNotify(s)
      PROVE  NoneOld'
    BY <1>2, Handling DEF NoneOld
<1>3. ASSUME NEW s \in Sessions, Attach(s) PROVE NoneOld'
    BY <1>3, TaskAssumption DEF Attach, NoneOld
<1>4. CASE Crash
    BY <1>4 DEF Crash, NoneOld
<1>5. CASE UNCHANGED <<reader, cur>>
    BY <1>5, SMTT(20) DEF NoneOld
<1>6. \/ UNCHANGED <<reader, cur>> \/ Crash
      \/ \E s \in Sessions : ReaderStep(s) \/ Attach(s)
    BY ZenonT(30) DEF vars, linkVars, Next, CreateStep, CreateTask, NotifyCreated, DispatchStep,
       DispatchRead, DispatchSend, DispatchMark, CancelStep, CancelRead, CancelMark,
       CancelFinish, CancelControl, CancelNotify, HandlerReturns, Detach, Receive,
       AgentAnswers, Report
<1>7. QED
    BY <1>1, <1>2, <1>3, <1>4, <1>5, <1>6 DEF ReaderStep

LEMMA CancelWriters ==
  ASSUME [Next]_vars
  PROVE  \/ UNCHANGED cancel \/ Crash
         \/ \E c \in Cancels : CancelStep(c) \/ \E t \in Tasks : CancelRead(c, t)
<1>1. ASSUME NEW t \in Tasks, CreateStep(t) \/ AgentAnswers(t)
      PROVE  UNCHANGED cancel
    BY <1>1 DEF CreateStep, CreateTask, NotifyCreated, AgentAnswers, Report
<1>3. ASSUME NEW t \in Tasks, NEW d \in Dispatchers, DispatchStep(t, d)
      PROVE  UNCHANGED cancel
    BY <1>3 DEF DispatchStep, DispatchRead, DispatchSend, DispatchMark
<1>4. ASSUME Detach \/ Receive \/ UNCHANGED vars
      PROVE  UNCHANGED cancel
    BY <1>4 DEF Detach, Receive, vars
<1>2. ASSUME NEW s \in Sessions, ReaderStep(s) \/ Attach(s) \/ HandlerReturns(s)
      PROVE  UNCHANGED cancel
    BY <1>2 DEF ReaderStep, ReaderTake, ReaderWrite, ReaderFinish, ReaderNotify, Attach,
       HandlerReturns
<1>5. QED
    BY <1>1, <1>2, <1>3, <1>4 DEF Next

LEMMA RequestsKnownStep ==
  ASSUME Types, RequestsKnown, [Next]_vars
  PROVE  RequestsKnown'
<1>1. ASSUME NEW c \in Cancels, NEW t \in Tasks, CancelRead(c, t) PROVE RequestsKnown'
    BY <1>1 DEF CancelRead, RequestsKnown, Types, CancelOK
<1>2. ASSUME NEW c \in Cancels, CancelStep(c) PROVE RequestsKnown'
  <2>1. cancel[c] # Idle /\ \E pc : cancel' = [cancel EXCEPT ![c].pc = pc]
      BY <1>2 DEF CancelStep, CancelMark, CancelFinish, CancelControl, CancelNotify, Idle
  <2>2. cancel'[c].task = cancel[c].task /\ \A b \in Cancels \ {c} : cancel'[b] = cancel[b]
      BY <2>1 DEF Types, CancelOK, CancelType
  <2>3. QED
      BY <2>1, <2>2 DEF RequestsKnown
<1>3. CASE Crash
  <2>1. \A c \in Cancels : cancel[c] # Idle => cancel'[c].task = cancel[c].task
      BY <1>3 DEF Crash, Types, CancelOK, CancelType
  <2>2. \A c \in Cancels : cancel[c] = Idle => cancel'[c] = Idle
      BY <1>3 DEF Crash
  <2>3. QED
      BY <2>1, <2>2 DEF RequestsKnown
<1>4. CASE UNCHANGED cancel
    BY <1>4 DEF RequestsKnown
<1>5. QED
    BY <1>1, <1>2, <1>3, <1>4, CancelWriters

LEMMA NeverCancelledStep ==
  ASSUME Types, RowBehind, RequestsKnown, NeverCancelled, [Next]_vars
  PROVE  NeverCancelled'
<1> SUFFICES ASSUME NEW t \in Undisturbed PROVE row'[t].status # "CANCELLED"
    BY DEF NeverCancelled
<1> USE DEF Types, RowOK
<1>1. t \in Tasks /\ t \notin Cancellable /\ row[t].status # "CANCELLED"
    BY DEF Undisturbed, NeverCancelled
<1>2. ASSUME NEW u \in Tasks, CreateTask(u) \/ MarkDispatched(u)
      PROVE  row'[t].status # "CANCELLED"
    BY <1>1, <1>2 DEF CreateTask, MarkDispatched, RowType
<1>3. ASSUME NEW c \in Cancels, CancelMark(c) \/ CancelFinish(c)
      PROVE  row'[t].status # "CANCELLED"
  <2>1. cancel[c].task \in Cancellable
      BY <1>3 DEF RequestsKnown, CancelMark, CancelFinish, Idle
  <2>2. row'[t] = row[t]
      BY <1>1, <1>3, <2>1 DEF CancelMark, CancelFinish, UpdateStatus, MarkFinished
  <2>3. QED
      BY <1>1, <2>2
<1>4. ASSUME NEW s \in Sessions, ReaderWrite(s) \/ ReaderFinish(s)
      PROVE  row'[t].status # "CANCELLED"
  <2>1. reader[s].msg \in Up
      BY <1>4, Handling
  <2>2. StatusOf(reader[s].msg) # "CANCELLED"
      BY <2>1 DEF Up, StatusOf
  <2>3. QED
      BY <1>1, <1>4, <2>2, WrittenStatus
<1>5. QED
    BY <1>1, <1>2, <1>3, <1>4, RowWriters

(* Then every change of the row is a step forwards, whatever statement     *)
(* fails and whenever the process crashes: what ended, stays as it ended.  *)
THEOREM SteadyRowsAdvance ==
  ASSUME OneDispatcher, ~Drops
  PROVE  Spec => [][\A t \in Undisturbed :
                      \/ row'[t].status = row[t].status /\ row'[t].retries = row[t].retries
                      \/ Stage(row[t]) < Stage(row'[t])]_vars
<1> DEFINE Forwards(t) == \/ row'[t].status = row[t].status /\ row'[t].retries = row[t].retries
                          \/ Stage(row[t]) < Stage(row'[t])
<1>1. Init => SteadyInv
  <2> SUFFICES ASSUME Init PROVE SteadyInv
      OBVIOUS
  <2>1. AdvanceInv
      BY DeliveryInitial, CopyInitial, AdvanceInitial DEF AdvanceInv
  <2>2. NoneOld /\ RequestsKnown
      BY DEF Init, NoneOld, RequestsKnown
  <2>3. NeverCancelled
      BY DEF Init, NeverCancelled, Undisturbed
  <2>4. QED
      BY <2>1, <2>2, <2>3 DEF SteadyInv
<1>2. SteadyInv /\ [Next]_vars => SteadyInv'
  <2> SUFFICES ASSUME SteadyInv, [Next]_vars PROVE SteadyInv'
      OBVIOUS
  <2>1. Types /\ RowBehind /\ AdvanceInv'
      BY AdvanceStep DEF SteadyInv, AdvanceInv, DeliveryInv
  <2>2. QED
      BY <2>1, NoneOldStep, RequestsKnownStep, NeverCancelledStep DEF SteadyInv
<1>3. SteadyInv /\ SteadyInv' /\ [Next]_vars => [\A t \in Undisturbed : Forwards(t)]_vars
  <2> SUFFICES ASSUME SteadyInv, SteadyInv', [Next]_vars, NEW t \in Undisturbed
               PROVE  Forwards(t)
      OBVIOUS
  <2>1. Types /\ Types' /\ RowBehind /\ t \in Tasks
      BY DEF SteadyInv, AdvanceInv, DeliveryInv, Undisturbed
  <2>2. RowMovesOn(t)
      BY <2>1, RowsMoveOn
  <2>3. \A s \in Sessions \ {cur} : ~Speaks(s, t)
      BY DEF SteadyInv, NoneOld, Speaks
  <2>4. row[t].status # "CANCELLED" /\ row'[t].status # "CANCELLED"
      BY DEF SteadyInv, NeverCancelled
  <2>5. QED
      BY <2>2, <2>3, <2>4 DEF RowMovesOn
<1>4. QED
    BY <1>1, <1>2, <1>3, PTL DEF Spec

-----------------------------------------------------------------------------
(* Why the server invents nothing: what the agent once did stays done, the *)
(* agent has done what it says in a message, and whoever writes a row or   *)
(* tells a user repeats a message, or what a row said before.              *)
Claim(m) == Happened(m.task, StatusOf(m), m.retries)

MessagesTrue   == \A s \in Sessions : \A i \in 1..Len(up[s]) : Claim(up[s][i])
HandledTrue    == \A s \in Sessions : reader[s] # Idle => Claim(reader[s].msg)
RememberedTrue == \A c \in Cancels :
  cancel[c].pc = "mark" => Happened(cancel[c].task, "CANCELLED", cancel[c].retries)
Truthful  == MessagesTrue /\ HandledTrue /\ RememberedTrue /\ NothingInvented
HonestInv == AdvanceInv /\ Truthful

LEMMA HonestInitial == Init => Truthful
<1> SUFFICES ASSUME Init PROVE Truthful
    OBVIOUS
<1>1. NothingInvented
    BY DEF Init, NothingInvented, Happened
<1>2. MessagesTrue /\ HandledTrue /\ RememberedTrue
    BY DEF Init, MessagesTrue, HandledTrue, RememberedTrue, Idle
<1>3. QED
    BY <1>1, <1>2 DEF Truthful

(* Receiving a message undoes nothing: a task comes before anything was    *)
(* done with it, a cancel only ends it.                                    *)
LEMMA ReceiveUndoesNothing ==
  ASSUME Types, AgentHasCopy, CopyInv, Receive, NEW t \in Tasks
  PROVE  /\ agent'[t].retries = agent[t].retries
         /\ agent[t].state \notin {"none", "got"} => agent'[t].state \notin {"none", "got"}
         /\ agent[t].state = "over" => agent'[t].state = "over"
<1> USE DEF Types, AgentOK, AgentType
<1>1. PICK m \in Down : m = Head(queue[cur])
    BY DEF Receive, QueueOK, LinkOK
<1>2. cur \in Sessions /\ 1 \in 1..Len(queue[cur]) /\ queue[cur][1] = m
    BY <1>1 DEF Receive, QueueOK, LinkOK
<1>3. m.task \in Tasks /\ m.type \in {"task", "cancel"} /\ m = [type |-> m.type, task |-> m.task]
    BY DEF Down
<1>4. CASE m.type = "task"
  <2>1. Holds(m.task, cur, 1)
      BY <1>2, <1>3, <1>4 DEF Holds
  <2>2. agent[m.task].copies = 0
      BY <1>2, <1>3, <2>1 DEF CopyInv, GivenOnce, Nowhere
  <2>3. agent[m.task].state = "none"
      BY <1>3, <2>2 DEF AgentHasCopy, Given
  <2>4. agent'[t].retries = agent[t].retries /\ (t # m.task => agent'[t] = agent[t])
      BY <1>1, <1>3, <1>4, SMTT(20) DEF Receive
  <2>5. QED
      BY <2>3, <2>4
<1>5. CASE m.type = "cancel"
    BY <1>1, <1>3, <1>5 DEF Receive
<1>6. QED
    BY <1>3, <1>4, <1>5

(* What the agent says next it has done, and it undoes nothing.            *)
LEMMA AnswersAreTrue ==
  ASSUME Types, NEW u \in Tasks, AgentAnswers(u)
  PROVE  \E kind, state, n :
           /\ [task |-> u, kind |-> kind, retries |-> n] \in Up
           /\ Report(u, kind, state, n)
           /\ state \in {"working", "retrying", "over"}
           /\ agent[u].state # "over"
           /\ n \in Nat /\ agent[u].retries <= n
           /\ kind \in {"reject", "SUCCESS", "FAILED"} => state = "over"
<1>1. agent[u].retries \in 0..MaxRetry
    BY DEF Types, AgentOK, AgentType
<1>2. \A kind \in {"accept", "reject", "RETRYING", "RUNNING", "SUCCESS", "FAILED"},
          n \in 0..MaxRetry : [task |-> u, kind |-> kind, retries |-> n] \in Up
    BY DEF Up
<1>3. agent[u].retries < MaxRetry =>
        agent[u].retries + 1 \in 0..MaxRetry /\ agent[u].retries <= agent[u].retries + 1
    BY <1>1, TaskAssumption
<1>4. agent[u].retries \in Nat /\ agent[u].retries <= agent[u].retries
    BY <1>1
<1>5. CASE agent[u].state = "got"
    BY <1>1, <1>2, <1>4, <1>5 DEF AgentAnswers
<1>6. CASE agent[u].state = "working"
  <2>1. \/ Report(u, "SUCCESS", "over", agent[u].retries)
        \/ Report(u, "FAILED", "over", agent[u].retries)
        \/ agent[u].retries < MaxRetry /\ Report(u, "RETRYING", "retrying", agent[u].retries + 1)
      BY <1>6 DEF AgentAnswers
  <2>2. CASE \/ Report(u, "SUCCESS", "over", agent[u].retries)
             \/ Report(u, "FAILED", "over", agent[u].retries)
      BY <1>1, <1>2, <1>4, <1>6, <2>2
  <2>3. CASE /\ agent[u].retries < MaxRetry
             /\ Report(u, "RETRYING", "retrying", agent[u].retries + 1)
      BY <1>2, <1>3, <1>6, <2>3
  <2>4. QED
      BY <2>1, <2>2, <2>3
<1>7. CASE agent[u].state = "retrying"
    BY <1>1, <1>2, <1>4, <1>7 DEF AgentAnswers
<1>8. QED
    BY <1>5, <1>6, <1>7 DEF AgentAnswers

LEMMA ReportedState ==
  ASSUME Types, NEW u \in Tasks, NEW kind, NEW state, NEW n, Report(u, kind, state, n)
  PROVE  /\ agent'[u].state = state /\ agent'[u].retries = n
         /\ \A t \in Tasks \ {u} : agent'[t] = agent[t]
         /\ UNCHANGED <<row, cancel, reader, pushed>>
  BY DEF Report, Types, AgentOK, AgentType

(* What once happened stays so. *)
LEMMA WhatHappened ==
  ASSUME Types, DeliveryInv, CopyInv, [Next]_vars,
         NEW t \in Tasks, NEW st, NEW n \in Nat, Happened(t, st, n)
  PROVE  Happened(t, st, n)'
<1>1. CASE UNCHANGED agent
    BY <1>1 DEF Happened
<1>2. CASE Receive
    BY <1>2, ReceiveUndoesNothing DEF Happened, DeliveryInv
<1>3. ASSUME NEW u \in Tasks, AgentAnswers(u) PROVE Happened(t, st, n)'
  <2>1. PICK kind, state, k :
          /\ Report(u, kind, state, k)
          /\ state \in {"working", "retrying", "over"}
          /\ agent[u].state # "over"
          /\ k \in Nat /\ agent[u].retries <= k
      BY <1>3, AnswersAreTrue
  <2>2. agent'[u].state = state /\ agent'[u].retries = k /\ (t # u => agent'[t] = agent[t])
      BY <2>1, ReportedState
  <2>3. agent[t].retries \in Nat
      BY DEF Types, AgentOK, AgentType
  <2>4. CASE t = u
    <3>1. n <= agent'[t].retries
        BY <2>1, <2>2, <2>3, <2>4 DEF Happened
    <3>2. QED
        BY <2>1, <2>2, <2>4, <3>1 DEF Happened
  <2>5. CASE t # u
      BY <2>2, <2>5, SMTT(20) DEF Happened
  <2>6. QED
      BY <2>4, <2>5
<1>4. UNCHANGED agent \/ Receive \/ \E u \in Tasks : AgentAnswers(u)
    BY DEF vars, Next, CreateStep, CreateTask, NotifyCreated, DispatchStep, DispatchRead,
       DispatchSend, DispatchMark, CancelStep, CancelRead, CancelMark, CancelFinish,
       CancelControl, CancelNotify, ReaderStep, ReaderTake, ReaderWrite, ReaderFinish,
       ReaderNotify, Attach, HandlerReturns, Detach, Crash
<1>5. QED
    BY <1>1, <1>2, <1>3, <1>4

(* A message on its way after a step was on its way before, or the agent   *)
(* has just sent it.                                                       *)
LEMMA OnTheWay ==
  ASSUME Types, [Next]_vars, NEW s \in Sessions, NEW i \in 1..Len(up'[s])
  PROVE  \/ \E j \in 1..Len(up[s]) : up'[s][i] = up[s][j]
         \/ \E m \in Up : up'[s][i] = m /\ Claim(m)'
<1>1. CASE UNCHANGED up
    BY <1>1
<1>2. CASE up'[s] = up[s] \/ up'[s] = <<>>
    BY <1>2
<1>3. CASE Crash \/ Detach \/ \E r \in Sessions : Attach(r)
    BY <1>2, <1>3 DEF Crash, Detach, Attach, ForgetCurrent
<1>4. ASSUME NEW r \in Sessions, ReaderTake(r)
      PROVE  \E j \in 1..Len(up[s]) : up'[s][i] = up[s][j]
    BY <1>4, Taken, ZenonT(30)
<1>5. ASSUME NEW u \in Tasks, AgentAnswers(u)
      PROVE  \/ \E j \in 1..Len(up[s]) : up'[s][i] = up[s][j]
             \/ \E m \in Up : up'[s][i] = m /\ Claim(m)'
  <2>1. PICK kind, state, n :
          /\ [task |-> u, kind |-> kind, retries |-> n] \in Up
          /\ Report(u, kind, state, n)
          /\ state \in {"working", "retrying", "over"}
          /\ n \in Nat
          /\ kind \in {"reject", "SUCCESS", "FAILED"} => state = "over"
      BY <1>5, AnswersAreTrue
  <2>2. PICK m \in Up : m = [task |-> u, kind |-> kind, retries |-> n]
      BY <2>1
  <2>3. /\ cur \in Sessions /\ up[cur] \in Seq(Up)
        /\ \A r \in Sessions \ {cur} : up'[r] = up[r]
        /\ Len(up'[cur]) = Len(up[cur]) + 1
        /\ \A j \in 1..Len(up'[cur]) :
             up'[cur][j] = IF j = Len(up[cur]) + 1 THEN m ELSE up[cur][j]
      BY <2>1, <2>2, Reported
  <2>4. CASE s = cur /\ i = Len(up[cur]) + 1
    <3>1. up'[s][i] = m /\ m.task = u /\ m.kind = kind /\ m.retries = n
        BY <2>2, <2>3, <2>4
    <3>2. agent'[u].state = state /\ agent'[u].retries = n
        BY <2>1, ReportedState
    <3>3. StatusOf(m) \in {"SUCCESS", "FAILED"} => kind \in {"reject", "SUCCESS", "FAILED"}
        BY <2>2, <3>1 DEF StatusOf, Up
    <3>4. n <= agent'[u].retries
        BY <2>1, <3>2
    <3>5. /\ agent'[u].state \notin {"none", "got"}
          /\ StatusOf(m) \in {"SUCCESS", "FAILED"} => agent'[u].state = "over"
        BY <2>1, <3>2, <3>3
    <3>6. QED
        BY <3>1, <3>4, <3>5 DEF Claim, Happened
  <2>5. CASE s = cur /\ i # Len(up[cur]) + 1
      BY <2>3, <2>5
  <2>6. CASE s # cur
      BY <2>3, <2>6
  <2>7. QED
      BY <2>4, <2>5, <2>6
<1>6. ASSUME \/ \E t \in Tasks : CreateStep(t)
             \/ \E t \in Tasks, d \in Dispatchers : DispatchStep(t, d)
             \/ \E c \in Cancels : CancelStep(c) \/ \E t \in Tasks : CancelRead(c, t)
      PROVE  UNCHANGED up
    BY <1>6 DEF CreateStep, CreateTask, NotifyCreated, DispatchStep, DispatchRead,
       DispatchSend, DispatchMark, CancelStep, CancelRead, CancelMark, CancelFinish,
       CancelControl, CancelNotify
<1>7. ASSUME NEW r \in Sessions, ReaderStep(r), ~ReaderTake(r)
      PROVE  UNCHANGED up
    BY <1>7 DEF ReaderStep, ReaderWrite, ReaderFinish, ReaderNotify
<1>8. ASSUME (\E r \in Sessions : HandlerReturns(r)) \/ Receive \/ UNCHANGED vars
      PROVE  UNCHANGED up
    BY <1>8 DEF HandlerReturns, Receive, vars
<1>9. QED
    BY <1>1, <1>3, <1>4, <1>5, <1>6, <1>7, <1>8 DEF Next

(* A read loop handles the message it was handling, or takes one.          *)
LEMMA HandledNext ==
  ASSUME Types, RowBehind, [Next]_vars, NEW s \in Sessions, reader'[s] # Idle
  PROVE  \/ reader[s] # Idle /\ reader'[s].msg = reader[s].msg
         \/ \E i \in 1..Len(up[s]) : reader'[s].msg = up[s][i]
<1>1. CASE reader'[s] = reader[s]
    BY <1>1
<1>2. ASSUME NEW r \in Sessions, ReaderTake(r)
      PROVE  \/ reader'[s] = reader[s]
             \/ \E i \in 1..Len(up[s]) : reader'[s].msg = up[s][i]
  <2>1. CASE r = s
    <3>1. reader'[s] = [pc |-> "write", msg |-> up[s][1]] /\ 1 \in 1..Len(up[s])
        BY <1>2, <2>1, Taken
    <3>2. reader'[s].msg = up[s][1]
        BY <3>1
    <3>3. QED
        BY <3>1, <3>2
  <2>2. CASE r # s
      BY <1>2, <2>2, Taken, ZenonT(30)
  <2>3. QED
      BY <2>1, <2>2
<1>3. ASSUME NEW r \in Sessions, ReaderWrite(r) \/ ReaderFinish(r) \/ ReaderNotify(r)
      PROVE  \/ reader'[s] = reader[s]
             \/ reader[s] # Idle /\ reader'[s].msg = reader[s].msg
    BY <1>3, Handling
<1>4. CASE Crash
    BY <1>4 DEF Crash
<1>5. CASE \/ \E t \in Tasks : CreateStep(t)
           \/ \E t \in Tasks, d \in Dispatchers : DispatchStep(t, d)
           \/ \E c \in Cancels : CancelStep(c) \/ \E t \in Tasks : CancelRead(c, t)
    BY <1>1, <1>5 DEF CreateStep, CreateTask, NotifyCreated, DispatchStep, DispatchRead,
       DispatchSend, DispatchMark, CancelStep, CancelRead, CancelMark, CancelFinish,
       CancelControl, CancelNotify
<1>6. CASE \/ \E r \in Sessions : Attach(r) \/ HandlerReturns(r)
           \/ Detach \/ Receive \/ UNCHANGED vars
    BY <1>1, <1>6 DEF Attach, HandlerReturns, Detach, Receive, vars
<1>7. CASE \E u \in Tasks : AgentAnswers(u)
    BY <1>1, <1>7 DEF AgentAnswers, Report
<1>8. QED
    BY <1>1, <1>2, <1>3, <1>4, <1>5, <1>6, <1>7 DEF Next, ReaderStep

(* A request about to mark a task remembers what the row said.             *)
LEMMA RememberedNext ==
  ASSUME Types, [Next]_vars, NEW c \in Cancels, cancel'[c].pc = "mark"
  PROVE  \/ cancel'[c] = cancel[c]
         \/ \E t \in Tasks : cancel'[c].task = t /\ cancel'[c].retries = row[t].retries
<1>1. ASSUME NEW b \in Cancels, NEW t \in Tasks, CancelRead(b, t)
      PROVE  \/ cancel'[c] = cancel[c]
             \/ cancel'[c].task = t /\ cancel'[c].retries = row[t].retries
  <2>1. cancel' = [cancel EXCEPT ![b] = [pc |-> "mark", task |-> t, retries |-> row[t].retries]]
      BY <1>1 DEF CancelRead, GetByID
  <2>2. CASE b = c
    <3>1. cancel'[c] = [pc |-> "mark", task |-> t, retries |-> row[t].retries]
        BY <2>1, <2>2 DEF Types, CancelOK
    <3>2. QED
        BY <3>1
  <2>3. CASE b # c
      BY <2>1, <2>3 DEF Types, CancelOK
  <2>4. QED
      BY <2>2, <2>3
<1>2. ASSUME NEW b \in Cancels, CancelStep(b) PROVE cancel'[c] = cancel[c]
  <2>1. \E pc : pc # "mark" /\ cancel[b] # Idle /\ cancel' = [cancel EXCEPT ![b].pc = pc]
      BY <1>2 DEF CancelStep, CancelMark, CancelFinish, CancelControl, CancelNotify, Idle
  <2>2. CASE b = c
      BY <2>1, <2>2 DEF Types, CancelOK, CancelType
  <2>3. CASE b # c
      BY <2>1, <2>3 DEF Types, CancelOK
  <2>4. QED
      BY <2>2, <2>3
<1>3. ASSUME Crash PROVE FALSE
    BY <1>3 DEF Crash, Idle, Types, CancelOK, CancelType
<1>4. CASE UNCHANGED cancel
    BY <1>4
<1>5. QED
    BY <1>1, <1>2, <1>3, <1>4, CancelWriters

(* Where a row has its status and its retry count from.                    *)
LEMMA RowNext ==
  ASSUME Types, RowBehind, [Next]_vars, NEW t \in Tasks
  PROVE  \/ /\ row'[t].status \in {row[t].status, "PENDING", "CANCELLED"}
            /\ row'[t].retries = row[t].retries
         \/ \E c \in Cancels :
              /\ cancel[c].pc = "mark" /\ cancel[c].task = t
              /\ row'[t].status = "CANCELLED" /\ row'[t].retries = cancel[c].retries
         \/ \E s \in Sessions :
              /\ Speaks(s, t) /\ row'[t].status = StatusOf(reader[s].msg)
              /\ row'[t].retries \in {0, row[t].retries, reader[s].msg.retries}
<1> USE DEF Types, RowOK, RowType
<1>1. CASE UNCHANGED row
    BY <1>1
<1>2. ASSUME NEW u \in Tasks, CreateTask(u) \/ MarkDispatched(u)
      PROVE  /\ row'[t].status \in {row[t].status, "PENDING"}
             /\ row'[t].retries = row[t].retries
    BY <1>2 DEF CreateTask, MarkDispatched
<1>3. ASSUME NEW c \in Cancels, CancelMark(c)
      PROVE  \/ row'[t] = row[t]
             \/ /\ cancel[c].pc = "mark" /\ cancel[c].task = t
                /\ row'[t].status = "CANCELLED" /\ row'[t].retries = cancel[c].retries
    BY <1>3 DEF CancelMark, UpdateStatus
<1>4. ASSUME NEW c \in Cancels, CancelFinish(c)
      PROVE  /\ row'[t].status \in {row[t].status, "CANCELLED"}
             /\ row'[t].retries = row[t].retries
    BY <1>4 DEF CancelFinish, MarkFinished
<1>5. ASSUME NEW s \in Sessions, ReaderWrite(s) \/ ReaderFinish(s)
      PROVE  \/ row'[t] = row[t]
             \/ /\ Speaks(s, t) /\ row'[t].status = StatusOf(reader[s].msg)
                /\ row'[t].retries \in {0, row[t].retries, reader[s].msg.retries}
  <2>1. reader[s] # Idle /\ reader[s].msg \in Up /\ reader[s].msg.task \in Tasks
      BY <1>5, Handling, StageOfKind
  <2>2. \/ row'[t] = row[t]
        \/ row'[t].status = StatusOf(reader[s].msg) /\ reader[s].msg.task = t
      BY <1>5, WrittenStatus
  <2>3. \/ UNCHANGED row \/ MarkStarted(reader[s].msg.task)
        \/ MarkFinished(reader[s].msg.task, StatusOf(reader[s].msg))
        \/ \E st, n : n \in {0, reader[s].msg.retries} /\ UpdateStatus(reader[s].msg.task, st, n)
      BY <1>5, Handling
  <2>4. row'[t].retries \in {0, row[t].retries, reader[s].msg.retries}
    <3>1. CASE MarkStarted(reader[s].msg.task)
        BY <2>1, <3>1, SMTT(20) DEF MarkStarted
    <3>2. CASE MarkFinished(reader[s].msg.task, StatusOf(reader[s].msg))
        BY <2>1, <3>2 DEF MarkFinished
    <3>3. ASSUME NEW st, NEW n \in {0, reader[s].msg.retries},
                 UpdateStatus(reader[s].msg.task, st, n)
          PROVE  row'[t].retries \in {n, row[t].retries}
        BY <2>1, <3>3 DEF UpdateStatus
    <3>4. QED
        BY <2>3, <3>1, <3>2, <3>3, SMTT(20)
  <2>5. QED
      BY <2>1, <2>2, <2>4 DEF Speaks
<1>6. QED
    BY <1>1, <1>2, <1>3, <1>4, <1>5, RowWriters

(* Where a user has what was last told of a task from.                     *)
LEMMA PushedNext ==
  ASSUME Types, [Next]_vars, NEW t \in Tasks
  PROVE  \/ pushed'[t] \in {pushed[t], "PENDING", "CANCELLED"}
         \/ \E s \in Sessions : Speaks(s, t) /\ pushed'[t] = StatusOf(reader[s].msg)
<1> USE DEF Types, PushedOK
<1>1. CASE UNCHANGED pushed
    BY <1>1
<1>2. ASSUME NEW u \in Tasks, NotifyCreated(u)
      PROVE  pushed'[t] \in {pushed[t], "PENDING"}
    BY <1>2 DEF NotifyCreated, Push
<1>3. ASSUME NEW c \in Cancels, CancelNotify(c)
      PROVE  pushed'[t] \in {pushed[t], "CANCELLED"}
    BY <1>3 DEF CancelNotify, Push
<1>4. ASSUME NEW s \in Sessions, ReaderNotify(s)
      PROVE  \/ pushed'[t] = pushed[t]
             \/ Speaks(s, t) /\ pushed'[t] = StatusOf(reader[s].msg)
    BY <1>4 DEF ReaderNotify, Push, Speaks, Idle
<1>5. ASSUME NEW u \in Tasks,
             CreateTask(u) \/ AgentAnswers(u) \/ \E d \in Dispatchers : DispatchStep(u, d)
      PROVE  UNCHANGED pushed
    BY <1>5 DEF CreateTask, AgentAnswers, Report, DispatchStep, DispatchRead, DispatchSend,
       DispatchMark
<1>8. ASSUME Detach \/ Crash \/ Receive \/ UNCHANGED vars
      PROVE  UNCHANGED pushed
    BY <1>8 DEF Detach, Crash, Receive, vars
<1>6. ASSUME NEW c \in Cancels,
             CancelMark(c) \/ CancelFinish(c) \/ CancelControl(c) \/ \E u \in Tasks : CancelRead(c, u)
      PROVE  UNCHANGED pushed
    BY <1>6 DEF CancelRead, CancelMark, CancelFinish, CancelControl
<1>7. ASSUME NEW s \in Sessions,
             ReaderTake(s) \/ ReaderWrite(s) \/ ReaderFinish(s) \/ Attach(s) \/ HandlerReturns(s)
      PROVE  UNCHANGED pushed
    BY <1>7 DEF ReaderTake, ReaderWrite, ReaderFinish, Attach, HandlerReturns
<1>9. QED
    BY <1>1, <1>2, <1>3, <1>4, <1>5, <1>6, <1>7, <1>8 DEF Next, CreateStep, CancelStep, ReaderStep

(* Two claims about one task mix: the status of one, the retries of the    *)
(* other; and no retries claim nothing.                                    *)
LEMMA ClaimsMix ==
  ASSUME Types, NEW t \in Tasks, NEW s1, NEW s2, NEW n1, NEW n2,
         Happened(t, s1, n1), Happened(t, s2, n2)
  PROVE  /\ \A n \in {n1, n2, 0} : Happened(t, s1, n)
         /\ Happened(t, "PENDING", n1) /\ Happened(t, "CANCELLED", n1)
<1>1. agent[t].retries \in Nat
    BY DEF Types, AgentOK, AgentType
<1>2. 0 <= agent[t].retries
    BY <1>1
<1>3. QED
    BY <1>2 DEF Happened

LEMMA HonestStep ==
  ASSUME AdvanceInv, AdvanceInv', Truthful, [Next]_vars
  PROVE  Truthful'
<1>1. Types /\ Types' /\ DeliveryInv /\ CopyInv /\ RowBehind
    BY DEF AdvanceInv, DeliveryInv
<1>2. \A t \in Tasks, n \in Nat : \A st : Happened(t, st, n) => Happened(t, st, n)'
    BY <1>1, WhatHappened
<1>3. ASSUME NEW m \in Up, Claim(m) PROVE Claim(m)'
    BY <1>2, <1>3, StageOfKind DEF Claim
<1>4. MessagesTrue'
  <2> SUFFICES ASSUME NEW s \in Sessions, NEW i \in 1..Len(up'[s]), NEW m, m = up'[s][i]
               PROVE  Claim(m)'
      BY DEF MessagesTrue
  <2>1. CASE \E j \in 1..Len(up[s]) : up'[s][i] = up[s][j]
      BY <1>1, <1>3, <2>1, MessagesTyped DEF Truthful, MessagesTrue
  <2>2. CASE \E k \in Up : up'[s][i] = k /\ Claim(k)'
      BY <2>2
  <2>3. QED
      BY <1>1, <2>1, <2>2, OnTheWay
<1>5. HandledTrue'
  <2> SUFFICES ASSUME NEW s \in Sessions, reader'[s] # Idle, NEW m, m = reader'[s].msg
               PROVE  Claim(m)'
      BY DEF HandledTrue
  <2>1. m \in Up /\ Claim(m)
      BY <1>1, HandledNext, MessagesTyped DEF Truthful, MessagesTrue, HandledTrue
  <2>2. QED
      BY <1>3, <2>1
<1>6. RememberedTrue'
  <2> SUFFICES ASSUME NEW c \in Cancels, cancel'[c].pc = "mark",
                      NEW t, NEW n, t = cancel'[c].task, n = cancel'[c].retries
               PROVE  Happened(t, "CANCELLED", n)'
      BY DEF RememberedTrue
  <2>1. t \in Tasks /\ n \in Nat
      BY <1>1 DEF Types, CancelOK, CancelType, Idle
  <2>2. Happened(t, "CANCELLED", n)
    <3>1. CASE cancel'[c] = cancel[c]
        BY <3>1 DEF Truthful, RememberedTrue
    <3>2. CASE n = row[t].retries
        BY <3>2, <2>1 DEF Truthful, NothingInvented, Happened
    <3>3. QED
        BY <1>1, <3>1, <3>2, RememberedNext
  <2>3. QED
      BY <1>2, <2>1, <2>2
<1>7. ASSUME NEW s \in Sessions, NEW t \in Tasks, Speaks(s, t)
      PROVE  Happened(t, StatusOf(reader[s].msg), reader[s].msg.retries)
    BY <1>7 DEF Speaks, Truthful, HandledTrue, Claim
<1>8. ASSUME NEW t \in Tasks PROVE Happened(t, row[t].status, row[t].retries)'
  <2>1. PICK st, n : st = row'[t].status /\ n = row'[t].retries
      OBVIOUS
  <2>2. n \in Nat
      BY <1>1, <2>1 DEF Types, RowOK, RowType
  <2>3. Happened(t, row[t].status, row[t].retries)
      BY DEF Truthful, NothingInvented
  <2>4. Happened(t, st, n)
    <3>1. CASE row'[t].status \in {row[t].status, "PENDING", "CANCELLED"}
               /\ row'[t].retries = row[t].retries
        BY <1>1, <2>1, <2>3, <3>1, ClaimsMix
    <3>2. ASSUME NEW c \in Cancels, cancel[c].pc = "mark", cancel[c].task = t,
                 row'[t].status = "CANCELLED", row'[t].retries = cancel[c].retries
          PROVE  Happened(t, st, n)
        BY <2>1, <3>2 DEF Truthful, RememberedTrue
    <3>3. ASSUME NEW s \in Sessions, Speaks(s, t), row'[t].status = StatusOf(reader[s].msg),
                 row'[t].retries \in {0, row[t].retries, reader[s].msg.retries}
          PROVE  Happened(t, st, n)
        BY <1>1, <1>7, <2>1, <2>3, <3>3, ClaimsMix
    <3>4. QED
        BY <1>1, <3>1, <3>2, <3>3, RowNext
  <2>5. Happened(t, st, n)'
      BY <1>2, <2>2, <2>4
  <2>6. QED
      BY <2>1, <2>5
<1>9. ASSUME NEW t \in Tasks PROVE Happened(t, pushed[t], 0)'
  <2>1. PICK st : st = pushed'[t]
      OBVIOUS
  <2>2. Happened(t, pushed[t], 0)
      BY DEF Truthful, NothingInvented
  <2>3. Happened(t, st, 0)
    <3>1. CASE pushed'[t] \in {pushed[t], "PENDING", "CANCELLED"}
        BY <1>1, <2>1, <2>2, <3>1, ClaimsMix
    <3>2. ASSUME NEW s \in Sessions, Speaks(s, t), pushed'[t] = StatusOf(reader[s].msg)
          PROVE  Happened(t, st, 0)
        BY <1>1, <1>7, <2>1, <2>2, <3>2, ClaimsMix
    <3>3. QED
        BY <1>1, <3>1, <3>2, PushedNext
  <2>4. Happened(t, st, 0)'
      BY <1>2, <2>3
  <2>5. QED
      BY <2>1, <2>4
<1>10. QED
    BY <1>4, <1>5, <1>6, <1>8, <1>9 DEF Truthful, NothingInvented

(* Whatever fails, is lost or is cancelled, for one dispatcher of each     *)
(* task: neither the row nor what its user was last told is ahead of what  *)
(* the agent has done.                                                     *)
THEOREM NothingInventedAlways ==
  ASSUME OneDispatcher
  PROVE  Spec => []NothingInvented
<1>1. Init => HonestInv
    BY DeliveryInitial, CopyInitial, AdvanceInitial, HonestInitial DEF AdvanceInv, HonestInv
<1>2. HonestInv /\ [Next]_vars => HonestInv'
    BY AdvanceStep, HonestStep DEF HonestInv
<1>3. HonestInv => NothingInvented
    BY DEF HonestInv, Truthful
<1>4. QED
    BY <1>1, <1>2, <1>3, PTL DEF Spec

-----------------------------------------------------------------------------
(* The connections of this model are those of AgentLink, for the one agent *)
(* the tasks are for.                                                      *)
TheAgent == "agent"
Link == INSTANCE AgentLink WITH
  Agents <- {TheAgent}, AgentOf <- [s \in Sessions |-> TheAgent],
  current <- [a \in {TheAgent} |-> cur]

(* Attach, Detach and Crash change the agent's connection as the registry  *)
(* does (AgentRegistryProofs shows that the registry implements the same   *)
(* AgentLink), and no other step changes it: neither specification lets a  *)
(* connection come back that has lost its place.                           *)
THEOREM ConnectionsFollowLink == Spec => Link!Spec
<1>1. Init => Link!Init
  BY DEF Init, Link!Init
<1>2. TypeOK /\ [Next]_vars => [Link!Next]_Link!vars
  <2> SUFFICES ASSUME TypeOK, [Next]_vars PROVE Link!Next \/ UNCHANGED Link!vars
      OBVIOUS
  <2>1. ASSUME NEW s \in Sessions, Attach(s) PROVE Link!Next
    <3>1. Link!Attach(s)
        BY <2>1 DEF Attach, Link!Attach
    <3>2. QED
        BY <3>1 DEF Link!Next
  <2>2. CASE Detach
    <3>1. Link!Detach(TheAgent)
        BY <2>2 DEF Detach, Link!Detach
    <3>2. QED
        BY <3>1 DEF Link!Next
  <2>3. CASE Crash
    <3>1. Link!DetachAll
        BY <2>3 DEF Crash, Link!DetachAll
    <3>2. QED
        BY <3>1 DEF Link!Next
  <2>4. ASSUME UNCHANGED <<cur, spent>> PROVE UNCHANGED Link!vars
      BY <2>4 DEF Link!vars
  <2>5. ASSUME NEW t \in Tasks, CreateStep(t) \/ AgentAnswers(t)
        PROVE  UNCHANGED <<cur, spent>>
      BY <2>5 DEF CreateStep, CreateTask, NotifyCreated, AgentAnswers, Report, linkVars
  <2>6. ASSUME NEW t \in Tasks, NEW d \in Dispatchers, DispatchStep(t, d)
        PROVE  UNCHANGED <<cur, spent>>
      BY <2>6 DEF DispatchStep, DispatchRead, DispatchSend, DispatchMark, linkVars
  <2>7. ASSUME NEW c \in Cancels, CancelStep(c) \/ \E t \in Tasks : CancelRead(c, t)
        PROVE  UNCHANGED <<cur, spent>>
      BY <2>7 DEF CancelStep, CancelRead, CancelMark, CancelFinish, CancelControl,
         CancelNotify, linkVars
  <2>8. ASSUME NEW s \in Sessions, ReaderStep(s) \/ HandlerReturns(s)
        PROVE  UNCHANGED <<cur, spent>>
      BY <2>8 DEF ReaderStep, ReaderTake, ReaderWrite, ReaderFinish, ReaderNotify,
         HandlerReturns, linkVars
  <2>9. CASE Receive \/ UNCHANGED vars
      BY <2>9, <2>4 DEF Receive, vars, linkVars
  <2>10. QED
      BY <2>1, <2>2, <2>3, <2>4, <2>5, <2>6, <2>7, <2>8, <2>9 DEF Next
<1>3. QED
    BY <1>1, <1>2, TypeCorrect, PTL DEF Spec, Link!Spec
=============================================================================
