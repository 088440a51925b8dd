------------------------------ MODULE FleetProofs ------------------------------
(***************************************************************************)
(* Proofs about Fleet for any number of requests, factories, agents,       *)
(* devices and credentials, and any bodies of an update.                   *)
(***************************************************************************)
EXTENDS Fleet, TLAPS

LEMMA PutFacts ==
  ASSUME NEW f, NEW k, NEW v
  PROVE  /\ DOMAIN Put(f, k, v) = DOMAIN f \cup {k}
         /\ Put(f, k, v)[k] = v
         /\ \A x \in DOMAIN f : x # k => Put(f, k, v)[x] = f[x]
         /\ \A S : f \in [DOMAIN f -> S] /\ v \in S
                     => Put(f, k, v) \in [DOMAIN Put(f, k, v) -> S]
BY DEF Put

LEMMA DropFacts ==
  ASSUME NEW f, NEW k
  PROVE  /\ DOMAIN Drop(f, k) = DOMAIN f \ {k}
         /\ \A x \in DOMAIN f : x # k => Drop(f, k)[x] = f[x]
         /\ \A S : f \in [DOMAIN f -> S] => Drop(f, k) \in [DOMAIN Drop(f, k) -> S]
BY DEF Drop

-----------------------------------------------------------------------------
(* What a handler holds between two steps, by where it is. *)
LEMMA Held ==
  ASSUME NEW h \in Handling
  PROVE  /\ h.pc = "rotate" => /\ h.agent \in Agents /\ h.row \in AgentRows
                               /\ h.alone \in BOOLEAN
         /\ h.pc = "answer" => /\ h.agent \in Agents /\ h.token \in Tokens
                               /\ h.alone \in BOOLEAN
         /\ h.pc = "update" => /\ h.device \in Devices /\ h.row \in DeviceRows
                               /\ h.body \in Patches
         /\ h.pc = "report" => h.device \in Devices /\ h.status \in Statuses
         /\ h.pc = "task" => h.device \in Devices /\ h.agent \in Agents
BY DEF Handling, Idle

(* A body replaces fields of a row by values of their types. *)
LEMMA PatchedType ==
  ASSUME NEW row \in DeviceRows, NEW b \in Patches
  PROVE  /\ Patched(row, b) \in DeviceRows
         /\ Patched(row, b).status = IF b.status = Absent THEN row.status ELSE b.status
<1>1. b \in Bodies
  BY FleetAssumption
<1>2. DOMAIN row = {"factory", "agent", "status"}
  BY DEF DeviceRows
<1>3. QED
  BY <1>1, <1>2 DEF Patched, Bodies, DeviceRows

(* A request that is no longer alone stays what it is. *)
LEMMA Disturbed ==
  ASSUME NEW h \in Handling, h.pc \in {"rotate", "answer"}
  PROVE  [h EXCEPT !.alone = FALSE] \in Handling
<1> DEFINE Rotate == [pc : {"rotate"}, agent : Agents, row : AgentRows, alone : BOOLEAN]
           Ans == [pc : {"answer"}, agent : Agents, token : Tokens, alone : BOOLEAN]
<1>1. CASE h \in Rotate
  <2>1. [h EXCEPT !.alone = FALSE] \in Rotate
    BY <1>1
  <2>2. QED
    BY <2>1 DEF Handling
<1>2. CASE h \in Ans
  <2>1. [h EXCEPT !.alone = FALSE] \in Ans
    BY <1>2
  <2>2. QED
    BY <2>1 DEF Handling
<1>3. QED
  BY <1>1, <1>2 DEF Handling, Idle

-----------------------------------------------------------------------------
LEMMA InitTypes == Init => TypeOK
BY FleetAssumption DEF Init, TypeOK, Handling

(* The variables of a step that does not touch them keep their types. *)
LEMMA AgentStepTypes ==
  ASSUME TypeOK, NEW r \in Requests, RegisterAgentStep(r) \/ CredentialsStep(r)
  PROVE  TypeOK'
<1> USE DEF TypeOK, agentVars, deviceVars
<1>1. ASSUME NEW a \in Agents, NEW f \in Factories, NEW tok \in Tokens,
             RegisterAgent(r, a, f, tok)
      PROVE  TypeOK'
  <2>1. [factory |-> f, token |-> tok] \in AgentRows
    BY DEF AgentRows
  <2>2. [pc |-> "answer", agent |-> a, token |-> tok, alone |-> TRUE] \in Handling
    BY DEF Handling
  <2>3. DOMAIN agents' \subseteq Agents /\ agents' \in [DOMAIN agents' -> AgentRows]
    BY <1>1, <2>1 DEF RegisterAgent, CreateAgentRow, Put
  <2>4. req' \in [Requests -> Handling]
    BY <1>1, <2>2 DEF RegisterAgent, Hold
  <2>5. QED
    BY <1>1, <2>3, <2>4 DEF RegisterAgent, Fresh
<1>2. ASSUME NEW a \in Agents, CredentialsRead(r, a) PROVE TypeOK'
  <2> DEFINE others == {q \in Requests : Rotating(q, a)}
  <2>1. [pc |-> "rotate", agent |-> a, row |-> agents[a], alone |-> others = {}] \in Handling
    BY <1>2 DEF CredentialsRead, Handling
  <2>2. ASSUME NEW q \in others PROVE [req[q] EXCEPT !.alone = FALSE] \in Handling
    BY <2>2, Disturbed DEF Rotating
  <2>3. req' \in [Requests -> Handling]
    BY <1>2, <2>1, <2>2 DEF CredentialsRead
  <2>4. QED
    BY <1>2, <2>3 DEF CredentialsRead
<1>3. CASE CredentialsWrite(r)
  <2>1. PICK tok \in Tokens :
          /\ Fresh(tok)
          /\ UpdateAgentRow(req[r].agent, [req[r].row EXCEPT !.token = tok])
          /\ req' = [req EXCEPT ![r] = [pc |-> "answer", agent |-> req[r].agent,
                                        token |-> tok, alone |-> req[r].alone]]
    BY <1>3 DEF CredentialsWrite
  <2>2. req[r].agent \in Agents /\ req[r].row \in AgentRows /\ req[r].alone \in BOOLEAN
    BY <1>3, Held DEF CredentialsWrite
  <2>3. [req[r].row EXCEPT !.token = tok] \in AgentRows
    BY <2>2 DEF AgentRows
  <2>4. DOMAIN agents' \subseteq Agents /\ agents' \in [DOMAIN agents' -> AgentRows]
    BY <2>1, <2>3 DEF UpdateAgentRow
  <2>5. [pc |-> "answer", agent |-> req[r].agent, token |-> tok, alone |-> req[r].alone]
          \in Handling
    BY <2>2 DEF Handling
  <2>6. QED
    BY <1>3, <2>1, <2>4, <2>5 DEF CredentialsWrite, Fresh
<1>4. CASE CredentialsShown(r) \/ CredentialsLost(r)
  <2>1. req[r].agent \in Agents /\ req[r].token \in Tokens
    BY <1>4, Held DEF CredentialsShown, CredentialsLost
  <2>2. Idle \in Handling
    BY DEF Handling
  <2>3. QED
    BY <1>4, <2>1, <2>2 DEF CredentialsShown, CredentialsLost, Answer
<1>5. QED
  BY <1>1, <1>2, <1>3, <1>4 DEF RegisterAgentStep, CredentialsStep

LEMMA DeviceStepTypes ==
  ASSUME TypeOK, NEW r \in Requests,
         UpdateDeviceStep(r) \/ ReportStep(r) \/ CreateTaskStep(r) \/ ListDevicesStep(r)
  PROVE  TypeOK'
<1> USE DEF TypeOK, agentVars, deviceVars
<1>1. Idle \in Handling
  BY DEF Handling
<1>2. ASSUME NEW d \in Devices, NEW b \in Patches, UpdateDeviceRead(r, d, b) PROVE TypeOK'
  <2>1. [pc |-> "update", device |-> d, row |-> devices[d], body |-> b] \in Handling
    BY <1>2 DEF UpdateDeviceRead, Handling
  <2>2. QED
    BY <1>2, <2>1 DEF UpdateDeviceRead, Hold
<1>3. CASE UpdateDeviceWrite(r)
  <2> DEFINE d == req[r].device
             new == Patched(req[r].row, req[r].body)
  <2>1. d \in Devices /\ new \in DeviceRows /\ new.status \in Statuses
    BY <1>3, Held, PatchedType DEF UpdateDeviceWrite, DeviceRows
  <2>2. DOMAIN devices' = DOMAIN devices /\ devices' \in [DOMAIN devices' -> DeviceRows]
    BY <1>3, <2>1 DEF UpdateDeviceWrite, UpdateDeviceRow
  <2>3. said' \in [Devices -> Statuses] /\ muddled' \subseteq Devices
    BY <1>3, <2>1 DEF UpdateDeviceWrite, StatusWritten
  <2>4. QED
    BY <1>1, <1>3, <2>2, <2>3 DEF UpdateDeviceWrite, Answer
<1>4. ASSUME NEW d \in Devices, NEW s \in Statuses, ReportRead(r, d, s) PROVE TypeOK'
  BY <1>4 DEF ReportRead, Hold, Handling
<1>5. CASE ReportWrite(r)
  <2> DEFINE d == req[r].device
             s == req[r].status
  <2>1. d \in Devices /\ s \in Statuses
    BY <1>5, Held DEF ReportWrite
  <2>2. d \in DOMAIN devices => [devices[d] EXCEPT !.status = s] \in DeviceRows
    BY <2>1 DEF DeviceRows
  <2>3. DOMAIN devices' = DOMAIN devices /\ devices' \in [DOMAIN devices' -> DeviceRows]
    BY <1>5, <2>2 DEF ReportWrite, UpdateStatus
  <2>4. said' \in [Devices -> Statuses] /\ muddled' \subseteq Devices
    BY <1>5, <2>1 DEF ReportWrite, StatusWritten
  <2>5. QED
    BY <1>1, <1>5, <2>3, <2>4 DEF ReportWrite, Answer
<1>6. ASSUME NEW d \in Devices, TaskRead(r, d) PROVE TypeOK'
  <2>1. devices[d].agent \in Agents
    BY <1>6 DEF TaskRead, DeviceRows
  <2>2. QED
    BY <1>6, <2>1 DEF TaskRead, Hold, Handling
<1>7. CASE TaskInsert(r)
  <2>1. req[r].device \in Devices /\ req[r].agent \in Agents
    BY <1>7, Held DEF TaskInsert
  <2>2. QED
    BY <1>1, <1>7, <2>1 DEF TaskInsert, Answer
<1>8. CASE ListDevicesStep(r)
  <2>1. [pc |-> "list", found |-> DOMAIN devices] \in Handling
    BY DEF Handling
  <2>2. QED
    BY <1>1, <1>8, <2>1 DEF ListDevicesStep, ListRead, ListAnswer, Hold, Answer
<1>9. QED
  BY <1>2, <1>3, <1>4, <1>5, <1>6, <1>7, <1>8
     DEF UpdateDeviceStep, ReportStep, CreateTaskStep

LEMMA OtherStepTypes ==
  ASSUME TypeOK,
         \/ \E f \in Factories : CreateFactory(f)
         \/ \E d \in Devices :
              \/ DeleteDevice(d) \/ GrantPermission(d) \/ RevokePermission(d)
              \/ \E f \in Factories, a \in Agents : AddDevice(d, f, a)
  PROVE  TypeOK'
<1> USE DEF TypeOK, agentVars, deviceVars
<1>1. ASSUME NEW f \in Factories, CreateFactory(f) PROVE TypeOK'
  BY <1>1 DEF CreateFactory, CreateFactoryRow
<1>2. ASSUME NEW d \in Devices, DeleteDevice(d) PROVE TypeOK'
  BY <1>2 DEF DeleteDevice, DeleteDeviceRow, Drop
<1>3. ASSUME NEW d \in Devices, GrantPermission(d) \/ RevokePermission(d) PROVE TypeOK'
  BY <1>3 DEF GrantPermission, RevokePermission
<1>4. ASSUME NEW d \in Devices, NEW f \in Factories, NEW a \in Agents, AddDevice(d, f, a)
      PROVE  TypeOK'
  <2>1. [factory |-> f, agent |-> a, status |-> Offline] \in DeviceRows
    BY FleetAssumption DEF DeviceRows
  <2>2. /\ DOMAIN devices' = DOMAIN devices \cup {d}
        /\ devices' \in [DOMAIN devices' -> DeviceRows]
    BY <1>4, <2>1, PutFacts DEF AddDevice, CreateDeviceRow
  <2>3. QED
    BY <1>4, <2>2, FleetAssumption DEF AddDevice, CreateDeviceRow
<1>5. QED
  BY <1>1, <1>2, <1>3, <1>4

(* Every variable keeps its type: TypeOK of Fleet.  In particular an       *)
(* update writes back a whole row of the table's types, whatever fields    *)
(* its body has.                                                           *)
THEOREM TypeCorrect == Spec => []TypeOK
<1>1. TypeOK /\ [Next]_vars => TypeOK'
  <2> SUFFICES ASSUME TypeOK, [Next]_vars PROVE TypeOK'
    OBVIOUS
  <2>1. CASE UNCHANGED vars
    BY <2>1 DEF vars, TypeOK, agentVars, deviceVars
  <2>2. QED
    BY <2>1, AgentStepTypes, DeviceStepTypes, OtherStepTypes DEF Next
<1>2. QED
  BY <1>1, InitTypes, PTL DEF Spec

-----------------------------------------------------------------------------
(* A credential request writes back the factory it read, which is still    *)
(* there because factories are only ever added.                            *)
RowsInHandRefer ==
  \A r \in Requests : req[r].pc = "rotate" => req[r].row.factory \in factories
RefInv == RowsInHandRefer /\ ReferencesHold

LEMMA AgentStepRefs ==
  ASSUME TypeOK, RefInv, NEW r \in Requests, RegisterAgentStep(r) \/ CredentialsStep(r)
  PROVE  RefInv'
<1> USE DEF TypeOK, RefInv, RowsInHandRefer, ReferencesHold, ReferencesExist, deviceVars
<1>1. ASSUME NEW a \in Agents, NEW f \in Factories, NEW tok \in Tokens,
             RegisterAgent(r, a, f, tok)
      PROVE  RefInv'
  BY <1>1 DEF RegisterAgent, CreateAgentRow, Put, Hold
<1>2. ASSUME NEW a \in Agents, CredentialsRead(r, a) PROVE RefInv'
  <2>1. \A q \in Requests \ {r} :
          req'[q].pc = "rotate" => req[q].pc = "rotate" /\ req'[q].row = req[q].row
    BY <1>2, Held DEF CredentialsRead, Rotating, Handling, Idle
  <2>2. req'[r].row = agents[a]
    BY <1>2 DEF CredentialsRead
  <2>3. QED
    BY <1>2, <2>1, <2>2 DEF CredentialsRead, agentVars
<1>3. CASE CredentialsWrite(r)
  <2>1. PICK tok \in Tokens :
          UpdateAgentRow(req[r].agent, [req[r].row EXCEPT !.token = tok])
    BY <1>3 DEF CredentialsWrite
  <2>2. req[r].row \in AgentRows /\ req[r].row.factory \in factories
    BY <1>3, Held DEF CredentialsWrite
  <2>3. [req[r].row EXCEPT !.token = tok].factory = req[r].row.factory
    BY <2>2 DEF AgentRows
  <2>4. DOMAIN agents' = DOMAIN agents /\ \A a \in DOMAIN agents : agents'[a].factory \in factories
    BY <2>1, <2>2, <2>3 DEF UpdateAgentRow
  <2>5. \A q \in Requests : req'[q].pc = "rotate" => req'[q] = req[q]
    BY <1>3 DEF CredentialsWrite
  <2>6. QED
    BY <1>3, <2>4, <2>5 DEF CredentialsWrite
<1>4. CASE CredentialsShown(r) \/ CredentialsLost(r)
  BY <1>4 DEF CredentialsShown, CredentialsLost, Answer, Idle
<1>5. QED
  BY <1>1, <1>2, <1>3, <1>4 DEF RegisterAgentStep, CredentialsStep

LEMMA DeviceStepRefs ==
  ASSUME TypeOK, RefInv, NEW r \in Requests,
         UpdateDeviceStep(r) \/ ReportStep(r) \/ CreateTaskStep(r) \/ ListDevicesStep(r)
  PROVE  RefInv'
<1> USE DEF TypeOK, RefInv, RowsInHandRefer, ReferencesHold, ReferencesExist,
        agentVars, deviceVars, Hold, Answer, Idle
<1>1. ASSUME NEW d \in Devices, NEW b \in Patches, UpdateDeviceRead(r, d, b) PROVE RefInv'
  BY <1>1 DEF UpdateDeviceRead
<1>2. CASE UpdateDeviceWrite(r)
  BY <1>2 DEF UpdateDeviceWrite, UpdateDeviceRow
<1>3. ASSUME NEW d \in Devices, NEW s \in Statuses, ReportRead(r, d, s) PROVE RefInv'
  BY <1>3 DEF ReportRead
<1>4. CASE ReportWrite(r)
  <2>1. \A d \in DOMAIN devices : /\ devices'[d].factory = devices[d].factory
                                 /\ devices'[d].agent = devices[d].agent
    BY <1>4 DEF ReportWrite, UpdateStatus, DeviceRows
  <2>2. DOMAIN devices' = DOMAIN devices
    BY <1>4 DEF ReportWrite, UpdateStatus
  <2>3. QED
    BY <1>4, <2>1, <2>2 DEF ReportWrite
<1>5. ASSUME NEW d \in Devices, TaskRead(r, d) PROVE RefInv'
  BY <1>5 DEF TaskRead
<1>6. CASE TaskInsert(r)
  BY <1>6 DEF TaskInsert
<1>7. CASE ListDevicesStep(r)
  BY <1>7 DEF ListDevicesStep, ListRead, ListAnswer
<1>8. QED
  BY <1>1, <1>2, <1>3, <1>4, <1>5, <1>6, <1>7
     DEF UpdateDeviceStep, ReportStep, CreateTaskStep

LEMMA OtherStepRefs ==
  ASSUME TypeOK, RefInv,
         \/ \E f \in Factories : CreateFactory(f)
         \/ \E d \in Devices :
              \/ DeleteDevice(d) \/ GrantPermission(d) \/ RevokePermission(d)
              \/ \E f \in Factories, a \in Agents : AddDevice(d, f, a)
  PROVE  RefInv'
<1> USE DEF TypeOK, RefInv, RowsInHandRefer, ReferencesHold, ReferencesExist,
        agentVars, deviceVars
<1>1. ASSUME NEW f \in Factories, CreateFactory(f) PROVE RefInv'
  BY <1>1 DEF CreateFactory, CreateFactoryRow
<1>2. ASSUME NEW d \in Devices, DeleteDevice(d) PROVE RefInv'
  BY <1>2 DEF DeleteDevice, DeleteDeviceRow, Drop
<1>3. ASSUME NEW d \in Devices, GrantPermission(d) \/ RevokePermission(d) PROVE RefInv'
  BY <1>3 DEF GrantPermission, RevokePermission
<1>4. ASSUME NEW d \in Devices, NEW f \in Factories, NEW a \in Agents, AddDevice(d, f, a)
      PROVE  RefInv'
  BY <1>4 DEF AddDevice, CreateDeviceRow, Put
<1>5. QED
  BY <1>1, <1>2, <1>3, <1>4

(* No row ever names a row that is not there, however the handlers that    *)
(* look rows up and write later interleave with deletions: ReferencesHold. *)
THEOREM ReferencesStay == Spec => []ReferencesHold
<1>1. Init => RefInv
  BY DEF Init, RefInv, RowsInHandRefer, ReferencesHold, Idle
<1>2. TypeOK /\ RefInv /\ [Next]_vars => RefInv'
  <2> SUFFICES ASSUME TypeOK, RefInv, [Next]_vars PROVE RefInv'
    OBVIOUS
  <2>1. CASE UNCHANGED vars
    BY <2>1 DEF vars, RefInv, RowsInHandRefer, ReferencesHold, ReferencesExist,
       agentVars, deviceVars
  <2>2. QED
    BY <2>1, AgentStepRefs, DeviceStepRefs, OtherStepRefs DEF Next
<1>3. QED
  BY <1>1, <1>2, TypeCorrect, PTL DEF Spec, RefInv

-----------------------------------------------------------------------------
(* An update in flight holds the status that was last reported or set, or  *)
(* some write has fallen into it.                                          *)
UpdatesInHand ==
  \A r \in Requests : req[r].pc = "update" =>
    /\ req[r].device \in usedDev
    /\ req[r].device \in DOMAIN devices \ muddled
         => req[r].row.status = said[req[r].device]
StatusInv == UpdatesInHand /\ StatusSettled

LEMMA StatusInvUntouched ==
  ASSUME StatusInv, UNCHANGED deviceVars,
         \A q \in Requests : req'[q].pc = "update" => req'[q] = req[q]
  PROVE  StatusInv'
BY DEF StatusInv, UpdatesInHand, StatusSettled, deviceVars

(* A status write leaves d settled or muddled, and nothing else changed.   *)
LEMMA WrittenStatus ==
  ASSUME TypeOK, StatusInv, NEW r \in Requests, NEW d \in DOMAIN devices, NEW s,
         req[r].pc \in {"update", "report"},
         StatusWritten(r, d, s), Answer(r), UNCHANGED usedDev,
         DOMAIN devices' = DOMAIN devices, devices'[d].status = s,
         \A x \in DOMAIN devices : x # d => devices'[x] = devices[x]
  PROVE  StatusInv'
<1> USE DEF TypeOK
<1>1. said'[d] = s /\ \A x \in Devices : x # d => said'[x] = said[x]
  BY DEF StatusWritten
<1>2. \A x : x # d => (x \in muddled' <=> x \in muddled)
  BY DEF StatusWritten
<1>3. \A q \in Requests : req'[q].pc = "update" => q # r /\ req'[q] = req[q]
  BY DEF Answer, Idle
<1>4. ASSUME NEW q \in Requests, q # r, Updating(q, d) PROVE d \in muddled'
  BY <1>4 DEF StatusWritten
<1>5. UpdatesInHand'
  BY <1>1, <1>2, <1>3, <1>4 DEF StatusInv, UpdatesInHand, Updating
<1>6. StatusSettled'
  BY <1>1, <1>2 DEF StatusInv, StatusSettled
<1>7. QED
  BY <1>5, <1>6 DEF StatusInv

LEMMA UpdateKeepsStatus ==
  ASSUME TypeOK, StatusInv, NEW r \in Requests, UpdateDeviceWrite(r)
  PROVE  StatusInv'
<1> DEFINE d == req[r].device
           new == Patched(req[r].row, req[r].body)
<1> USE DEF TypeOK
<1>1. /\ d \in Devices /\ new \in DeviceRows
      /\ new.status = IF req[r].body.status = Absent THEN req[r].row.status
                      ELSE req[r].body.status
  BY Held, PatchedType DEF UpdateDeviceWrite
<1>2. CASE ~(d \in DOMAIN devices /\ ReferencesExist(new))
  BY <1>2, StatusInvUntouched
     DEF UpdateDeviceWrite, UpdateDeviceRow, Answer, Idle, deviceVars
<1>3. CASE d \in DOMAIN devices /\ ReferencesExist(new)
  <2>1. UpdateDeviceRow(d, new) /\ Answer(r) /\ UNCHANGED usedDev
    BY <1>3 DEF UpdateDeviceWrite
  <2>2. /\ DOMAIN devices' = DOMAIN devices /\ devices'[d] = new
        /\ \A x \in DOMAIN devices : x # d => devices'[x] = devices[x]
    BY <1>3, <2>1 DEF UpdateDeviceRow
  <2>3. CASE req[r].body.status # Absent
    <3>1. StatusWritten(r, d, new.status)
      BY <1>3, <2>3 DEF UpdateDeviceWrite
    <3>2. QED
      BY <1>3, <2>1, <2>2, <3>1, WrittenStatus DEF UpdateDeviceWrite
  <2>4. CASE req[r].body.status = Absent
    <3>1. UNCHANGED <<said, muddled>>
      BY <1>3, <2>4 DEF UpdateDeviceWrite
    <3>2. d \notin muddled => new.status = said[d]
      BY <1>1, <1>3, <2>4 DEF StatusInv, UpdatesInHand, UpdateDeviceWrite
    <3>3. StatusSettled'
      BY <2>2, <3>1, <3>2 DEF StatusInv, StatusSettled
    <3>4. UpdatesInHand'
      BY <2>1, <2>2, <3>1 DEF StatusInv, UpdatesInHand, Answer, Idle
    <3>5. QED
      BY <3>3, <3>4 DEF StatusInv
  <2>5. QED
    BY <2>3, <2>4
<1>4. QED
  BY <1>2, <1>3

LEMMA ReportKeepsStatus ==
  ASSUME TypeOK, StatusInv, NEW r \in Requests, ReportWrite(r)
  PROVE  StatusInv'
<1> DEFINE d == req[r].device
           s == req[r].status
<1>1. req[r].pc = "report" /\ Answer(r) /\ UNCHANGED usedDev
  BY DEF ReportWrite
<1>2. CASE d \in DOMAIN devices
  <2>1. StatusWritten(r, d, s)
    BY <1>2 DEF ReportWrite
  <2>2. /\ DOMAIN devices' = DOMAIN devices /\ devices'[d].status = s
        /\ \A x \in DOMAIN devices : x # d => devices'[x] = devices[x]
    BY <1>2 DEF ReportWrite, UpdateStatus, TypeOK, DeviceRows
  <2>3. QED
    BY <1>1, <1>2, <2>1, <2>2, WrittenStatus
<1>3. CASE d \notin DOMAIN devices
  <2>1. UNCHANGED deviceVars
    BY <1>1, <1>3 DEF ReportWrite, deviceVars
  <2>2. \A q \in Requests : req'[q].pc = "update" => req'[q] = req[q]
    BY <1>1 DEF Answer, Idle, TypeOK
  <2>3. QED
    BY <2>1, <2>2, StatusInvUntouched
<1>4. QED
  BY <1>2, <1>3

LEMMA DeviceStepStatus ==
  ASSUME TypeOK, StatusInv, NEW r \in Requests,
         UpdateDeviceStep(r) \/ ReportStep(r) \/ CreateTaskStep(r) \/ ListDevicesStep(r)
  PROVE  StatusInv'
<1> USE DEF TypeOK, Hold, Answer, Idle
<1>1. ASSUME NEW d \in Devices, NEW b \in Patches, UpdateDeviceRead(r, d, b) PROVE StatusInv'
  BY <1>1 DEF UpdateDeviceRead, StatusInv, UpdatesInHand, StatusSettled, deviceVars
<1>2. ASSUME NEW d \in Devices, NEW s \in Statuses, ReportRead(r, d, s) PROVE StatusInv'
  BY <1>2, StatusInvUntouched DEF ReportRead
<1>3. CASE ReportWrite(r)
  BY <1>3, ReportKeepsStatus
<1>4. CASE CreateTaskStep(r) \/ ListDevicesStep(r)
  BY <1>4, StatusInvUntouched
     DEF CreateTaskStep, TaskRead, TaskInsert, ListDevicesStep, ListRead, ListAnswer
<1>5. QED
  BY <1>1, <1>2, <1>3, <1>4, UpdateKeepsStatus
     DEF UpdateDeviceStep, ReportStep

LEMMA AgentStepStatus ==
  ASSUME TypeOK, StatusInv, NEW r \in Requests, RegisterAgentStep(r) \/ CredentialsStep(r)
  PROVE  StatusInv'
<1>1. UNCHANGED deviceVars
  BY DEF RegisterAgentStep, CredentialsStep, RegisterAgent, CredentialsRead,
     CredentialsWrite, CredentialsShown, CredentialsLost
<1>2. \A q \in Requests : req'[q].pc = "update" => req'[q] = req[q]
  <2> USE DEF TypeOK, Hold, Answer, Idle
  <2>1. ASSUME NEW a \in Agents, CredentialsRead(r, a)
        PROVE  \A q \in Requests : req'[q].pc = "update" => req'[q] = req[q]
    <3>1. ASSUME NEW q \in Requests, Rotating(q, a)
          PROVE  [req[q] EXCEPT !.alone = FALSE].pc = req[q].pc
      BY <3>1 DEF Rotating, Handling
    <3>2. QED
      BY <2>1, <3>1 DEF CredentialsRead, Rotating
  <2>2. ASSUME NEW a \in Agents, NEW f \in Factories, NEW tok \in Tokens,
               RegisterAgent(r, a, f, tok)
        PROVE  \A q \in Requests : req'[q].pc = "update" => req'[q] = req[q]
    BY <2>2 DEF RegisterAgent
  <2>3. ASSUME CredentialsWrite(r) \/ CredentialsShown(r) \/ CredentialsLost(r)
        PROVE  \A q \in Requests : req'[q].pc = "update" => req'[q] = req[q]
    <3>1. CASE CredentialsWrite(r)
      <4>1. PICK tok \in Tokens :
              req' = [req EXCEPT ![r] = [pc |-> "answer", agent |-> req[r].agent,
                                         token |-> tok, alone |-> req[r].alone]]
        BY <3>1 DEF CredentialsWrite
      <4>2. QED
        BY <4>1
    <3>2. QED
      BY <2>3, <3>1 DEF CredentialsShown, CredentialsLost
  <2>4. QED
    BY <2>1, <2>2, <2>3 DEF RegisterAgentStep, CredentialsStep
<1>3. QED
  BY <1>1, <1>2, StatusInvUntouched

LEMMA OtherStepStatus ==
  ASSUME TypeOK, StatusInv,
         \/ \E f \in Factories : CreateFactory(f)
         \/ \E d \in Devices :
              \/ DeleteDevice(d) \/ GrantPermission(d) \/ RevokePermission(d)
              \/ \E f \in Factories, a \in Agents : AddDevice(d, f, a)
  PROVE  StatusInv'
<1> USE DEF TypeOK
<1>1. CASE \/ \E f \in Factories : CreateFactory(f)
           \/ \E d \in Devices : GrantPermission(d) \/ RevokePermission(d)
  BY <1>1, StatusInvUntouched DEF CreateFactory, GrantPermission, RevokePermission
<1>2. ASSUME NEW d \in Devices, DeleteDevice(d) PROVE StatusInv'
  BY <1>2 DEF DeleteDevice, DeleteDeviceRow, Drop, StatusInv, UpdatesInHand, StatusSettled
<1>3. ASSUME NEW d \in Devices, NEW f \in Factories, NEW a \in Agents, AddDevice(d, f, a)
      PROVE  StatusInv'
  <2>1. /\ DOMAIN devices' = DOMAIN devices \cup {d} /\ d \notin usedDev
        /\ devices'[d].status = Offline
        /\ \A x \in DOMAIN devices : devices'[x] = devices[x]
    BY <1>3 DEF AddDevice, CreateDeviceRow, Put
  <2>2. said'[d] = Offline /\ \A x \in Devices : x # d => said'[x] = said[x]
    BY <1>3 DEF AddDevice
  <2>3. UNCHANGED <<req, muddled>> /\ usedDev \subseteq usedDev'
    BY <1>3 DEF AddDevice, CreateDeviceRow
  <2>4. QED
    BY <2>1, <2>2, <2>3 DEF StatusInv, UpdatesInHand, StatusSettled
<1>4. QED
  BY <1>1, <1>2, <1>3

(* A device shows the status last reported or set, except after a write    *)
(* that fell between the read and the write of an update: StatusSettled.   *)
(* The proof has to follow what each update in flight holds.               *)
THEOREM StatusStaysSettled == Spec => []StatusSettled
<1>1. Init => StatusInv
  BY DEF Init, StatusInv, UpdatesInHand, StatusSettled, Idle
<1>2. TypeOK /\ StatusInv /\ [Next]_vars => StatusInv'
  <2> SUFFICES ASSUME TypeOK, StatusInv, [Next]_vars PROVE StatusInv'
    OBVIOUS
  <2>1. CASE UNCHANGED vars
    BY <2>1, StatusInvUntouched DEF vars
  <2>2. QED
    BY <2>1, AgentStepStatus, DeviceStepStatus, OtherStepStatus DEF Next
<1>3. QED
  BY <1>1, <1>2, TypeCorrect, PTL DEF Spec, StatusInv
-----------------------------------------------------------------------------
(* A credential request names an agent that exists; one that is alone is   *)
(* the only one for its agent, and has stored what it is about to show.    *)
AgentsInHand == \A r \in Requests, a \in Agents : Rotating(r, a) => a \in DOMAIN agents
AloneIsAlone ==
  \A r, q \in Requests, a \in Agents :
    Rotating(r, a) /\ Rotating(q, a) /\ req[r].alone => q = r
AnswerIsStored ==
  \A r \in Requests :
    req[r].pc = "answer" /\ req[r].alone => agents[req[r].agent].token = req[r].token
CredInv == AgentsInHand /\ AloneIsAlone /\ AnswerIsStored /\ CredentialWorks

(* Steps that touch no credential request and no agent. *)
LEMMA CredInvUntouched ==
  ASSUME CredInv, UNCHANGED agentVars,
         \A q \in Requests : \/ req'[q] = req[q]
                             \/ /\ req[q].pc \notin {"rotate", "answer"}
                                /\ req'[q].pc \notin {"rotate", "answer"}
  PROVE  CredInv'
<1> USE DEF CredInv, agentVars
<1>1. \A q \in Requests, a \in Agents :
        /\ Rotating(q, a)' => Rotating(q, a) /\ req'[q] = req[q]
        /\ Rotating(q, a) => req'[q] = req[q]
  BY DEF Rotating
<1>2. AgentsInHand' /\ AloneIsAlone'
  BY <1>1 DEF AgentsInHand, AloneIsAlone
<1>3. AnswerIsStored'
  BY DEF AnswerIsStored
<1>4. CredentialWorks'
  BY DEF CredentialWorks, Opens
<1>5. QED
  BY <1>2, <1>3, <1>4

LEMMA RegisterKeepsCredentials ==
  ASSUME TypeOK, CredInv, NEW r \in Requests, NEW a \in Agents, NEW f \in Factories,
         NEW tok \in Tokens, RegisterAgent(r, a, f, tok)
  PROVE  CredInv'
<1> USE DEF CredInv, TypeOK
<1>1. /\ a \notin DOMAIN agents /\ DOMAIN agents' = DOMAIN agents \cup {a}
      /\ agents'[a].token = tok /\ \A x \in DOMAIN agents : agents'[x] = agents[x]
  BY DEF RegisterAgent, CreateAgentRow, Put
<1>2. /\ req'[r] = [pc |-> "answer", agent |-> a, token |-> tok, alone |-> TRUE]
      /\ \A q \in Requests : q # r => req'[q] = req[q]
      /\ req[r].pc = "idle"
  BY DEF RegisterAgent, Hold, Idle
<1>3. \A q \in Requests : ~Rotating(q, a)
  BY <1>1 DEF AgentsInHand
<1>4. \A q \in Requests, x \in Agents :
        Rotating(q, x)' <=> Rotating(q, x) \/ (q = r /\ x = a)
  BY <1>2 DEF Rotating
<1>5. AgentsInHand'
  BY <1>1, <1>4 DEF AgentsInHand
<1>6. AloneIsAlone'
  <2> SUFFICES ASSUME NEW p \in Requests, NEW q \in Requests, NEW x \in Agents,
                      Rotating(p, x)', Rotating(q, x)', req'[p].alone
               PROVE  q = p
    BY DEF AloneIsAlone
  <2>1. CASE x = a
    BY <1>3, <1>4, <2>1
  <2>2. CASE x # a
    <3>1. Rotating(p, x) /\ Rotating(q, x) /\ p # r
      BY <1>3, <1>4, <2>2, <1>2 DEF Rotating
    <3>2. req'[p] = req[p]
      BY <1>2, <3>1
    <3>3. QED
      BY <3>1, <3>2 DEF AloneIsAlone
  <2>3. QED
    BY <2>1, <2>2
<1>7. AnswerIsStored'
  <2>1. ASSUME NEW q \in Requests, q # r, req[q].pc = "answer" PROVE req[q].agent \in DOMAIN agents
    BY <2>1, Held DEF AgentsInHand, Rotating
  <2>2. QED
    BY <1>1, <1>2, <2>1 DEF AnswerIsStored
<1>8. CredentialWorks'
  <2>1. UNCHANGED <<told, unsure>>
    BY DEF RegisterAgent
  <2>2. QED
    BY <1>1, <1>2, <2>1 DEF CredentialWorks, Opens
<1>9. QED
  BY <1>5, <1>6, <1>7, <1>8

LEMMA ReadKeepsCredentials ==
  ASSUME TypeOK, CredInv, NEW r \in Requests, NEW a \in Agents, CredentialsRead(r, a)
  PROVE  CredInv'
<1> DEFINE others == {q \in Requests : Rotating(q, a)}
<1> USE DEF CredInv, TypeOK
<1>1. req[r].pc = "idle" /\ a \in DOMAIN agents /\ UNCHANGED agentVars
  BY DEF CredentialsRead, Idle
<1>2. req'[r].pc = "rotate" /\ req'[r].agent = a
  BY DEF CredentialsRead
<1>3. req'[r].alone => others = {}
  <2>1. req'[r].alone = (others = {})
    BY DEF CredentialsRead
  <2>2. QED
    BY <2>1, Zenon
<1>4. ASSUME NEW q \in Requests \ {r}, q \notin others PROVE req'[q] = req[q]
  BY <1>4 DEF CredentialsRead
<1>5. ASSUME NEW q \in Requests \ {r}, q \in others
      PROVE  /\ req'[q].pc = req[q].pc /\ req'[q].agent = req[q].agent
             /\ req'[q].alone = FALSE
  <2>1. req'[q] = [req[q] EXCEPT !.alone = FALSE]
    BY <1>5 DEF CredentialsRead
  <2>2. "alone" \in DOMAIN req[q]
    BY <1>5 DEF Rotating, Handling, Idle
  <2>3. \A f \in DOMAIN req[q] : req'[q][f] = IF f = "alone" THEN FALSE ELSE req[q][f]
    BY <2>1
  <2>4. {"pc", "agent"} \subseteq DOMAIN req[q]
    BY <1>5 DEF Rotating, Handling, Idle
  <2>5. QED
    BY <2>2, <2>3, <2>4
<1>6. \A q \in Requests, x \in Agents :
        Rotating(q, x)' <=> Rotating(q, x) \/ (q = r /\ x = a)
  BY <1>1, <1>2, <1>4, <1>5 DEF Rotating
<1>7. AgentsInHand'
  BY <1>1, <1>6 DEF AgentsInHand, agentVars
<1>8. AloneIsAlone'
  <2> SUFFICES ASSUME NEW p \in Requests, NEW q \in Requests, NEW x \in Agents,
                      Rotating(p, x)', Rotating(q, x)', req'[p].alone
               PROVE  q = p
    BY DEF AloneIsAlone
  <2>1. CASE p = r
    <3>1. x = a
      BY <1>2, <2>1 DEF Rotating
    <3>2. ~Rotating(q, a)
      BY <1>3, <2>1
    <3>3. QED
      BY <1>6, <2>1, <3>1, <3>2
  <2>2. CASE p # r
    <3>1. Rotating(p, x)
      BY <1>6, <2>2
    <3>2. p \notin others
      BY <1>5, <2>2
    <3>3. x # a /\ req'[p] = req[p]
      BY <1>4, <2>2, <3>1, <3>2
    <3>4. Rotating(q, x)
      BY <1>6, <3>3
    <3>5. QED
      BY <3>1, <3>3, <3>4 DEF AloneIsAlone
  <2>3. QED
    BY <2>1, <2>2
<1>9. AnswerIsStored'
  <2> SUFFICES ASSUME NEW q \in Requests, req'[q].pc = "answer", req'[q].alone
               PROVE  agents'[req'[q].agent].token = req'[q].token
    BY DEF AnswerIsStored
  <2>1. q # r
    BY <1>2
  <2>2. q \notin others
    BY <1>5, <2>1
  <2>3. req'[q] = req[q] /\ UNCHANGED agents
    BY <1>1, <1>4, <2>1, <2>2 DEF agentVars
  <2>4. QED
    BY <2>3 DEF AnswerIsStored
<1>10. CredentialWorks'
  <2>1. \A q \in Requests \ {r} : req'[q].pc = req[q].pc
    BY <1>4, <1>5
  <2>2. \A q \in Requests \ {r} : req'[q].agent = req[q].agent
    BY <1>4, <1>5
  <2>3. \A q \in Requests, x \in Agents :
          req[q].pc = "answer" /\ req[q].agent = x => req'[q].pc = "answer" /\ req'[q].agent = x
    BY <1>1, <2>1, <2>2
  <2>4. QED
    BY <1>1, <2>3 DEF CredentialWorks, Opens, agentVars
<1>11. QED
  BY <1>7, <1>8, <1>9, <1>10

LEMMA WriteKeepsCredentials ==
  ASSUME TypeOK, CredInv, NEW r \in Requests, CredentialsWrite(r)
  PROVE  CredInv'
<1> DEFINE a == req[r].agent
<1> USE DEF CredInv, TypeOK
<1>1. PICK tok \in Tokens :
        /\ UpdateAgentRow(a, [req[r].row EXCEPT !.token = tok])
        /\ req' = [req EXCEPT ![r] = [pc |-> "answer", agent |-> a,
                                      token |-> tok, alone |-> req[r].alone]]
  BY DEF CredentialsWrite
<1>2. req[r].pc = "rotate" /\ UNCHANGED <<told, unsure>>
  BY DEF CredentialsWrite
<1>3. a \in Agents /\ req[r].row \in AgentRows
  BY <1>2, Held
<1>4. a \in DOMAIN agents
  BY <1>2, <1>3 DEF AgentsInHand, Rotating
<1>5. /\ DOMAIN agents' = DOMAIN agents /\ agents'[a].token = tok
      /\ \A x \in DOMAIN agents : x # a => agents'[x] = agents[x]
  BY <1>1, <1>3, <1>4 DEF UpdateAgentRow, AgentRows
<1>6. /\ req'[r].pc = "answer" /\ req'[r].agent = a /\ req'[r].token = tok
      /\ req'[r].alone = req[r].alone
      /\ \A q \in Requests : q # r => req'[q] = req[q]
  BY <1>1
<1>7. \A q \in Requests, x \in Agents : Rotating(q, x)' <=> Rotating(q, x)
  BY <1>2, <1>6 DEF Rotating
<1>8. AgentsInHand' 
  BY <1>5, <1>7 DEF AgentsInHand
<1>9. AloneIsAlone'
  BY <1>6, <1>7 DEF AloneIsAlone
<1>10. AnswerIsStored'
  <2>1. ASSUME NEW q \in Requests, q # r, req[q].pc = "answer", req[q].alone
        PROVE  req[q].agent \in DOMAIN agents /\ req[q].agent # a
    <3>1. req[q].agent \in Agents /\ Rotating(q, req[q].agent) /\ Rotating(r, a)
      BY <1>2, <2>1, Held DEF Rotating
    <3>2. QED
      BY <2>1, <3>1 DEF AgentsInHand, AloneIsAlone
  <2>2. QED
    BY <1>5, <1>6, <2>1 DEF AnswerIsStored
<1>11. CredentialWorks'
  BY <1>2, <1>5, <1>6 DEF CredentialWorks, Opens
<1>12. QED
  BY <1>8, <1>9, <1>10, <1>11

LEMMA AnswerKeepsCredentials ==
  ASSUME TypeOK, CredInv, NEW r \in Requests, CredentialsShown(r) \/ CredentialsLost(r)
  PROVE  CredInv'
<1> DEFINE a == req[r].agent
<1> USE DEF CredInv, TypeOK
<1>1. req[r].pc = "answer" /\ UNCHANGED agents
  BY DEF CredentialsShown, CredentialsLost
<1>2. a \in Agents /\ Rotating(r, a)
  BY <1>1, Held DEF Rotating
<1>3. req'[r].pc = "idle" /\ \A q \in Requests : q # r => req'[q] = req[q]
  BY DEF CredentialsShown, CredentialsLost, Answer, Idle
<1>4. \A q \in Requests, x \in Agents : Rotating(q, x)' <=> Rotating(q, x) /\ q # r
  BY <1>3 DEF Rotating
<1>5. AgentsInHand' /\ AnswerIsStored'
  BY <1>1, <1>3, <1>4 DEF AgentsInHand, AnswerIsStored
<1>6. AloneIsAlone'
  BY <1>3, <1>4 DEF AloneIsAlone
<1>7. /\ \A x \in Agents : x # a => told'[x] = told[x] /\ (x \in unsure' <=> x \in unsure)
      /\ a \notin unsure' => req[r].alone /\ told'[a] = req[r].token
  BY <1>2 DEF CredentialsShown, CredentialsLost
<1>8. CredentialWorks'
  <2> SUFFICES ASSUME NEW x \in DOMAIN agents' \ unsure',
                      \A q \in Requests : ~(req'[q].pc = "answer" /\ req'[q].agent = x)
               PROVE  agents'[x].token = told'[x]
    BY DEF CredentialWorks, Opens
  <2>1. CASE x = a
    BY <1>1, <1>7, <2>1 DEF AnswerIsStored
  <2>2. CASE x # a
    <3>1. \A q \in Requests : ~(req[q].pc = "answer" /\ req[q].agent = x)
      BY <1>3, <2>2
    <3>2. QED
      BY <1>1, <1>7, <2>2, <3>1 DEF CredentialWorks, Opens
  <2>3. QED
    BY <2>1, <2>2
<1>9. QED
  BY <1>5, <1>6, <1>8

LEMMA OtherRequestsCredentials ==
  ASSUME TypeOK, CredInv, NEW r \in Requests,
         UpdateDeviceStep(r) \/ ReportStep(r) \/ CreateTaskStep(r) \/ ListDevicesStep(r)
  PROVE  CredInv'
<1>1. UNCHANGED agentVars
  BY DEF UpdateDeviceStep, ReportStep, CreateTaskStep, ListDevicesStep, UpdateDeviceRead,
     UpdateDeviceWrite, ReportRead, ReportWrite, TaskRead, TaskInsert, ListRead, ListAnswer
<1>2. /\ req[r].pc \notin {"rotate", "answer"} /\ req'[r].pc \notin {"rotate", "answer"}
      /\ \A q \in Requests : q # r => req'[q] = req[q]
  <2> USE DEF TypeOK, Hold, Answer, Idle
  <2>1. CASE UpdateDeviceStep(r)
    BY <2>1 DEF UpdateDeviceStep, UpdateDeviceRead, UpdateDeviceWrite
  <2>2. CASE ReportStep(r)
    BY <2>2 DEF ReportStep, ReportRead, ReportWrite
  <2>3. CASE CreateTaskStep(r)
    BY <2>3 DEF CreateTaskStep, TaskRead, TaskInsert
  <2>4. CASE ListDevicesStep(r)
    BY <2>4 DEF ListDevicesStep, ListRead, ListAnswer
  <2>5. QED
    BY <2>1, <2>2, <2>3, <2>4
<1>3. QED
  BY <1>1, <1>2, CredInvUntouched

(* The credential last shown for an agent opens its connection, unless     *)
(* requests for it overlapped or an answer was lost: CredentialWorks.      *)
THEOREM ShownCredentialsWork == Spec => []CredentialWorks
<1>1. Init => CredInv
  BY DEF Init, CredInv, AgentsInHand, AloneIsAlone, AnswerIsStored, CredentialWorks,
     Rotating, Idle
<1>2. TypeOK /\ CredInv /\ [Next]_vars => CredInv'
  <2> SUFFICES ASSUME TypeOK, CredInv, [Next]_vars PROVE CredInv'
    OBVIOUS
  <2>1. CASE UNCHANGED vars
    BY <2>1, CredInvUntouched DEF vars
  <2>2. ASSUME NEW r \in Requests, RegisterAgentStep(r) \/ CredentialsStep(r) PROVE CredInv'
    BY <2>2, RegisterKeepsCredentials, ReadKeepsCredentials, WriteKeepsCredentials,
       AnswerKeepsCredentials DEF RegisterAgentStep, CredentialsStep
  <2>3. ASSUME \/ \E f \in Factories : CreateFactory(f)
               \/ \E d \in Devices :
                    \/ DeleteDevice(d) \/ GrantPermission(d) \/ RevokePermission(d)
                    \/ \E f \in Factories, a \in Agents : AddDevice(d, f, a)
        PROVE  CredInv'
    BY <2>3, CredInvUntouched
       DEF CreateFactory, DeleteDevice, GrantPermission, RevokePermission, AddDevice
  <2>4. QED
    BY <2>1, <2>2, <2>3, OtherRequestsCredentials DEF Next
<1>3. QED
  BY <1>1, <1>2, TypeCorrect, PTL DEF Spec, CredInv

-----------------------------------------------------------------------------
(* Credentials over time.  Requests that overlap can hide from an          *)
(* administrator which credential is in force, but each of them stores a   *)
(* new one, so none of them brings an old one back.                        *)
OneAgentEach ==
  \A a, b \in DOMAIN agents : agents[a].token = agents[b].token => a = b
TokenInv == OneAgentEach /\ \A a \in DOMAIN agents : agents[a].token \in usedTok

(* A step of the table of agents gives one agent a credential that has     *)
(* never been generated before; every other step leaves credentials alone. *)
Issued ==
  \E a \in Agents, tok \in Tokens :
    /\ tok \notin usedTok /\ usedTok' = usedTok \cup {tok}
    /\ DOMAIN agents \subseteq DOMAIN agents' /\ DOMAIN agents' \subseteq DOMAIN agents \cup {a}
    /\ \A x \in DOMAIN agents' :
         IF x = a THEN agents'[x].token = tok ELSE agents'[x] = agents[x]

LEMMA CredentialsChange ==
  TypeOK /\ [Next]_vars => Issued \/ UNCHANGED <<agents, usedTok>>
<1> SUFFICES ASSUME TypeOK, [Next]_vars PROVE Issued \/ UNCHANGED <<agents, usedTok>>
  OBVIOUS
<1>1. ASSUME NEW r \in Requests, NEW a \in Agents, NEW f \in Factories, NEW tok \in Tokens,
             RegisterAgent(r, a, f, tok)
      PROVE  Issued
  <2>1. tok \notin usedTok /\ usedTok' = usedTok \cup {tok}
    BY <1>1 DEF RegisterAgent, Fresh
  <2>2. DOMAIN agents' = DOMAIN agents \cup {a}
    BY <1>1 DEF RegisterAgent, CreateAgentRow, Put
  <2>3. \A x \in DOMAIN agents' :
          IF x = a THEN agents'[x].token = tok ELSE agents'[x] = agents[x]
    BY <1>1 DEF RegisterAgent, CreateAgentRow, Put
  <2>4. QED
    BY <2>1, <2>2, <2>3 DEF Issued
<1>2. ASSUME NEW r \in Requests, CredentialsWrite(r) PROVE Issued
  <2>1. PICK tok \in Tokens :
          Fresh(tok) /\ UpdateAgentRow(req[r].agent, [req[r].row EXCEPT !.token = tok])
    BY <1>2 DEF CredentialsWrite
  <2>2. req[r].agent \in Agents /\ req[r].row \in AgentRows
    BY <1>2, Held DEF CredentialsWrite, TypeOK
  <2>3. [req[r].row EXCEPT !.token = tok].token = tok
    BY <2>2 DEF AgentRows
  <2>4. DOMAIN agents' = DOMAIN agents
    BY <2>1 DEF UpdateAgentRow
  <2>5. \A x \in DOMAIN agents' :
          IF x = req[r].agent THEN agents'[x].token = tok ELSE agents'[x] = agents[x]
    BY <2>1, <2>3 DEF UpdateAgentRow
  <2>6. QED
    BY <2>1, <2>2, <2>4, <2>5 DEF Issued, Fresh
<1>3. ASSUME NEW r \in Requests,
             \/ CredentialsShown(r) \/ CredentialsLost(r)
             \/ \E a \in Agents : CredentialsRead(r, a)
      PROVE  UNCHANGED <<agents, usedTok>>
  BY <1>3 DEF CredentialsShown, CredentialsLost, CredentialsRead, agentVars
<1>4. ASSUME NEW r \in Requests,
             UpdateDeviceStep(r) \/ ReportStep(r) \/ CreateTaskStep(r) \/ ListDevicesStep(r)
      PROVE  UNCHANGED <<agents, usedTok>>
  BY <1>4 DEF UpdateDeviceStep, ReportStep, CreateTaskStep, ListDevicesStep, UpdateDeviceRead,
     UpdateDeviceWrite, ReportRead, ReportWrite, TaskRead, TaskInsert, ListRead, ListAnswer,
     agentVars
<1>5. ASSUME \/ \E f \in Factories : CreateFactory(f)
             \/ \E d \in Devices :
                  \/ DeleteDevice(d) \/ GrantPermission(d) \/ RevokePermission(d)
                  \/ \E f \in Factories, a \in Agents : AddDevice(d, f, a)
      PROVE  UNCHANGED <<agents, usedTok>>
  BY <1>5 DEF CreateFactory, DeleteDevice, GrantPermission, RevokePermission, AddDevice,
     agentVars
<1>6. CASE UNCHANGED vars
  BY <1>6 DEF vars, agentVars
<1>7. QED
  BY <1>1, <1>2, <1>3, <1>4, <1>5, <1>6 DEF Next, RegisterAgentStep, CredentialsStep

LEMMA TokenStep == TypeOK /\ TokenInv /\ [Next]_vars => TokenInv'
<1> SUFFICES ASSUME TypeOK, TokenInv, Issued PROVE TokenInv'
  BY CredentialsChange DEF TokenInv, OneAgentEach
<1>1. PICK a \in Agents, tok \in Tokens :
        /\ tok \notin usedTok /\ usedTok' = usedTok \cup {tok}
        /\ DOMAIN agents' \subseteq DOMAIN agents \cup {a}
        /\ \A x \in DOMAIN agents' :
             IF x = a THEN agents'[x].token = tok ELSE agents'[x] = agents[x]
  BY DEF Issued
<1>2. \A x \in DOMAIN agents' :
        IF x = a THEN agents'[x].token = tok
                 ELSE agents'[x].token = agents[x].token /\ agents'[x].token # tok
  BY <1>1 DEF TokenInv
<1>3. QED
  BY <1>1, <1>2 DEF TokenInv, OneAgentEach

LEMMA TokensInvariant == Spec => []TokenInv
<1>1. Init => TokenInv
  BY DEF Init, TokenInv, OneAgentEach
<1>2. QED
  BY <1>1, TokenStep, TypeCorrect, PTL DEF Spec

(* A credential opens the connection of one agent only: HandleAgentWS      *)
(* cannot take one agent for another, however registrations and credential *)
(* requests interleave.                                                    *)
THEOREM CredentialsIdentify ==
  Spec => [](\A tok \in Tokens, a, b \in Agents : Opens(a, tok) /\ Opens(b, tok) => a = b)
<1>1. TokenInv => \A tok \in Tokens, a, b \in Agents : Opens(a, tok) /\ Opens(b, tok) => a = b
  BY DEF TokenInv, OneAgentEach, Opens
<1>2. QED
  BY <1>1, TokensInvariant, PTL

(* A credential that has been replaced never opens the agent again: a      *)
(* GetAgentCredentials that read the row before another one changed it     *)
(* does not write the older credential back.                               *)
THEOREM RevokedStaysRevoked ==
  Spec => [][\A a \in Agents, tok \in usedTok : Opens(a, tok)' => Opens(a, tok)]_vars
<1>1. TypeOK /\ [Next]_vars
        => [\A a \in Agents, tok \in usedTok : Opens(a, tok)' => Opens(a, tok)]_vars
  <2> SUFFICES ASSUME TypeOK, [Next]_vars, NEW a \in Agents, NEW tok \in usedTok,
                      a \in DOMAIN agents', agents'[a].token = tok
               PROVE  a \in DOMAIN agents /\ agents[a].token = tok
    BY DEF Opens
  <2>1. CASE UNCHANGED <<agents, usedTok>>
    BY <2>1
  <2>2. CASE Issued
    BY <2>2 DEF Issued
  <2>3. QED
    BY <2>1, <2>2, CredentialsChange
<1>2. QED
  BY <1>1, TypeCorrect, PTL DEF Spec
=============================================================================
