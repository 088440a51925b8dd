-------------------------------- MODULE Fleet --------------------------------
(***************************************************************************)
(* Factories, agents and devices: the rows the admin API and the agents'   *)
(* status reports write, the credentials agents dial with, and the foreign *)
(* keys between the tables.                                                *)
(*                                                                         *)
(* Handlers that read a row and write it back later (UpdateDevice,         *)
(* GetAgentCredentials), that read before they write (HandleDeviceStatus,  *)
(* CreateTask) or that combine two queries (ListDevices) are two actions,  *)
(* one per SQL statement.  Column agents.online belongs to AgentRegistry.  *)
(* No handler deletes a factory or an agent.                               *)
(***************************************************************************)
EXTENDS FiniteSets

CONSTANTS
  Requests,    \* handler goroutines in flight at a time
  Factories, Agents, Devices,   \* ids uuid.NewString can return
  Tokens,      \* values CredentialManager.Generate can return
  Statuses,    \* values of devices.status
  Patches      \* bodies of PUT /api/v1/admin/devices/{id}

Absent == ""           \* a field the body does not have
Offline == "OFFLINE"
DeviceRows == [factory : Factories, agent : Agents, status : Statuses]
AgentRows == [factory : Factories, token : Tokens]
Bodies == [factory : Factories \cup {Absent}, agent : Agents \cup {Absent},
           status : Statuses \cup {Absent}]

ASSUME FleetAssumption ==
  /\ Patches \subseteq Bodies
  /\ Absent \notin Factories \cup Agents \cup Statuses
  /\ Offline \in Statuses

VARIABLES
  factories,   \* ids in table factories
  agents,      \* table agents: id -> factory and device_token_enc
  devices,     \* table devices: id -> row
  perms,       \* device ids one user's rows of user_permissions name
  tasks,       \* <<device, agent>> pairs rows of table tasks name
  usedDev,     \* device ids the table has ever held
  usedTok,     \* credentials that have been generated
  req,         \* request -> what its handler holds between two steps
  told,        \* agent -> the credential last shown to an administrator
  unsure,      \* history: agents whose last credential requests overlapped,
               \* or whose last answer was lost
  said,        \* history: device -> the status last reported or set
  muddled      \* history: devices whose last status write fell between the
               \* read and the write of somebody's UpdateDevice

agentVars == <<agents, usedTok, told, unsure>>
deviceVars == <<devices, usedDev, said, muddled>>
vars == <<factories, agentVars, deviceVars, perms, tasks, req>>

Idle == [pc |-> "idle"]
Handling ==
  {Idle}
    \cup [pc : {"rotate"}, agent : Agents, row : AgentRows, alone : BOOLEAN]
    \cup [pc : {"answer"}, agent : Agents, token : Tokens, alone : BOOLEAN]
    \cup [pc : {"update"}, device : Devices, row : DeviceRows, body : Patches]
    \cup [pc : {"report"}, device : Devices, status : Statuses]
    \cup [pc : {"task"}, device : Devices, agent : Agents]
    \cup [pc : {"list"}, found : SUBSET Devices]

Init ==
  /\ factories = {} /\ perms = {} /\ tasks = {}
  /\ agents = [a \in {} |-> Absent] /\ usedTok = {}
  /\ devices = [d \in {} |-> Absent] /\ usedDev = {}
  /\ req = [r \in Requests |-> Idle]
  /\ told \in [Agents -> Tokens] /\ unsure = Agents
  /\ said = [d \in Devices |-> Offline] /\ muddled = {}
-----------------------------------------------------------------------------
Put(f, k, v) == [x \in DOMAIN f \cup {k} |-> IF x = k THEN v ELSE f[x]]
Drop(f, k) == [x \in DOMAIN f \ {k} |-> f[x]]

Answer(r) == req' = [req EXCEPT ![r] = Idle]
Hold(r, h) == req[r] = Idle /\ req' = [req EXCEPT ![r] = h]
Rotating(q, a) == req[q].pc \in {"rotate", "answer"} /\ req[q].agent = a
Updating(q, d) == req[q].pc = "update" /\ req[q].device = d

(* Both foreign keys of a row of table devices. *)
ReferencesExist(row) == row.factory \in factories /\ row.agent \in DOMAIN agents

(* The status of d is written; who else is between reading and writing it? *)
StatusWritten(r, d, s) ==
  /\ said' = [said EXCEPT ![d] = s]
  /\ muddled' = IF \E q \in Requests \ {r} : Updating(q, d)
                  THEN muddled \cup {d} ELSE muddled \ {d}
-----------------------------------------------------------------------------
(* FactoryRepo.Create under a fresh id. *)
CreateFactoryRow(f) ==
  /\ f \notin factories
  /\ factories' = factories \cup {f}

(* CreateFactory. *)
CreateFactory(f) ==
  /\ CreateFactoryRow(f)
  /\ UNCHANGED <<agentVars, deviceVars, perms, tasks, req>>

(* GenerateAgentToken: 32 random bytes; the row keeps their seal.  *)
Fresh(tok) == tok \notin usedTok /\ usedTok' = usedTok \cup {tok}

(* AgentRepo.Create, with the foreign key to factories. *)
CreateAgentRow(a, row) ==
  /\ a \notin DOMAIN agents /\ row.factory \in factories
  /\ agents' = Put(agents, a, row)

(* RegisterAgent stores a credential and then shows it. *)
RegisterAgent(r, a, f, tok) ==
  /\ Fresh(tok)
  /\ CreateAgentRow(a, [factory |-> f, token |-> tok])
  /\ Hold(r, [pc |-> "answer", agent |-> a, token |-> tok, alone |-> TRUE])
  /\ UNCHANGED <<factories, told, unsure, deviceVars, perms, tasks>>

(* GetAgentCredentials reads the row.  If other requests for this agent    *)
(* are in flight, none of them is alone any more.                          *)
CredentialsRead(r, a) ==
  LET others == {q \in Requests : Rotating(q, a)} IN
  /\ req[r] = Idle /\ a \in DOMAIN agents
  /\ req' = [q \in Requests |->
       IF q = r THEN [pc |-> "rotate", agent |-> a, row |-> agents[a],
                      alone |-> others = {}]
       ELSE IF q \in others THEN [req[q] EXCEPT !.alone = FALSE] ELSE req[q]]
  /\ UNCHANGED <<factories, agentVars, deviceVars, perms, tasks>>

(* AgentRepo.Update: every column, WHERE agent_id = ?. *)
UpdateAgentRow(a, row) ==
  agents' = IF a \in DOMAIN agents THEN [agents EXCEPT ![a] = row] ELSE agents

(* Mutant: the row that was read is written back with its old credential. *)
CredentialsWriteOld(r) ==
  LET h == req[r] IN
  /\ h.pc = "rotate"
  /\ \E tok \in Tokens :
       /\ Fresh(tok)
       /\ UpdateAgentRow(h.agent, h.row)
       /\ req' = [req EXCEPT ![r] = [pc |-> "answer", agent |-> h.agent,
                                     token |-> tok, alone |-> h.alone]]
  /\ UNCHANGED <<factories, told, unsure, deviceVars, perms, tasks>>

(* A GET that changes what it reads: the row gets a new credential.  *)
CredentialsWrite(r) ==
  LET h == req[r] IN
  /\ h.pc = "rotate"
  /\ \E tok \in Tokens :
       /\ Fresh(tok)
       /\ UpdateAgentRow(h.agent, [h.row EXCEPT !.token = tok])
       /\ req' = [req EXCEPT ![r] = [pc |-> "answer", agent |-> h.agent,
                                     token |-> tok, alone |-> h.alone]]
  /\ UNCHANGED <<factories, told, unsure, deviceVars, perms, tasks>>

(* The response of either handler reaches the administrator ... *)
CredentialsShown(r) ==
  LET h == req[r] IN
  /\ h.pc = "answer"
  /\ told' = [told EXCEPT ![h.agent] = h.token]
  /\ unsure' = IF h.alone THEN unsure \ {h.agent} ELSE unsure \cup {h.agent}
  /\ Answer(r)
  /\ UNCHANGED <<factories, agents, usedTok, deviceVars, perms, tasks>>

(* ... or is lost with the connection, after the row was changed. *)
CredentialsLost(r) ==
  /\ req[r].pc = "answer"
  /\ unsure' = unsure \cup {req[r].agent}
  /\ Answer(r)
  /\ UNCHANGED <<factories, agents, usedTok, told, deviceVars, perms, tasks>>

(* ValidateAgentToken: the seal of the presented token is the stored one.  *)
Opens(a, tok) == a \in DOMAIN agents /\ agents[a].token = tok
-----------------------------------------------------------------------------
(* DeviceRepo.Create: a bad or missing factory_id or agent_id is an error. *)
CreateDeviceRow(d, row) ==
  /\ d \notin usedDev /\ ReferencesExist(row)
  /\ devices' = Put(devices, d, row)
  /\ usedDev' = usedDev \cup {d}

(* AddDevice: a device starts OFFLINE. *)
AddDevice(d, f, a) ==
  /\ CreateDeviceRow(d, [factory |-> f, agent |-> a, status |-> Offline])
  /\ said' = [said EXCEPT ![d] = Offline]
  /\ UNCHANGED <<muddled, factories, agentVars, perms, tasks, req>>

(* UpdateDevice reads the whole row ... *)
UpdateDeviceRead(r, d, b) ==
  /\ d \in DOMAIN devices
  /\ Hold(r, [pc |-> "update", device |-> d, row |-> devices[d], body |-> b])
  /\ UNCHANGED <<factories, agentVars, deviceVars, perms, tasks>>

(* Mutant: an absent status is taken as the empty string. *)
PatchedStatusCleared(row, b) ==
  [f \in DOMAIN row |-> IF b[f] = Absent /\ f # "status" THEN row[f] ELSE b[f]]

(* ... replaces the fields the body has ... *)
Patched(row, b) == [f \in DOMAIN row |-> IF b[f] = Absent THEN row[f] ELSE b[f]]

(* DeviceRepo.Update: every column, WHERE device_id = ?; it fails on a     *)
(* factory or agent that does not exist.                                   *)
UpdateDeviceRow(d, row) ==
  d \in DOMAIN devices /\ ReferencesExist(row) /\ devices' = [devices EXCEPT ![d] = row]

(* ... and writes the row back, over whatever was written meanwhile. *)
UpdateDeviceWrite(r) ==
  LET h == req[r]  new == Patched(h.row, h.body) IN
  /\ h.pc = "update"
  /\ \/ /\ UpdateDeviceRow(h.device, new)
        /\ IF h.body.status # Absent
             THEN StatusWritten(r, h.device, new.status)
             ELSE UNCHANGED <<said, muddled>>
     \/ /\ ~(h.device \in DOMAIN devices /\ ReferencesExist(new))
        /\ UNCHANGED <<devices, said, muddled>>
  /\ Answer(r)
  /\ UNCHANGED <<factories, agentVars, usedDev, perms, tasks>>

(* Mutant: foreign keys are not enforced on this connection of the pool. *)
DeleteDeviceNoFK(d) ==
  /\ d \in DOMAIN devices
  /\ devices' = Drop(devices, d) /\ muddled' = muddled \ {d}
  /\ UNCHANGED <<usedDev, said, factories, agentVars, perms, tasks, req>>

(* DeviceRepo.Delete: refused while tasks or permissions name the device.  *)
DeleteDeviceRow(d) ==
  /\ d \in DOMAIN devices /\ d \notin perms /\ \A t \in tasks : t[1] # d
  /\ devices' = Drop(devices, d)

(* DeleteDevice. *)
DeleteDevice(d) ==
  /\ DeleteDeviceRow(d)
  /\ muddled' = muddled \ {d}
  /\ UNCHANGED <<usedDev, said, factories, agentVars, perms, tasks, req>>
-----------------------------------------------------------------------------
(* HandleDeviceStatus, on a message from any agent: the device is looked   *)
(* up (another agent's device only draws a warning) ...                    *)
ReportRead(r, d, s) ==
  /\ d \in DOMAIN devices
  /\ Hold(r, [pc |-> "report", device |-> d, status |-> s])
  /\ UNCHANGED <<factories, agentVars, deviceVars, perms, tasks>>

(* Mutant: the report is only logged, as in the nested tree, whose hub has *)
(* no device manager (cloud-print-server/internal/wsshub/reader.go:102).   *)
ReportIsLogged(r) ==
  /\ req[r].pc = "report"
  /\ StatusWritten(r, req[r].device, req[r].status)
  /\ Answer(r)
  /\ UNCHANGED <<factories, agentVars, devices, usedDev, perms, tasks>>

(* DeviceRepo.UpdateStatus writes the status columns alone. *)
UpdateStatus(d, s) == devices' = [devices EXCEPT ![d].status = s]

(* ... and its status is written, if it is still there. *)
ReportWrite(r) ==
  LET h == req[r] IN
  /\ h.pc = "report"
  /\ IF h.device \in DOMAIN devices
       THEN /\ UpdateStatus(h.device, h.status)
            /\ StatusWritten(r, h.device, h.status)
       ELSE UNCHANGED <<devices, said, muddled>>
  /\ Answer(r)
  /\ UNCHANGED <<factories, agentVars, usedDev, perms, tasks>>

(* CreateTask looks the device up for its agent ... *)
TaskRead(r, d) ==
  /\ d \in DOMAIN devices
  /\ Hold(r, [pc |-> "task", device |-> d, agent |-> devices[d].agent])
  /\ UNCHANGED <<factories, agentVars, deviceVars, perms, tasks>>

(* ... and inserts a row that names both: an error if the device is gone.  *)
TaskInsert(r) ==
  LET h == req[r] IN
  /\ h.pc = "task"
  /\ tasks' = IF h.device \in DOMAIN devices /\ h.agent \in DOMAIN agents
                THEN tasks \cup {<<h.device, h.agent>>} ELSE tasks
  /\ Answer(r)
  /\ UNCHANGED <<factories, agentVars, deviceVars, perms>>

(* UserRepo.GrantPermission: INSERT OR IGNORE, which does not ignore a     *)
(* foreign key.  Only operators and tests grant and revoke.                *)
GrantPermission(d) ==
  /\ d \in DOMAIN devices
  /\ perms' = perms \cup {d}
  /\ UNCHANGED <<factories, agentVars, deviceVars, tasks, req>>

(* UserRepo.RevokePermission. *)
RevokePermission(d) ==
  /\ perms' = perms \ {d}
  /\ UNCHANGED <<factories, agentVars, deviceVars, tasks, req>>

(* Manager.ListDevices for that user: all devices are read ... *)
ListRead(r) ==
  /\ Hold(r, [pc |-> "list", found |-> DOMAIN devices])
  /\ UNCHANGED <<factories, agentVars, deviceVars, perms, tasks>>

(* ... and filtered by the permissions a second query returns. *)
Listed(r) == {d \in req[r].found : d \in perms}

ListAnswer(r) ==
  /\ req[r].pc = "list"
  /\ Answer(r)
  /\ UNCHANGED <<factories, agentVars, deviceVars, perms, tasks>>

-----------------------------------------------------------------------------
(* The handlers that take more than one step. *)
RegisterAgentStep(r) ==
  \/ \E a \in Agents, f \in Factories, tok \in Tokens : RegisterAgent(r, a, f, tok)
  \/ CredentialsShown(r) \/ CredentialsLost(r)
CredentialsStep(r) ==
  \/ \E a \in Agents : CredentialsRead(r, a)
  \/ CredentialsWrite(r) \/ CredentialsShown(r) \/ CredentialsLost(r)
UpdateDeviceStep(r) ==
  \/ \E d \in Devices, b \in Patches : UpdateDeviceRead(r, d, b)
  \/ UpdateDeviceWrite(r)
ReportStep(r) ==
  \/ \E d \in Devices, s \in Statuses : ReportRead(r, d, s)
  \/ ReportWrite(r)
CreateTaskStep(r) == TaskInsert(r) \/ \E d \in Devices : TaskRead(r, d)
ListDevicesStep(r) == ListRead(r) \/ ListAnswer(r)

Next ==
  \/ \E r \in Requests :
       \/ RegisterAgentStep(r) \/ CredentialsStep(r) \/ UpdateDeviceStep(r)
       \/ ReportStep(r) \/ CreateTaskStep(r) \/ ListDevicesStep(r)
  \/ \E f \in Factories : CreateFactory(f)
  \/ \E d \in Devices :
       \/ DeleteDevice(d) \/ GrantPermission(d) \/ RevokePermission(d)
       \/ \E f \in Factories, a \in Agents : AddDevice(d, f, a)

Spec == Init /\ [][Next]_vars
-----------------------------------------------------------------------------
(* Types of the variables; the history variables included. *)
TypeOK ==
  /\ factories \subseteq Factories /\ perms \subseteq Devices
  /\ tasks \subseteq Devices \X Agents
  /\ DOMAIN agents \subseteq Agents /\ agents \in [DOMAIN agents -> AgentRows]
  /\ DOMAIN devices \subseteq usedDev /\ devices \in [DOMAIN devices -> DeviceRows]
  /\ usedDev \subseteq Devices /\ usedTok \subseteq Tokens
  /\ req \in [Requests -> Handling]
  /\ told \in [Agents -> Tokens] /\ unsure \subseteq Agents
  /\ said \in [Devices -> Statuses] /\ muddled \subseteq Devices

(* Every row names rows that exist, although devices are deleted between   *)
(* the look-up and the insert of a task, or between a grant and a listing, *)
(* and rows read earlier are written back later.                           *)
ReferencesHold ==
  /\ \A a \in DOMAIN agents : agents[a].factory \in factories
  /\ \A d \in DOMAIN devices : ReferencesExist(devices[d])
  /\ \A t \in tasks : t[1] \in DOMAIN devices /\ t[2] \in DOMAIN agents
  /\ perms \subseteq DOMAIN devices

(* A device's status is the one last reported or set, unless that write    *)
(* fell inside somebody's UpdateDevice, which then puts the older status   *)
(* back; the next report outside of one repairs it.                        *)
StatusSettled ==
  \A d \in DOMAIN devices \ muddled : devices[d].status = said[d]

(* The credential an administrator was last shown is the one the agent can *)
(* dial with, unless credential requests for the agent overlapped or an    *)
(* answer was lost; one undisturbed request repairs it.                    *)
CredentialWorks ==
  \A a \in DOMAIN agents \ unsure :
    (\A r \in Requests : ~(req[r].pc = "answer" /\ req[r].agent = a))
      => Opens(a, told[a])
=============================================================================
