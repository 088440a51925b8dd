# TLA+ models of the cloud print server

The cloud print server lets users of a web API print on devices that sit behind
*agents* in factories.  An agent keeps one WebSocket to the server; the server
keeps tasks, devices, users and documents in SQLite and pushes task statuses to
browsers as server-sent events.  This directory holds TLA+ models of the parts of
the server where several goroutines, a network and a database meet, the TLC
configurations that check them, and TLAPS proofs.  Paths below are relative to
the repository.

**Two source trees.**  The repository holds the server twice: at the root
(`internal/`) and, nearly the same, under `cloud-print-server/`.  The root tree is
the reference.  The files that differ are `auth/middleware.go` (the copy takes a
token from a cookie as well), `taskmanager.go` and `domain/{domain,envelope}.go`
(the copy embeds a document's content in a dispatched task), `wsshub/{hub,reader,
writer}.go` (the copy's hub has no device manager), `lifecycle/{app,systemd}.go`
and `webui`.  Everything else that is modelled is the same text in both, so one
definition stands for both places.  The map names the root's lines; where several
definitions model the same lines of the root, or a definition groups the steps of
a handler that are mapped one by one, it may name the identical lines of the copy,
so that both trees appear in it.  The death of a process is no line of either; it is
marked external.
What differs is mapped to the tree it was read from: `WebSession` has both forms.

## Inventory

| Component | State | Operations | Hard behaviour | What makes it correct |
|---|---|---|---|---|
| Agent registry (`agentmanager`, `wsshub/heartbeat.go`) | map agent_id -> connection; `agents.online` | Register, Unregister, UpdateHeartbeat, checkHeartbeats | an agent redials while its old handler still runs; database writes after the unlock; half-open sockets | one current connection; every entry has somebody who removes it; displaced ones are closed; the flag tells the truth |
| WebSocket hub (`wsshub`) | per connection a `sendCh` of 64, a `closeCh`, two goroutines | HandleAgentWS, readLoop, writeLoop, SendToAgent | queue lost at close; full queue; goroutine leaks | goroutines end; a send never blocks |
| Task manager (`taskmanager`, `storage/task_repo.go`) | rows of `tasks` | CreateTask, DispatchTask, CancelTask, HandleAck, HandleResult | check-then-write on rows; two-statement updates; late answers; failing writes | status machine; printed at most once; result stored; user told the truth |
| Event streams (`restapi/sse.go`) | map user -> set of subscribers, a channel of 32 each | Subscribe, Unsubscribe, Publish, ServeSSE | map walked after the unlock; closed channels; slow clients | open streams reachable, ordered, complete; Publish returns |
| REST handlers (`restapi/handlers.go`) | none | login, registration, upload, create/cancel/list tasks, stream, download | CreateTask discards the dispatch error; upload spans a file and a row | a created task is dispatched; a row has its file |
| Document store (`docstore`, `document_repo.go`) | `<id>.bin` files, rows of `documents` | Save, Load, Delete, CalcChecksum | crash between rename and insert; clean-up never called | row implies whole file |
| Admin handlers (`adminapi`) | rows of users, factories, agents, devices | CRUD, credentials, config push | read-modify-write of whole rows by several administrators; a GET that writes | acknowledged changes kept; shown credentials work; references hold |
| Device manager (`devicemanager`) | rows of `devices` | HandleDeviceStatus, ListDevices, CRUD | status report inside an UpdateDevice; deletion under a task | status is what was last reported |
| Authentication (`auth`) | secret, bcrypt cost, the tokens clients hold | Login, HashPassword, IssueToken, ParseToken, middlewares | a token outlives a change of role or the account; a login straddles it | access bounded by the token lifetime |
| Configuration (`config`) | the file | Load, Validate | defaults that mask zeroes; ranges | a server only starts with a complete file |
| Lifecycle (`lifecycle`, `httpserver`, systemd unit, `storage/migrations.go`) | the process, the listener, the schema | buildApp, RunMigrations, serve, Shutdown | kill between a migration and its record; READY before listening; database closed under running handlers | schema matches its record; requests keep the database; stops in time; comes back |
| Web UI (`webui`, `app.js`) | a browser's page and cookie | pages, LoginSubmit, logout link | cookie set by one part and read (or not) by another | a good cookie opens the pages |
| Observability, domain types | - | - | logging; data | - |

**How they interact.** The HTTP handler of an agent's WebSocket registers the
connection, becomes its write loop, and unregisters when that loop ends.  The read
loop hands heartbeats to the registry, acknowledgements and results to the task
manager and status reports to the device manager; the task manager's notifier is
the SSE hub, so `Publish` runs in the agent's read loop.  `CreateTask` and
`CancelTask` run in HTTP requests, send on the agent's `sendCh` through the
registry, and publish too.  The admin handlers write the rows all of them read.
Every HTTP handler sits behind the JWT middleware, which asks no database.

## Plan

All parts of the plan are done, in this order: connections (`AgentLink`,
`AgentRegistry`), since tasks travel on them; tasks (`TaskStates`,
`TaskLifecycle`); what the user sees of them (`EventStream`); documents
(`DocumentStore`); accounts and tokens (`Accounts`); factories, agents and devices
(`Fleet`); the process with its configuration and migrations (`ServerConfig`,
`ServerProcess`); the browser (`WebSession`).  Each state machine has a module of
proofs.  Worth adding if the code grows into them: the periodic clean-up of
documents, audit rows, and a dispatch of tasks whose agent was offline, none of
which the server has today.

*Composition.* `TaskLifecycle` does not repeat the registry: its connection environment
(`Attach`, `Detach`, `Crash`) is that of `AgentLink` for one agent.  Both are theorems: `AgentRegistry`
implements `AgentLink` (`LinkImplemented`), and the connections of `TaskLifecycle` follow it
(`ConnectionsFollowLink`).  Its `Push` is a call of `EventStream`'s Publish.
`ServerProcess` extends `ServerConfig` and decides with it whether a process starts; the crashes
of the other modules are its `Killed`; the goroutine that `TaskLifecycle` follows from
"created" on is the one its `DispatchLeft` starts.  `Accounts` supplies the tokens of which `WebSession`
has one.

## Modules

**AgentLink** (abstract).  Per agent one current connection, each connection current at most once.

**AgentRegistry.**  `conns` is `Manager.conns`; `handler`, `reader` are the two goroutines of
each session; `link` is its socket (`up`, `silent` for half open, `down`, `closed` by
`AgentConnection.Close`); `fresh` says its last heartbeat is younger than the timeout;
`online` is the column; `chk*` is the checker's loop; `rmw` are GetAgentCredentials requests
between their read and their write.  One critical section of `Manager.mu` is one action; the
`SetOnline` after it is another.  A blocked write, a dead socket and expiry are environment
actions (`PathDegrades`, `Expire`).  `env`, one of `Environments`, is fixed for a behaviour and
says what may go wrong in it: an agent that redials before the server has forgotten its old
connection (`overlap`), crashes, failing `SetOnline`s (`fault`), administrators who rewrite the
row.  In `Calm` nothing of this happens.

**TaskStates** (abstract).  The machine of `canTransition`, which the tests pin down and the
message handlers do not call.

**TaskLifecycle.**  One agent.  `row` is the task's row (status, retry count, which of the
three times are set), `disp`, `cancel` and `reader` are handlers between two of their
statements, `queue` and `up` are the send channel and the socket in the other direction,
`agent` the agent's side and `pushed` the last status handed to the notifier.  Each database
statement and each channel send is an action.  `Faults` lets a write fail; `Drops` lets the
connection go; `Cancellable` names the tasks whose owner may cancel; `HasUpdatedAt` says whether
table `tasks` has the column `UpdateStatus` writes; `Dispatchers` are the calls of DispatchTask
that are made for each task, one in the program.  The agent is external: it may reject,
accept, retry up to `MaxRetry` times and report once.

**EventStream.**  One user.  `hub` and `inner` are the outer and inner maps (an inner map is
named after the stream that made it), `stream` and `pub` are ServeSSE and Publish calls.  A
walk of the inner map without the lock may or may not see entries added meanwhile; a walk
during a write may kill the process (`RuntimeThrows`), and a send on a closed channel panics
(`PublishPanics`): that ends a request, but the whole process in a read loop.

**DocumentStore.**  `tmp` and `bin` are the two names a document's file can have, `row` its row,
`upload`, `download` and `submit` are UploadDocument, DownloadDocument and the first half of
CreateTask between two steps.  Any step of an upload can fail or be followed by a crash, after
which files and rows stay and requests are gone.  That an insert which reports an error has stored
nothing is an assumption: UploadDocument inserts under the context of the request (handlers.go:271),
which ends when the client leaves, and the driver is not part of the repository; `RemoveFails` lets `os.Remove`, whose error
the code discards, leave its file.  A crash is that of the process: what the operating system
has been given survives it (Save does not sync, and a power failure is not modelled).

**Accounts.**  `users` is the table, `tokens` what clients hold, `refs` the users that documents
and tasks name, `req` each handler between its statements (or around bcrypt).  A token carries
the id and role of the row that was read at login; the middleware looks at its expiry only.
The foreign key of `user_permissions`, which refuses some deletions too, is left out, so that more deletions
succeed here than in the program.
`held`, `want` and `raced` are history: when an account was last ACTIVE in a role, what the
answered updates add up to, and where two of them overlapped.  `Seed` is what
`deploy/init-db.sh` leaves.  `LookupFails` lets the look-up of a name fail, whose error Register
and CreateUser take for "free"; the UNIQUE column has to catch that.

**Fleet.**  Tables `factories`, `agents`, `devices`, one user's `user_permissions`, and the pairs
`tasks` rows name, with their foreign keys.  UpdateDevice, GetAgentCredentials, status reports and
task creation are a read and a write; a response that shows a credential is a step of its own,
which may be lost.  `told` and `said` record what an administrator was shown and what status was
last reported; `unsure` and `muddled` record requests that overlapped.

**ServerConfig.**  `Load`'s defaults and `Validate` on configurations of eleven fields.

**ServerProcess.**  `main` is where the main goroutine is, from `load` to `exit`, `srv` the goroutine
of `Server.Start`, `unit` systemd's view, `tables` and `applied` the schema and `schema_versions`,
`req` the requests being served, among them agents' WebSockets and the goroutines in which CreateTask leaves
the dispatch behind (`Left`), neither of which `http.Server` waits for.  Between any two steps the process may be killed; the
configuration, the migration files and committed transactions stay.

**WebSession.**  One browser: `page`, `cookie`, and the account behind it.  `CookieAuth` chooses the
tree: FALSE for the root's `extractBearer`, TRUE for the copy's.

`MC*` modules give the constants values; `*Proofs` hold theorems.  Definitions whose comment
begins with "Mutant" are broken variants of the definition that follows; no specification
uses them, and each makes the property it is aimed at fail.

## Runs

| Run | Bounds | Shows |
|---|---|---|
| Registry | 1 agent, 2 sessions, 1 administrator; a calm environment, one with crashes and one with everything; fairness | types; `RegisteredHasHandler`; `DisplacedIsClosed`; `FlagSettled` (the first two); `ImplementsLink`; `SilentIsEvicted`, `ClosedSessionEnds` |
| TaskAnyOrder | 1 task, one call of DispatchTask, 2 sessions, 1 cancel, 1 retry, queue of 1, drops, crashes, failing writes | types and queue bound; `OneCopyPerCall`; `NothingInvented`; `RowsAdvance` |
| Task | 2 tasks, one of them cancellable, 1 session, queue of 1, 1 retry; fairness | `ResultRecorded`, `PushedIsCurrent`, `FollowsMachine`, `QueuedTaskEnds` of the undisturbed task; `TerminalIsStamped` of both |
| Stream | 2 streams, a read loop publishing 3 events, buffer 2; fairness | types and buffer bound; `OpenIsReachable`, `InOrder`, `NothingLost`; `PublishReturns`, `StreamIsReleased` |
| Documents | 2 uploads, 2 downloads, 1 task creation, crashes | types; `DocumentsReadable`, `AnsweredIsClean` |
| Accounts | 2 requests in flight, 2 ids, 2 names, the seeded administrator, tokens of one hour, 2 hours | types; `UniqueNames`, `AccessIsBounded`, `UpdatesKept`, `NoOrphans`, `DeletedStaysDeleted` |
| Fleet | 2 handlers in flight, 1 factory, 2 agents, 1 device, 3 credentials | types; `ReferencesHold`, `StatusSettled`, `CredentialWorks` |
| Server | 2 migrations, a plain request, the dispatch it leaves, an event stream, a WebSocket, 2 kills or failures anywhere; fairness | types; `SchemaSound`, `RequestsKeepDatabase`; `StopsInTime`, `ServesAgain` |
| RegistryLiveSession | 1 agent, 2 sessions | **violated**: the old handler removes the live connection |
| TaskFinal | 1 task, 1 cancel | **violated**: a late answer overwrites CANCELLED |
| TaskTwice | 1 task, two calls of DispatchTask | **violated**: the second call is accepted and sends a second copy |
| Web | both roles, tokens of 2 hours, 3 hours | **violated**: the cookie LoginSubmit sets does not open the page it redirects to |

*Why the bounds suffice.*  A race in the registry needs an old session and its replacement;
agents only share the checker's snapshot, and the proofs cover any number of them.  Tasks share
only the queue and the reader, so two tasks and a queue of one reach "full" and every order of two
messages.  A stream's races need one stream leaving and one staying or arriving, and three events
overrun a buffer of two.  Races on rows are between a pair of handlers, so two are in flight;
two ids allow a deletion and a re-use of the name; three credentials allow a registration and two
overlapping requests.  Two migrations allow an upgrade to bring the earlier one last; two
kills allow one in a migration and one in the restart that repairs it.  Requests are
interchangeable where SYMMETRY is used, in runs that check safety only.  Deadlock is not
checked: each model has finitely many sessions, tasks, ids or events and may simply be done
(a server nobody starts, too, may stay off).

*Where a property is limited, and why.*  `FlagSettled` excludes overlap, failing writes and
administrators: with overlap the write of the old handler can land last and the flag stays wrong,
and an administrator's row write puts an old value back.  With crashes it says half: the column
stays TRUE of an agent that was connected (nothing resets it), but is never FALSE of one that is
back.  `RowsAdvance` allows what the run TaskFinal shows (an answer written over CANCELLED, a
cancel written over an answer) and a message still being handled for a connection that has been replaced, whose
write can come after the new connection's; and nothing else.
`PushedIsCurrent` and `FollowsMachine` are about tasks without a cancel: pushes of two goroutines
are unordered, and TaskFinal shows the status.  `TerminalIsStamped` needs a connection that holds:
when it drops between UpdateStatus and MarkFinished the reader's context is cancelled and the
second statement fails.  `QueuedTaskEnds` starts at a queued task, because a task
created while its agent is offline, or while its queue is full, stays PENDING: nothing
dispatches it again.  `OneCopyPerCall` is about calls, since TaskTwice shows that a second call sends a
second copy; its run has the one call the program makes for a task (with two the state space is too
large), and `OneCopyPerCallAlways` proves it for any finite number of them.  `DocumentsReadable` and
`AnsweredIsClean` rest on the assumption about the insert: a driver that reported the end of the
context after it had committed would leave a row whose file `Undo` deletes (the mutant
`InsertFailsLate` is that driver, and makes `DocumentsReadable` fail).  `AnsweredIsClean` also needs
removals that succeed.  `RequestsKeepDatabase` leaves out what the server does not wait for: a
WebSocket handler or a dispatch may find the database closed.  `UpdatesKept`, `StatusSettled`
and `CredentialWorks` exclude exactly the rows on which two handlers overlapped (or whose
answer was lost), where the code loses a write; they say that nothing else does and that the next
undisturbed request repairs it.  `AccessIsBounded` promises no more than expiry: nothing revokes a
token.

*What the violated runs and one theorem show.*  RegistryLiveSession: README.md:135 gives a connection up
after 90 seconds of silence, and hub.go:88 takes down a live one.  TaskFinal: status.go:92-94 and
`taskmanager_test.go:384-401` call a terminal status final, and the handlers write over it.  TaskTwice:
`taskmanager_test.go:258-270` expects an error of the second DispatchTask of a task, and the code
refuses only a status other than PENDING, which MarkDispatched (taskmanager.go:212) does not change;
CreateTask, the only caller, calls it once, so users do not see it.  Web: README.md:115 says the pages take the
token from the cookie, and the root's `extractBearer` does not look there.  The schema of
`migrations/0001_init.up.sql` has no `tasks.updated_at`, which every UPDATE of `task_repo.go` sets
(line 79; only the manual script `deploy/fix_tasks.sql` adds it): the theorem `NothingStored` says that
on it no task leaves PENDING, where `test/integration/e2e_test.go:412` expects SUCCESS.  All runs assume
the column.

*Other behaviour met while modelling that no document rules out.*  The checker can unregister a
connection that is not the one it found expired (it unregisters by agent_id), and it does so in a
step of its own, so that a heartbeat in between does not save the connection.  A dispatch can
send a task that a cancel has just ended.  Expired
documents (README.md:143) are never removed: nothing calls `ListExpired`.  A task keeps the
agent its device had when it was created.  READY is sent before the port is bound, and SIGTERM
before `signal.Notify` ends the process without a shutdown.  Without a migrations directory the
server starts on whatever schema it finds.  Requests that overrun the ten seconds find the database
closed, as WebSocket handlers and dispatches always may.  The server's WriteTimeout ends an event stream after a
minute.  The HttpOnly cookie makes the logout link (`app.js:80`) leave the session in place until the token
expires.  `1.2.3.4:8080` passes as a domain, `bcrypt_cost` is not validated, and the
systemd unit sets `*_FILE` variables that the code does not read.

**Fairness.**  Goroutines that can run do run (weak fairness on each handler, reader, checker and
Publish step): the Go scheduler is preemptive.  The checker's ticker fires for ever.  In
Registry nothing is assumed of a peer but that silence makes a heartbeat expire, which is
time passing.  In Task the agent is assumed to answer and the connection to hold, as
`QueuedTaskEnds` says.  In Stream no client is assumed to read or to leave.  In Server systemd
restarts what its unit tells it to, main and the listening goroutine run, the ten-second timer
of Stop fires, and a plain request ends, as does a dispatch, which has a time limit; streams and WebSockets need never end, and nobody need
start or stop anything.

## Proofs

For every value of the constants (any number of agents, sessions, tasks, streams, requests, rows):

- `AgentRegistryProofs`: `TypeCorrect`; `RegisteredHasHandlerAlways` and
  `DisplacedIsClosedAlways`, from the invariant `MapInv` with types (the two are inductive
  together: a handler leaves `Owning` only through its own unregistration, which empties the
  entry); `OneOpenSession` follows from it.  `LinkImplemented`, that each step is an `Attach`, `Detach`,
  `DetachAll` or a stutter, and with it `PlaceNeverRegained`.  `FlagSettles` from `FlagInv` (where a
  session is accepted only when the agent's others are gone and the checker holds none, the entry is empty
  as long as an offline write is owed; a crash can only drop writes that were owed, which leaves
  the half of the agreement that `FlagSettled` promises).  `LiveSessionKeptApart` is what is left of the
  violated `LiveSessionKept` when sessions do not overlap: only a crash, or the checker that found this
  very session expired, closes a connection that is up and fresh.  Its invariants: the agent's handlers run
  one at a time and what the checker holds of the agent is its last session (`TurnInv`), and a
  handler that leaves has closed its connection (`LeavingIsClosed`).
- `TaskLifecycleProofs`: `TypeCorrect`, which includes the bound of the queue;
  `ProgressNeedsDeliveryAlways` (only CANCELLED follows PENDING of a task the agent was never
  given).  The latter is not inductive: `DeliveryInv` adds that every
  message on its way to the server, and every message a reader is handling, is about a task
  the agent has a copy of, and that a task the agent works on was delivered.
  `PrintedOnce`, at most one copy of a task, assuming `OneDispatcher` (CreateTask starts one dispatch per
  task), from `CopyInv`:
  until its dispatcher sends, a task is in no queue and not with the agent; then it is in
  at most one place of one queue, or given, never both.  `OneCopyPerCallAlways`, for any number of calls,
  assuming that calls and connections are finitely many (`FiniteCalls`), from `CallInv`: a call's send adds one
  place to the queues and one to the calls made, and the agent's Receive takes a place away, so a
  replay would have to come from a call that was counted.  `NothingStored`, assuming
  `HasUpdatedAt = FALSE`: no row changes after its INSERT.  `MachineImplemented`, `ResultRecordedAlways`,
  `PushedIsCurrentAlways` and `TerminalIsStampedAlways` assume `Calm` too (no drop, crash or failing
  write; `tasks` has the column `updated_at`, which the migrations do not add).  Their invariant `CalmInv` reads
  the places of a task as one chain: its row, the message being written, the messages not yet
  taken and the agent's state are each a step of `canTransition` apart, so whatever is taken next is a
  legal change of the row and the last of it is the agent's result.
  With every failure again, assuming `OneDispatcher`: `RowsAdvanceAlways`, from `AdvanceInv`.  Statuses and
  retries are numbered by `Stage`.  The agent speaks of a task in the order of its stages, a read loop
  is done with a message before it takes the next, and so all that is still to be said, or to be
  written for the current connection, is ahead of the row and of the retry count a cancel
  remembers; what is behind is written by a replaced connection's loop only.  `SteadyRowsAdvance`
  assumes further that no connection is replaced (`Drops = FALSE`): then a row nobody may cancel only moves
  forwards, and a final status is final, which is the half of status.go's claim that the run
  TaskFinal does not refute.  `NothingInventedAlways`, from `HonestInv`: what the agent has done stays done (a
  second copy of a task would undo it, hence `CopyInv`), every message on its way or being
  handled says what the agent has done, and a cancel remembers what a row said; so nobody can
  write or push more than that.  `ConnectionsFollowLink`: see Composition.
- `EventStreamProofs`: `TypeCorrect`; `OpenIsReachableAlways`: `HubInv` adds the mutual exclusion of
  the goroutines inside `h.mu`: an inner map is dropped only when empty, by the one that holds it;
  `InOrderAlways`: `SentInv` adds that every event a stream has been sent lies behind its
  publisher or was sent in the current walk to a stream that walk has seen; `NothingIsLost`: `PassedInv`
  says that each stream the walk has passed and that is still there has the event or was full,
  `MapsInv` and `StartInv` that nothing enters or leaves an inner map behind the walk's back;
  `WalksFindOpenChannels`, from the same: a send panics only after a whole unsubscribe between two steps
  of one Publish.
- `DocumentStoreProofs`: `TypeCorrect` (no partial document under its final name),
  `DocumentsReadableAlways`, from `DocInv`: between the rename and its end
  an upload has its file and no row, and a reader past its first read has found a row;
  `AnsweredIsCleanAlways`, assuming `RemoveFails = FALSE`, from `CleanInv`.
- `AccountsProofs`: `TypeCorrect`, `NamesStayUnique`, `ReferencesStay`, `DeletionIsFinal`;
  `AccessStaysBounded` from `AccessInv` (a login between its two statements read a row that was
  ACTIVE in that role in the current hour); `UpdatesStayKept` from `UpdateInv` (an update
  alone on its account has read the row as it still is).
- `FleetProofs`: `TypeCorrect`; `ReferencesStay` from `RefInv`; `StatusStaysSettled` from `StatusInv` (an
  UpdateDevice in flight has read the last status, or a write since has muddled the device);
  `ShownCredentialsWork` from `CredInv` (a request alone on its agent has the stored credential);
  `CredentialsIdentify` and `RevokedStaysRevoked`, for requests that overlap too, from `TokenInv` (no two
  agents have the same stored credential) and because whatever writes one has just generated it.
- `ServerProcessProofs`: `TypeCorrect`; `SchemaStaysSound` from `SchemaInv`, the loop invariant of RunMigrations;
  `MigrationsCommitOnce` (no migration is recorded twice, and none before an earlier one found with
  it), from `CommitInv`: nothing writes `schema_versions` between its look-up and the commit;
  `DatabaseOutlivesRequests` from `RequestInv` (past `drain` only WebSockets and dispatches are left, unless the grace was overrun).
- `WebSessionProofs`: `CookieIsEnough`: with `CookieAuth`, what the run Web refutes for the root
  tree holds of the copy.

They rest on the constants' named assumptions, and on the hypotheses named above:
`RemoveFails = FALSE`, `CookieAuth`, `OneDispatcher`, `FiniteCalls`, `HasUpdatedAt = FALSE` (`NothingStored` only),
`Drops = FALSE` and `Calm`; the theorems about documents also on the model's assumption that an INSERT that
reports an error has stored nothing; that sessions do not overlap
(`FlagSettled`, `LiveSessionKeptApart`) is a premise inside the statements.  So every invariant and action property of
the passing runs is proved.  Model-checked only: liveness (the properties under fairness) and the
refinements' fairness, which are out of TLAPS's reach here, and the counterexamples behind the findings.

## Not modelled

*Code nothing calls:* AuditRepo's writes (table `audit_logs` stays empty), FactoryRepo.Update, Delete
and HasDependents, AgentRepo.Delete, SetStatusByAgent, `devicemanager/control.go`, SaveAtomic,
LoginAPI and Logout of `webui`, UserRepo.HasPermission (README.md:113 says users may only use
authorised devices; permissions filter listings), ListDevicesByFactory and ByAgent, Broadcast,
SendUpgrade, ListExpired.

*Reads of one statement* (ListTasks, GetTask, the admin listings, pages): they change nothing.
Their offset paging runs over lists that move.

*Data:* message contents other than task, kind, status and retry count; the document's bytes,
which the copy embeds in a dispatch; what pages show.  Time is "expired or not", or hours where
tokens are concerned; the rate limiter, one bucket for all clients, and the watchdog's
notifications are left out.  Observability, installation scripts and end-to-end scripts have no
behaviour the models could tell apart.
