---------------------------- MODULE ServerProcess ----------------------------
(***************************************************************************)
(* The life of the server process: lifecycle.App from main to exit, the    *)
(* migrations it applies on its way up, the goroutine that listens, the    *)
(* requests that are being served when it stops, and the systemd unit that *)
(* starts it again.                                                        *)
(*                                                                         *)
(* Between any two steps of main the process may be killed.  What survives *)
(* is on disk: the configuration file, the migration files and the         *)
(* database with the transactions it has committed.                        *)
(***************************************************************************)
EXTENDS ServerConfig, FiniteSets

CONSTANTS
  Versions,     \* versions of *.up.sql files, in the order of their names
  Requests,     \* requests the server may be serving
  Plain,        \* those that end by themselves
  Hijacked,     \* agents' WebSockets, which http.Server does not track
  Left,         \* goroutines that requests leave behind to dispatch a task
  Files,        \* configuration files an operator may write
  MaxFaults     \* kills and failures in a behaviour

ASSUME ProcessAssumption ==
  /\ Versions \subseteq Nat
  /\ Plain \cup Hijacked \cup Left \subseteq Requests
  /\ Plain \cap Hijacked = {} /\ Left \cap (Plain \cup Hijacked) = {}
  /\ Files \subseteq Configs /\ MaxFaults \in Nat

VARIABLES
  unit,         \* the systemd unit
  main,         \* where the main goroutine is; "off": there is no process
  srv,          \* where the goroutine that runs Server.Start is
  term,         \* SIGTERM is in the signal channel
  why,          \* what made serve leave its select
  file,         \* the configuration file
  dir,          \* the migration files on disk; none, if no directory is found
  found,        \* those that RunMigrations listed
  todo,         \* those it has still to look at
  tables,       \* versions whose statements the database has
  applied,      \* versions in table schema_versions
  dbOpen,       \* App.db is open
  req,          \* the requests being served
  overrun,      \* Shutdown gave up waiting for requests
  met,          \* requests that found the database closed
  faults

diskVars == <<file, dir, tables, applied>>
stopVars == <<term, why, overrun>>
reqVars == <<req, met>>
vars == <<unit, main, srv, stopVars, diskVars, found, todo, dbOpen, reqVars, faults>>

(* Before signal.Notify, SIGTERM ends the process at once. *)
Unarmed ==
  {"load", "open", "migrate", "commit", "build", "notify", "spawn", "arm"}
Stopping == {"drain", "close", "exit"}

(* What http.Server.Shutdown does not wait for. *)
Untracked == Hijacked \cup Left

(* systemd has been told that the server is ready. *)
Ready == main \in {"spawn", "arm", "select"}

TypeOK ==
  /\ unit \in {"inactive", "starting", "active", "stopping"}
  /\ main \in {"off", "select"} \cup Unarmed \cup Stopping
  /\ srv \in {"none", "starting", "listening", "failed", "closed"}
  /\ term \in BOOLEAN /\ why \in {"none", "signal", "error"}
  /\ file \in Files /\ dir \in SUBSET Versions
  /\ found \subseteq Versions /\ todo \subseteq found
  /\ tables \subseteq Versions /\ applied \subseteq Versions
  /\ dbOpen \in BOOLEAN
  /\ req \subseteq Requests /\ met \subseteq Requests
  /\ overrun \in BOOLEAN /\ faults \in 0..MaxFaults
  /\ main = "off" <=> unit \in {"inactive", "starting"}

Init ==
  /\ unit = "inactive" /\ main = "off" /\ srv = "none"
  /\ term = FALSE /\ why = "none" /\ overrun = FALSE
  /\ file \in Files /\ dir \in SUBSET Versions
  /\ found = {} /\ todo = {} /\ tables = {} /\ applied = {} /\ dbOpen = FALSE
  /\ req = {} /\ met = {}
  /\ faults = 0

Fault == faults < MaxFaults /\ faults' = faults + 1

-----------------------------------------------------------------------------
(* The process is gone, and with it all of its goroutines and connections. *)
Gone ==
  /\ main' = "off" /\ srv' = "none" /\ dbOpen' = FALSE
  /\ term' = FALSE /\ why' = "none" /\ overrun' = FALSE
  /\ found' = {} /\ todo' = {} /\ req' = {} /\ met' = {}
  /\ UNCHANGED diskVars

(* Mutant: a failure is not noticed by systemd. *)
EndsUnnoticed(failed) ==
  /\ Gone
  /\ unit' = IF failed THEN unit ELSE "inactive"

(* Restart=on-failure: an exit code other than 0 or a signal other than    *)
(* SIGTERM starts the server again, unless it was told to stop.            *)
Ends(failed) ==
  /\ Gone
  /\ unit' = IF failed /\ unit = "active" THEN "starting" ELSE "inactive"

UnitStarts ==
  /\ unit = "starting"
  /\ unit' = "active" /\ main' = "load"
  /\ UNCHANGED <<srv, stopVars, diskVars, found, todo, dbOpen, reqVars, faults>>

OperatorStarts ==
  /\ unit = "inactive"
  /\ unit' = "starting"
  /\ UNCHANGED <<main, srv, stopVars, diskVars, found, todo, dbOpen, reqVars, faults>>

(* systemctl stop sends SIGTERM, *)
OperatorStops ==
  \/ /\ unit = "starting"
     /\ unit' = "inactive"
     /\ UNCHANGED <<main, srv, stopVars, diskVars, found, todo, dbOpen, reqVars, faults>>
  \/ /\ unit = "active" /\ main \notin Unarmed
     /\ unit' = "stopping" /\ term' = TRUE
     /\ UNCHANGED <<main, srv, why, overrun, diskVars, found, todo, dbOpen, reqVars, faults>>

(* which nothing catches before WaitForSignal. *)
SignalKills ==
  /\ unit = "active" /\ main \in Unarmed
  /\ Gone /\ unit' = "inactive"
  /\ UNCHANGED faults

Killed ==
  /\ main # "off" /\ Fault
  /\ Ends(TRUE)

(* An operator writes the file; an upgrade of the package brings files.    *)
Configure(f) ==
  /\ file' = f
  /\ UNCHANGED <<unit, main, srv, stopVars, dir, tables, applied, found, todo,
                 dbOpen, reqVars, faults>>

Upgrade(v) ==
  /\ dir' = dir \cup {v}
  /\ UNCHANGED <<unit, main, srv, stopVars, file, tables, applied, found, todo,
                 dbOpen, reqVars, faults>>

-----------------------------------------------------------------------------
(* buildApp: the configuration decides whether there is a server at all,   *)
(* then the log files must be writable,                                    *)
LoadConfig ==
  /\ main = "load"
  /\ \/ /\ Accepted(file)
        /\ main' = "open"
        /\ UNCHANGED <<unit, srv, stopVars, diskVars, found, todo, dbOpen, reqVars, faults>>
     \/ ~Accepted(file) /\ Ends(TRUE) /\ UNCHANGED faults
     \/ Fault /\ Ends(TRUE)

(* the database is opened and the migration files, if any, are listed. *)
OpenDatabase ==
  /\ main = "open"
  /\ \/ /\ dbOpen' = TRUE
        /\ main' = "migrate" /\ found' = dir /\ todo' = dir
        /\ UNCHANGED <<unit, srv, stopVars, diskVars, reqVars, faults>>
     \/ Fault /\ Ends(TRUE)

NextFile(v) == v \in todo /\ \A w \in todo : v <= w

(* Mutant: schema_versions is not consulted; writing the version a second  *)
(* time violates its key.                                                  *)
MigrationRepeated(v) ==
  /\ main = "migrate" /\ NextFile(v) /\ v \in applied
  /\ Ends(TRUE) /\ UNCHANGED faults

(* RunMigrations takes the files in the order of their names, passes over  *)
(* those that are applied *)
MigrationSkipped(v) ==
  /\ main = "migrate" /\ NextFile(v) /\ v \in applied
  /\ todo' = todo \ {v}
  /\ UNCHANGED <<unit, main, srv, stopVars, diskVars, found, dbOpen, reqVars, faults>>

(* Mutant: the statements run outside a transaction. *)
MigrationRunsUnprotected(v) ==
  /\ main = "migrate" /\ NextFile(v) /\ v \notin applied
  /\ main' = "commit" /\ tables' = tables \cup {v}
  /\ UNCHANGED <<unit, srv, stopVars, file, dir, applied, found, todo, dbOpen,
                 reqVars, faults>>

(* and runs the statements of the others in a transaction each, which an   *)
(* error rolls back, *)
MigrationRuns(v) ==
  /\ main = "migrate" /\ NextFile(v) /\ v \notin applied
  /\ \/ /\ main' = "commit"
        /\ UNCHANGED <<unit, srv, stopVars, diskVars, found, todo, dbOpen, reqVars, faults>>
     \/ Fault /\ Ends(TRUE)

(* together with the row that records the version. *)
MigrationCommits(v) ==
  /\ main = "commit" /\ NextFile(v)
  /\ tables' = tables \cup {v} /\ applied' = applied \cup {v}
  /\ todo' = todo \ {v}
  /\ main' = "migrate"
  /\ UNCHANGED <<unit, srv, stopVars, file, dir, found, dbOpen, reqVars, faults>>

MigrationsDone ==
  /\ main = "migrate" /\ todo = {}
  /\ main' = "build"
  /\ UNCHANGED <<unit, srv, stopVars, diskVars, found, todo, dbOpen, reqVars, faults>>

(* Repositories, managers and routes are put together.  Nothing here can   *)
(* fail the start: without its templates the server has no web pages.      *)
BuildServer ==
  /\ main = "build" /\ main' = "notify"
  /\ UNCHANGED <<unit, srv, stopVars, diskVars, found, todo, dbOpen, reqVars, faults>>

(* serve tells systemd it is ready, starts the goroutine that will listen  *)
(* and then asks for signals.                                              *)
NotifyReady ==
  /\ main = "notify" /\ main' = "spawn"
  /\ UNCHANGED <<unit, srv, stopVars, diskVars, found, todo, dbOpen, reqVars, faults>>

StartServer ==
  /\ main = "spawn" /\ main' = "arm" /\ srv' = "starting"
  /\ UNCHANGED <<unit, stopVars, diskVars, found, todo, dbOpen, reqVars, faults>>

WaitForSignal ==
  /\ main = "arm" /\ main' = "select"
  /\ UNCHANGED <<unit, srv, stopVars, diskVars, found, todo, dbOpen, reqVars, faults>>

(* ListenAndServe listens, or fails (the port is taken, there is no        *)
(* certificate), or is told at once that the server was shut down.         *)
Listen ==
  /\ srv = "starting"
  /\ \/ main \notin Stopping /\ srv' = "listening" /\ UNCHANGED faults
     \/ main \notin Stopping /\ srv' = "failed" /\ Fault
     \/ main \in Stopping /\ srv' = "closed" /\ UNCHANGED faults
  /\ UNCHANGED <<unit, main, stopVars, diskVars, found, todo, dbOpen, reqVars>>

-----------------------------------------------------------------------------
(* A request arrives while the listener is open.  A WebSocket lasts as     *)
(* long as its agent likes and an event stream for most of the minute that *)
(* WriteTimeout gives it, far beyond the ten seconds of a shutdown.        *)
RequestArrives(r) ==
  /\ srv = "listening" /\ r \notin Left \cup req \cup met
  /\ req' = req \cup {r}
  /\ UNCHANGED <<unit, main, srv, stopVars, diskVars, found, todo, dbOpen, met, faults>>

(* Handlers.CreateTask starts the goroutine that dispatches the task; it   *)
(* has ten seconds of its own, and the handler does not wait for it.       *)
DispatchLeft(r) ==
  /\ req \cap Plain # {} /\ r \in Left \ (req \cup met)
  /\ req' = req \cup {r}
  /\ UNCHANGED <<unit, main, srv, stopVars, diskVars, found, todo, dbOpen, met, faults>>

(* Its last statement finds the database open or closed. *)
RequestEnds(r) ==
  /\ r \in req
  /\ req' = req \ {r}
  /\ met' = IF dbOpen THEN met ELSE met \cup {r}
  /\ UNCHANGED <<unit, main, srv, stopVars, diskVars, found, todo, dbOpen, faults>>

(* Mutant: the database is closed before the server is stopped. *)
BeginShutdownClosesFirst ==
  /\ main = "select"
  /\ \/ term /\ why' = "signal"
     \/ srv = "failed" /\ why' = "error"
  /\ main' = "drain" /\ dbOpen' = FALSE
  /\ srv' = IF srv = "listening" THEN "closed" ELSE srv
  /\ UNCHANGED <<unit, term, overrun, diskVars, found, todo, reqVars, faults>>

-----------------------------------------------------------------------------
(* Shutdown closes the listener and waits *)
BeginShutdown ==
  /\ main = "select"
  /\ \/ term /\ why' = "signal"
     \/ srv = "failed" /\ why' = "error"
  /\ main' = "drain"
  /\ srv' = IF srv = "listening" THEN "closed" ELSE srv
  /\ UNCHANGED <<unit, term, overrun, diskVars, found, todo, dbOpen, reqVars, faults>>

(* until no request is left that http.Server knows of, *)
Drained ==
  /\ main = "drain" /\ req \subseteq Untracked
  /\ main' = "close"
  /\ UNCHANGED <<unit, srv, stopVars, diskVars, found, todo, dbOpen, reqVars, faults>>

(* Mutant: Shutdown without a deadline. *)
GraceNeverExpires ==
  main = "drain" /\ req \subseteq Untracked /\ Drained

(* but for ten seconds at most, *)
GraceExpires ==
  /\ main = "drain" /\ ~(req \subseteq Untracked)
  /\ main' = "close" /\ overrun' = TRUE
  /\ UNCHANGED <<unit, srv, term, why, diskVars, found, todo, dbOpen, reqVars, faults>>

(* closes the database, whoever still uses it, *)
CloseDatabase ==
  /\ main = "close"
  /\ dbOpen' = FALSE /\ main' = "exit"
  /\ UNCHANGED <<unit, srv, stopVars, diskVars, found, todo, reqVars, faults>>

(* and main exits, with code 1 if anything went wrong. *)
Exit ==
  /\ main = "exit"
  /\ Ends(why = "error" \/ overrun)
  /\ UNCHANGED faults

-----------------------------------------------------------------------------
(* RunMigrations. *)
Migrate ==
  \/ \E v \in Versions : MigrationSkipped(v) \/ MigrationRuns(v) \/ MigrationCommits(v)
  \/ MigrationsDone

(* buildApp. *)
Build == LoadConfig \/ OpenDatabase \/ Migrate \/ BuildServer

(* serve. *)
Serve == NotifyReady \/ StartServer \/ WaitForSignal

Startup == Build \/ Serve

Shutdown == BeginShutdown \/ Drained \/ GraceExpires \/ CloseDatabase \/ Exit

Environment ==
  \/ OperatorStarts \/ OperatorStops \/ SignalKills \/ Killed
  \/ (\E f \in Files : Configure(f)) \/ (\E v \in Versions : Upgrade(v))

Next ==
  \/ UnitStarts \/ Startup \/ Listen \/ Shutdown
  \/ \E r \in Requests : RequestArrives(r) \/ DispatchLeft(r) \/ RequestEnds(r)
  \/ Environment

Spec == Init /\ [][Next]_vars

(* systemd restarts, goroutines and timers run, and a plain request ends,  *)
(* as a dispatch does within its ten seconds.                              *)
FairSpec ==
  /\ Spec
  /\ WF_vars(UnitStarts) /\ WF_vars(Startup) /\ WF_vars(Shutdown) /\ WF_vars(Listen)
  /\ \A r \in Plain \cup Left : WF_vars(RequestEnds(r))
-----------------------------------------------------------------------------
(* The database has the statements of exactly the migrations it says it    *)
(* has, whenever the process is killed, and when systemd is told that the  *)
(* server is ready every migration that was on disk has been applied, in   *)
(* whatever order upgrades brought them.                                   *)
SchemaSound ==
  /\ tables = applied
  /\ Ready => found \subseteq applied

(* No request that the server tracks finds the database closed, unless it  *)
(* held up the shutdown for longer than the ten seconds it has.  A         *)
(* WebSocket and the dispatch a request left behind may: the server does   *)
(* not wait for them.                                                      *)
RequestsKeepDatabase == met \subseteq Untracked \/ overrun

(* Once SIGTERM has been caught the process ends, although WebSockets and  *)
(* event streams may stay open beyond any deadline.                        *)
StopsInTime == term ~> main = "off"

(* A server that is to be started gets to listen, however often it is      *)
(* killed or fails on the way and in whatever state that leaves the        *)
(* database, if the configuration stays acceptable and nobody stops it.    *)
ServesAgain ==
  unit = "starting" ~>
    srv = "listening" \/ unit \in {"inactive", "stopping"} \/ ~Accepted(file)
=============================================================================
