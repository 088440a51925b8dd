-------------------------- MODULE ServerProcessProofs --------------------------
(***************************************************************************)
(* Proofs about ServerProcess for any set of migrations and requests, any  *)
(* configuration files and any number of kills and failures.               *)
(***************************************************************************)
EXTENDS ServerProcess, TLAPS

LEMMA InitTypes == Init => TypeOK
<1>1. ASSUME Init PROVE faults \in 0..MaxFaults
  BY <1>1, ProcessAssumption DEF Init
<1>2. QED
  BY <1>1 DEF Init, TypeOK, Unarmed, Stopping

(* What every end of the process does to the types. *)
LEMMA GoneTypes ==
  ASSUME TypeOK, Gone, unit' \in {"inactive", "starting"},
         faults' = faults \/ Fault
  PROVE  TypeOK'
<1>1. faults' \in 0..MaxFaults
  BY ProcessAssumption DEF TypeOK, Fault
<1>2. QED
  BY <1>1 DEF TypeOK, Gone, diskVars, Unarmed, Stopping

LEMMA EnvironmentTypes ==
  ASSUME TypeOK, Environment \/ UnitStarts PROVE TypeOK'
<1> USE DEF TypeOK, diskVars, stopVars, reqVars, Unarmed, Stopping
<1>1. CASE UnitStarts
  BY <1>1 DEF UnitStarts
<1>2. CASE OperatorStarts
  BY <1>2 DEF OperatorStarts
<1>3. CASE OperatorStops
  BY <1>3 DEF OperatorStops
<1>4. CASE SignalKills \/ Killed
  BY <1>4, GoneTypes DEF SignalKills, Killed, Ends
<1>5. ASSUME NEW f \in Files, Configure(f) PROVE TypeOK'
  BY <1>5 DEF Configure
<1>6. ASSUME NEW v \in Versions, Upgrade(v) PROVE TypeOK'
  BY <1>6 DEF Upgrade
<1>7. QED
  BY <1>1, <1>2, <1>3, <1>4, <1>5, <1>6 DEF Environment

LEMMA StartupTypes ==
  ASSUME TypeOK, Startup PROVE TypeOK'
<1> USE DEF TypeOK, diskVars, stopVars, reqVars, Unarmed, Stopping
<1>1. CASE LoadConfig
  BY <1>1, GoneTypes DEF LoadConfig, Ends
<1>2. CASE OpenDatabase
  BY <1>2, GoneTypes DEF OpenDatabase, Ends
<1>3. ASSUME NEW v \in Versions, MigrationSkipped(v) PROVE TypeOK'
  BY <1>3 DEF MigrationSkipped, NextFile
<1>4. ASSUME NEW v \in Versions, MigrationRuns(v) PROVE TypeOK'
  BY <1>4, GoneTypes DEF MigrationRuns, Ends
<1>5. ASSUME NEW v \in Versions, MigrationCommits(v) PROVE TypeOK'
  BY <1>5 DEF MigrationCommits, NextFile
<1>6. CASE MigrationsDone \/ BuildServer \/ Serve
  BY <1>6 DEF MigrationsDone, BuildServer, Serve, NotifyReady, StartServer, WaitForSignal
<1>7. QED
  BY <1>1, <1>2, <1>3, <1>4, <1>5, <1>6 DEF Startup, Build, Migrate

LEMMA ServingTypes ==
  ASSUME TypeOK,
         \/ Listen \/ Shutdown
         \/ \E r \in Requests : RequestArrives(r) \/ DispatchLeft(r) \/ RequestEnds(r)
  PROVE  TypeOK'
<1> USE DEF TypeOK, diskVars, stopVars, reqVars, Unarmed, Stopping
<1>1. CASE Listen
  BY <1>1, ProcessAssumption DEF Listen, Fault
<1>2. ASSUME NEW r \in Requests, RequestArrives(r) \/ DispatchLeft(r) \/ RequestEnds(r)
      PROVE  TypeOK'
  BY <1>2 DEF RequestArrives, DispatchLeft, RequestEnds
<1>3. CASE BeginShutdown
  BY <1>3 DEF BeginShutdown
<1>4. CASE Drained \/ GraceExpires \/ CloseDatabase
  BY <1>4 DEF Drained, GraceExpires, CloseDatabase
<1>5. CASE Exit
  BY <1>5, GoneTypes DEF Exit, Ends
<1>6. QED
  BY <1>1, <1>2, <1>3, <1>4, <1>5 DEF Shutdown

(* Every variable keeps its type: TypeOK of ServerProcess.  In particular  *)
(* there is a process exactly when systemd thinks there is one.            *)
THEOREM TypeCorrect == Spec => []TypeOK
<1>1. TypeOK /\ [Next]_vars => TypeOK'
  <2> SUFFICES ASSUME TypeOK, [Next]_vars PROVE TypeOK'
    OBVIOUS
  <2>1. CASE UNCHANGED vars
    BY <2>1 DEF vars, TypeOK, diskVars, stopVars, reqVars
  <2>2. QED
    BY <2>1, EnvironmentTypes, StartupTypes, ServingTypes DEF Next
<1>2. QED
  BY <1>1, InitTypes, PTL DEF Spec

-----------------------------------------------------------------------------
(* What has been listed and is no longer to do has been applied, from the  *)
(* listing until the process ends.                                         *)
ListedIsApplied ==
  /\ main \in {"migrate", "commit"} => found \ todo \subseteq applied
  /\ main \in {"build", "notify"} \/ Ready => found \subseteq applied

SchemaInv == tables = applied /\ ListedIsApplied

LEMMA SchemaInvariant == Spec => []SchemaInv
<1>1. Init => SchemaInv
  BY DEF Init, SchemaInv, ListedIsApplied, Ready
<1>2. SchemaInv /\ [Next]_vars => SchemaInv'
  <2> SUFFICES ASSUME SchemaInv, [Next]_vars PROVE SchemaInv'
    OBVIOUS
  <2> USE DEF SchemaInv, ListedIsApplied, Ready, diskVars, stopVars, reqVars
  <2>1. CASE Gone
    BY <2>1 DEF Gone
  <2>2. CASE UnitStarts \/ Environment
    BY <2>1, <2>2 DEF UnitStarts, Environment, OperatorStarts, OperatorStops, SignalKills,
       Killed, Ends, Configure, Upgrade
  <2>3. CASE LoadConfig \/ OpenDatabase
    BY <2>1, <2>3 DEF LoadConfig, OpenDatabase, Ends
  <2>4. ASSUME NEW v \in Versions,
               MigrationSkipped(v) \/ MigrationRuns(v) \/ MigrationCommits(v)
        PROVE  SchemaInv'
    BY <2>1, <2>4 DEF MigrationSkipped, MigrationRuns, MigrationCommits, Ends
  <2>5. CASE MigrationsDone \/ BuildServer \/ Serve
    BY <2>5 DEF MigrationsDone, BuildServer, Serve, NotifyReady, StartServer, WaitForSignal
  <2>6. CASE \/ Listen
             \/ \E r \in Requests : RequestArrives(r) \/ DispatchLeft(r) \/ RequestEnds(r)
    BY <2>6 DEF Listen, RequestArrives, DispatchLeft, RequestEnds
  <2>7. CASE Shutdown
    BY <2>1, <2>7 DEF Shutdown, BeginShutdown, Drained, GraceExpires, CloseDatabase,
       Exit, Ends
  <2>8. CASE UNCHANGED vars
    BY <2>8 DEF vars
  <2>9. QED
    BY <2>2, <2>3, <2>4, <2>5, <2>6, <2>7, <2>8 DEF Next, Startup, Build, Migrate
<1>3. QED
  BY <1>1, <1>2, PTL DEF Spec

(* The database agrees with its table of versions whenever the process is  *)
(* killed, and a server that says it is ready has applied every migration  *)
(* it found: SchemaSound.  That alone is not inductive: it needs the loop  *)
(* invariant of RunMigrations.                                             *)
THEOREM SchemaStaysSound == Spec => []SchemaSound
<1>1. SchemaInv => SchemaSound
  BY DEF SchemaInv, ListedIsApplied, SchemaSound
<1>2. QED
  BY <1>1, SchemaInvariant, PTL

-----------------------------------------------------------------------------
(* Between the check of schema_versions and the commit nothing but this    *)
(* process writes that table.                                              *)
CommitInv == main = "commit" => \A v \in Versions : NextFile(v) => v \notin applied

(* However often the process is killed and started: a migration commits    *)
(* only if it has never been committed (its row would violate the key of   *)
(* schema_versions), and after all earlier ones that were found with it.   *)
THEOREM MigrationsCommitOnce ==
  Spec => [][\A v \in Versions :
               MigrationCommits(v) =>
                 /\ v \notin applied
                 /\ \A w \in found : w < v => w \in applied]_vars
<1>1. Init => CommitInv
  BY DEF Init, CommitInv
<1>2. TypeOK /\ CommitInv /\ [Next]_vars => CommitInv'
  <2> SUFFICES ASSUME TypeOK, CommitInv, [Next]_vars, main' = "commit",
                      NEW w \in Versions, NextFile(w)'
               PROVE  w \notin applied'
    BY DEF CommitInv
  <2>1. CASE \E v \in Versions : MigrationRuns(v)
    <3>1. PICK v \in Versions : MigrationRuns(v)
      BY <2>1
    <3>2. NextFile(v) /\ v \notin applied /\ UNCHANGED <<todo, applied>>
      BY <3>1 DEF MigrationRuns, Ends, Gone, diskVars
    <3>3. w \in todo /\ v \in todo /\ w <= v /\ v <= w
      BY <3>2 DEF NextFile
    <3>4. v = w
      BY <3>3, ProcessAssumption
    <3>5. QED
      BY <3>2, <3>4
  <2>2. CASE UNCHANGED <<main, todo, applied>>
    BY <2>2 DEF CommitInv, NextFile
  <2>3. ASSUME ~\E v \in Versions : MigrationRuns(v) PROVE UNCHANGED <<main, todo, applied>>
    <3> USE DEF diskVars, Gone, Ends
    <3>1. CASE UnitStarts \/ Environment
      BY <3>1 DEF UnitStarts, Environment, OperatorStarts, OperatorStops, SignalKills,
         Killed, Configure, Upgrade
    <3>2. CASE Build
      BY <2>3, <3>2 DEF Build, LoadConfig, OpenDatabase, Migrate, MigrationSkipped,
         MigrationCommits, MigrationsDone, BuildServer
    <3>3. CASE Serve
      BY <3>3 DEF Serve, NotifyReady, StartServer, WaitForSignal
    <3>4. CASE \/ Listen
               \/ \E r \in Requests : RequestArrives(r) \/ DispatchLeft(r) \/ RequestEnds(r)
      BY <3>4 DEF Listen, RequestArrives, DispatchLeft, RequestEnds
    <3>5. CASE Shutdown
      BY <3>5 DEF Shutdown, BeginShutdown, Drained, GraceExpires, CloseDatabase, Exit
    <3>6. CASE UNCHANGED vars
      BY <3>6 DEF vars
    <3>7. QED
      BY <3>1, <3>2, <3>3, <3>4, <3>5, <3>6 DEF Next, Startup
  <2>4. QED
    BY <2>1, <2>2, <2>3
<1>3. ASSUME TypeOK, SchemaInv, CommitInv, NEW v \in Versions, MigrationCommits(v)
      PROVE  v \notin applied /\ \A w \in found : w < v => w \in applied
  <2>1. main = "commit" /\ NextFile(v)
    BY <1>3 DEF MigrationCommits
  <2>2. ASSUME NEW w \in found, w < v PROVE w \in applied
    <3>1. w \notin todo
      BY <1>3, <2>1, <2>2, ProcessAssumption DEF NextFile, TypeOK
    <3>2. QED
      BY <1>3, <2>1, <3>1 DEF SchemaInv, ListedIsApplied
  <2>3. QED
    BY <1>3, <2>1, <2>2 DEF CommitInv
<1>4. TypeOK /\ SchemaInv /\ CommitInv
        => [\A v \in Versions :
              MigrationCommits(v) =>
                /\ v \notin applied
                /\ \A w \in found : w < v => w \in applied]_vars
  BY <1>3
<1>5. QED
  BY <1>1, <1>2, <1>4, SchemaInvariant, TypeCorrect, PTL DEF Spec

-----------------------------------------------------------------------------
(* Requests come only through a listener, which Shutdown closes before it  *)
(* waits; and from the first request until Shutdown has waited for those   *)
(* the server tracks, the database is open.                                *)
Quiescent ==
  /\ main \notin {"arm", "select"} \cup Stopping => srv = "none" /\ req = {} /\ met = {}
  /\ main \in Stopping => srv # "listening"
OpenWhileServing ==
  main \in {"migrate", "commit", "build", "notify", "spawn", "arm", "select",
            "drain", "close"} => dbOpen
DrainedFirst == main \in {"close", "exit"} => req \subseteq Untracked \/ overrun
RequestInv == Quiescent /\ OpenWhileServing /\ DrainedFirst /\ RequestsKeepDatabase

(* A request that the server tracks never finds the database closed unless *)
(* it outlasted the ten seconds of a shutdown: RequestsKeepDatabase.       *)
THEOREM DatabaseOutlivesRequests == Spec => []RequestsKeepDatabase
<1>1. Init => RequestInv
  BY DEF Init, RequestInv, Quiescent, OpenWhileServing, DrainedFirst,
     RequestsKeepDatabase, Stopping
<1>2. TypeOK /\ RequestInv /\ [Next]_vars => RequestInv'
  <2> SUFFICES ASSUME TypeOK, RequestInv, [Next]_vars PROVE RequestInv'
    OBVIOUS
  <2> USE DEF RequestInv, Quiescent, OpenWhileServing, DrainedFirst,
          RequestsKeepDatabase, Stopping, diskVars, stopVars, reqVars
  <2>1. CASE Gone
    BY <2>1 DEF Gone
  <2>2. CASE UnitStarts
    BY <2>2 DEF UnitStarts, TypeOK
  <2>3. CASE Environment
    BY <2>1, <2>3 DEF Environment, OperatorStarts, OperatorStops, SignalKills,
       Killed, Ends, Configure, Upgrade
  <2>4. CASE LoadConfig \/ OpenDatabase
    BY <2>1, <2>4 DEF LoadConfig, OpenDatabase, Ends
  <2>5. ASSUME NEW v \in Versions,
               MigrationSkipped(v) \/ MigrationRuns(v) \/ MigrationCommits(v)
        PROVE  RequestInv'
    BY <2>1, <2>5 DEF MigrationSkipped, MigrationRuns, MigrationCommits, Ends
  <2>6. CASE MigrationsDone \/ BuildServer \/ Serve
    BY <2>6 DEF MigrationsDone, BuildServer, Serve, NotifyReady, StartServer, WaitForSignal
  <2>7. CASE Listen
    BY <2>7 DEF Listen
  <2>8. ASSUME NEW r \in Requests, RequestArrives(r) \/ DispatchLeft(r) PROVE RequestInv'
    BY <2>8 DEF RequestArrives, DispatchLeft, Untracked
  <2>9. ASSUME NEW r \in Requests, RequestEnds(r) PROVE RequestInv'
    <3>1. CASE dbOpen
      BY <2>9, <3>1 DEF RequestEnds
    <3>2. CASE ~dbOpen
      <4>1. main = "exit"
        BY <2>9, <3>2 DEF RequestEnds
      <4>2. r \in Untracked \/ overrun
        BY <2>9, <4>1 DEF RequestEnds
      <4>3. QED
        BY <2>9, <4>1, <4>2 DEF RequestEnds
    <3>3. QED
      BY <3>1, <3>2
  <2>10. CASE BeginShutdown \/ Drained \/ GraceExpires \/ CloseDatabase
    BY <2>10 DEF BeginShutdown, Drained, GraceExpires, CloseDatabase
  <2>11. CASE Exit
    BY <2>1, <2>11 DEF Exit, Ends
  <2>12. CASE UNCHANGED vars
    BY <2>12 DEF vars
  <2>13. QED
    BY <2>2, <2>3, <2>4, <2>5, <2>6, <2>7, <2>8, <2>9, <2>10, <2>11, <2>12
       DEF Next, Startup, Build, Migrate, Shutdown
<1>3. QED
  BY <1>1, <1>2, TypeCorrect, PTL DEF Spec, RequestInv
=============================================================================
