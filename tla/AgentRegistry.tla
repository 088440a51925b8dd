---------------------------- MODULE AgentRegistry ----------------------------
(***************************************************************************)
(* The life of agent connections: agentmanager.Manager (the in-memory map  *)
(* of connections and the online column of table agents) together with the *)
(* wsshub goroutines that drive it.                                        *)
(*                                                                         *)
(* Every accepted upgrade request is a session.  It runs two goroutines,   *)
(* the HTTP handler (which becomes the write loop and then unregisters)    *)
(* and the read loop; one more goroutine of the process is the heartbeat   *)
(* checker, and administrators' GetAgentCredentials requests rewrite the   *)
(* same table row.  The mutex of the Manager makes each critical section   *)
(* one action; the database write that follows a critical section runs     *)
(* outside the mutex and is an action of its own.                          *)
(***************************************************************************)
EXTENDS FiniteSets

CONSTANTS
  Agents,       \* agent identifiers, each with a row in table agents
  Sessions,     \* connections, each used once
  AgentOf,      \* session -> the agent_id in its query string
  Admins,       \* concurrent GetAgentCredentials requests
  NoSession,    \* "no entry" in Manager.conns, and the checker's idle value
  Environments  \* what may go wrong: overlap (an agent dials again while its
                \* last session lives on), crash (the process dies and systemd
                \* restarts it), fault (SetOnline fails: its error is dropped),
                \* rewrite (administrators ask for credentials)

ASSUME RegistryAssumption ==
  /\ AgentOf \in [Sessions -> Agents]
  /\ NoSession \notin Sessions

ASSUME EnvironmentAssumption ==
  Environments \subseteq
    [overlap : BOOLEAN, crash : BOOLEAN, fault : BOOLEAN, rewrite : BOOLEAN]

VARIABLES
  conns,        \* Manager.conns
  handler,      \* where the goroutine of HandleAgentWS is
  reader,       \* where the goroutine of readLoop is
  link,         \* the socket: up, silent (half open), down, or closed by
                \* AgentConnection.Close, which also closes closeCh
  fresh,        \* LastHeartbeat is less than heartbeatTimeout ago
  online,       \* agents.online in the database
  chkTodo,      \* snapshot entries checkHeartbeats has still to look at
  chkPc,        \* where checkHeartbeats is
  chkHit,       \* the session it found expired
  rmw,          \* rows read by GetAgentCredentials and not yet written back
  env           \* the environment of this behaviour

sessionVars == <<handler, reader, link, fresh>>
chkVars == <<chkTodo, chkPc, chkHit>>
vars == <<conns, sessionVars, online, chkVars, rmw, env>>

HandlerStates == {"idle", "accepted", "refused", "registered", "serving",
                  "leaving", "clearing", "done"}
Owning   == {"registered", "serving", "leaving"}
Retired  == {"idle", "refused", "done"}
NoRow    == <<>>

Closed(s) == link[s] = "closed"

Calm == [overlap |-> FALSE, crash |-> FALSE, fault |-> FALSE, rewrite |-> FALSE]

TypeOK ==
  /\ conns   \in [Agents -> Sessions \cup {NoSession}]
  /\ handler \in [Sessions -> HandlerStates]
  /\ reader  \in [Sessions -> {"none", "reading", "heartbeat", "exited"}]
  /\ link    \in [Sessions -> {"up", "silent", "down", "closed"}]
  /\ fresh   \in [Sessions -> BOOLEAN]
  /\ online  \in [Agents -> BOOLEAN]
  /\ chkTodo \subseteq Sessions
  /\ chkPc   \in {"idle", "scan", "expire", "clear"}
  /\ chkHit  \in Sessions \cup {NoSession}
  /\ chkPc \in {"expire", "clear"} => chkHit \in Sessions
  /\ rmw     \in [Admins -> {NoRow} \cup (Agents \X BOOLEAN)]
  /\ env     \in Environments

Init ==
  /\ conns   = [a \in Agents |-> NoSession]
  /\ handler = [s \in Sessions |-> "idle"]
  /\ reader  = [s \in Sessions |-> "none"]
  /\ link    = [s \in Sessions |-> "up"]
  /\ fresh   = [s \in Sessions |-> FALSE]
  /\ online  = [a \in Agents |-> FALSE]
  /\ chkTodo = {} /\ chkPc = "idle" /\ chkHit = NoSession
  /\ rmw     = [m \in Admins |-> NoRow]
  /\ env     \in Environments

-----------------------------------------------------------------------------
(* Nothing is in flight for agent a: no database write is owed, the checker *)
(* holds none of its sessions and no administrator holds its row.          *)
AgentQuiet(a) ==
  /\ \A s \in Sessions : AgentOf[s] = a =>
       /\ handler[s] \in Retired \cup {"serving"}
       /\ s \notin chkTodo
       /\ chkPc \in {"expire", "clear"} => chkHit # s
  /\ \A m \in Admins : rmw[m] # NoRow => rmw[m][1] # a

(* AgentRepo.SetOnline, whose callers discard the error. *)
SetOnline(a, v) ==
  \/ online' = [online EXCEPT ![a] = v]
  \/ env.fault /\ UNCHANGED online

(* AgentConnection.Close on the connection the map holds, if it holds one. *)
CloseCurrent(a) ==
  link' = [s \in Sessions |-> IF s = conns[a] THEN "closed" ELSE link[s]]

(* Mutant: the entry is closed but stays in the map. *)
UnregisterLockedKeepsEntry(a) ==
  CloseCurrent(a) /\ UNCHANGED conns

(* The critical section of Manager.Unregister: whatever connection the map *)
(* holds under this agent_id is closed and deleted.                        *)
UnregisterLocked(a) ==
  /\ CloseCurrent(a)
  /\ conns' = [conns EXCEPT ![a] = NoSession]

-----------------------------------------------------------------------------
(* HandleAgentWS: the token matches the row and the upgrade is accepted.   *)
Accept(s) ==
  /\ handler[s] = "idle"
  /\ \/ env.overlap
     \/ /\ AgentQuiet(AgentOf[s])
        /\ \A t \in Sessions : AgentOf[t] = AgentOf[s] => handler[t] \in Retired
  /\ handler' = [handler EXCEPT ![s] = "accepted"]
  /\ UNCHANGED <<conns, reader, link, fresh, online, chkVars, rmw, env>>

(* Writing auth_ok fails: the handler returns without registering. *)
HandshakeFails(s) ==
  /\ handler[s] = "accepted"
  /\ handler' = [handler EXCEPT ![s] = "refused"]
  /\ UNCHANGED <<conns, reader, link, fresh, online, chkVars, rmw, env>>

(* Mutant: the displaced connection is not closed. *)
RegisterLockedNoClose(s) ==
  /\ handler[s] = "accepted"
  /\ conns' = [conns EXCEPT ![AgentOf[s]] = s]
  /\ fresh' = [fresh EXCEPT ![s] = TRUE]
  /\ handler' = [handler EXCEPT ![s] = "registered"]
  /\ UNCHANGED <<reader, link, online, chkVars, rmw, env>>

(* The critical section of Manager.Register: the connection in the map, if *)
(* any, is closed and replaced, and the new one's heartbeat clock starts.  *)
RegisterLocked(s) ==
  LET a == AgentOf[s] IN
  /\ handler[s] = "accepted"
  /\ CloseCurrent(a)
  /\ conns' = [conns EXCEPT ![a] = s]
  /\ fresh' = [fresh EXCEPT ![s] = TRUE]
  /\ handler' = [handler EXCEPT ![s] = "registered"]
  /\ UNCHANGED <<reader, online, chkVars, rmw, env>>

(* The rest of Register writes online = 1, then both loops start. *)
StartLoops(s) ==
  /\ handler[s] = "registered"
  /\ SetOnline(AgentOf[s], TRUE)
  /\ handler' = [handler EXCEPT ![s] = "serving"]
  /\ reader' = [reader EXCEPT ![s] = "reading"]
  /\ UNCHANGED <<conns, link, fresh, chkVars, rmw, env>>

(* Mutant: writeLoop does not select on closeCh, only on the socket. *)
WriterIgnoresClose(s) ==
  /\ handler[s] = "serving" /\ link[s] = "down"
  /\ handler' = [handler EXCEPT ![s] = "leaving"]
  /\ UNCHANGED <<conns, reader, link, fresh, online, chkVars, rmw, env>>

(* writeLoop returns because closeCh is closed. *)
WriterSeesClose(s) ==
  /\ handler[s] = "serving" /\ Closed(s)
  /\ handler' = [handler EXCEPT ![s] = "leaving"]
  /\ UNCHANGED <<conns, reader, link, fresh, online, chkVars, rmw, env>>

(* writeLoop returns because a write failed or timed out; its deferred     *)
(* Close runs.                                                             *)
WriteFails(s) ==
  /\ handler[s] = "serving" /\ link[s] \in {"silent", "down"}
  /\ handler' = [handler EXCEPT ![s] = "leaving"]
  /\ link' = [link EXCEPT ![s] = "closed"]
  /\ UNCHANGED <<conns, reader, fresh, online, chkVars, rmw, env>>

(* After writeLoop the handler calls Unregister with its agent_id.  An     *)
(* agent that is not in the map owes no database write.                    *)
HandlerUnregister(s) ==
  LET a == AgentOf[s] IN
  /\ handler[s] = "leaving"
  /\ UnregisterLocked(a)
  /\ handler' = [handler EXCEPT ![s] =
                   IF conns[a] = NoSession THEN "done" ELSE "clearing"]
  /\ UNCHANGED <<reader, fresh, online, chkVars, rmw, env>>

(* Mutant: Unregister leaves the online column as it is. *)
HandlerForgetsOffline(s) ==
  /\ handler[s] = "clearing"
  /\ handler' = [handler EXCEPT ![s] = "done"]
  /\ UNCHANGED <<conns, reader, link, fresh, online, chkVars, rmw, env>>

(* SetOnline(false), outside the mutex. *)
HandlerSetOffline(s) ==
  /\ handler[s] = "clearing"
  /\ SetOnline(AgentOf[s], FALSE)
  /\ handler' = [handler EXCEPT ![s] = "done"]
  /\ UNCHANGED <<conns, reader, link, fresh, chkVars, rmw, env>>

-----------------------------------------------------------------------------
(* readLoop takes a heartbeat message off the socket ... *)
ReadHeartbeat(s) ==
  /\ reader[s] = "reading" /\ link[s] = "up"
  /\ reader' = [reader EXCEPT ![s] = "heartbeat"]
  /\ UNCHANGED <<conns, handler, link, fresh, online, chkVars, rmw, env>>

(* Mutant: a heartbeat puts its own session back into the map. *)
HeartbeatReattaches(s) ==
  /\ reader[s] = "heartbeat"
  /\ reader' = [reader EXCEPT ![s] = "reading"]
  /\ conns' = [conns EXCEPT ![AgentOf[s]] = s]
  /\ UNCHANGED <<handler, link, fresh, online, chkVars, rmw, env>>

(* ... and UpdateHeartbeat refreshes the connection the map holds under    *)
(* this agent_id now, which may be a newer one.                            *)
UpdateHeartbeat(s) ==
  /\ reader[s] = "heartbeat"
  /\ reader' = [reader EXCEPT ![s] = "reading"]
  /\ fresh' = [t \in Sessions |-> fresh[t] \/ t = conns[AgentOf[s]]]
  /\ UNCHANGED <<conns, handler, link, online, chkVars, rmw, env>>

(* Read returns an error: the socket was closed here or by the peer. *)
ReaderExit(s) ==
  /\ reader[s] = "reading" /\ link[s] \in {"down", "closed"}
  /\ reader' = [reader EXCEPT ![s] = "exited"]
  /\ link' = [link EXCEPT ![s] = "closed"]
  /\ UNCHANGED <<conns, handler, fresh, online, chkVars, rmw, env>>

-----------------------------------------------------------------------------
(* checkHeartbeats takes `now` and the list of connections.  One that is   *)
(* fresh at `now` can only become fresher, so only the others matter.      *)
CheckerTick ==
  /\ chkPc = "idle"
  /\ chkPc' = "scan"
  /\ chkTodo' = {s \in Sessions : conns[AgentOf[s]] = s /\ ~fresh[s]}
  /\ UNCHANGED <<conns, sessionVars, online, chkHit, rmw, env>>

(* Mutant: an expired entry is found but not remembered. *)
InspectForgetsHit(s) ==
  /\ chkPc = "scan" /\ s \in chkTodo
  /\ chkTodo' = chkTodo \ {s}
  /\ chkPc' = IF fresh[s] THEN chkPc ELSE "expire"
  /\ UNCHANGED <<conns, sessionVars, online, chkHit, rmw, env>>

(* Mutant: the comparison with heartbeatTimeout never succeeds. *)
InspectNeverExpires(s) ==
  /\ chkPc = "scan" /\ s \in chkTodo
  /\ chkTodo' = chkTodo \ {s}
  /\ UNCHANGED <<conns, sessionVars, online, chkPc, chkHit, rmw, env>>

(* It reads LastHeartbeat of the next entry without the mutex. *)
CheckerInspect(s) ==
  /\ chkPc = "scan" /\ s \in chkTodo
  /\ chkTodo' = chkTodo \ {s}
  /\ IF fresh[s]
       THEN UNCHANGED <<chkPc, chkHit>>
       ELSE chkPc' = "expire" /\ chkHit' = s
  /\ UNCHANGED <<conns, sessionVars, online, rmw, env>>

(* It unregisters the agent_id of that entry. *)
CheckerUnregister ==
  LET a == AgentOf[chkHit] IN
  /\ chkPc = "expire"
  /\ UnregisterLocked(a)
  /\ chkPc' = IF conns[a] = NoSession THEN "scan" ELSE "clear"
  /\ UNCHANGED <<handler, reader, fresh, online, chkTodo, chkHit, rmw, env>>

CheckerSetOffline ==
  /\ chkPc = "clear"
  /\ SetOnline(AgentOf[chkHit], FALSE)
  /\ chkPc' = "scan"
  /\ UNCHANGED <<conns, sessionVars, chkTodo, chkHit, rmw, env>>

CheckerDone ==
  /\ chkPc = "scan" /\ chkTodo = {}
  /\ chkPc' = "idle" /\ chkHit' = NoSession
  /\ UNCHANGED <<conns, sessionVars, online, chkTodo, rmw, env>>

-----------------------------------------------------------------------------
(* GetAgentCredentials reads the agent's row ... *)
CredentialsRead(m, a) ==
  /\ env.rewrite /\ rmw[m] = NoRow
  /\ rmw' = [rmw EXCEPT ![m] = <<a, online[a]>>]
  /\ UNCHANGED <<conns, sessionVars, online, chkVars, env>>

(* ... and writes every column of it back with the new token. *)
CredentialsWrite(m) ==
  /\ rmw[m] # NoRow
  /\ online' = [online EXCEPT ![rmw[m][1]] = rmw[m][2]]
  /\ rmw' = [rmw EXCEPT ![m] = NoRow]
  /\ UNCHANGED <<conns, sessionVars, chkVars, env>>

-----------------------------------------------------------------------------
(* The environment: the path of an open connection degrades, and time      *)
(* passes without a heartbeat.  A session expires only once it serves (the *)
(* write before its loops start is bounded by the 5 s busy timeout) and    *)
(* while it is in the map, and a pass of the checker is shorter than the   *)
(* 90 s an entry it has seen refreshed would need to expire again.         *)
PathDegrades(s) ==
  /\ handler[s] \notin Retired /\ link[s] \in {"up", "silent"}
  /\ \E l \in {"silent", "down"} : link' = [link EXCEPT ![s] = l]
  /\ UNCHANGED <<conns, handler, reader, fresh, online, chkVars, rmw, env>>

Expire(s) ==
  /\ fresh[s] /\ handler[s] \in {"serving", "leaving"}
  /\ conns[AgentOf[s]] = s /\ s \notin chkTodo
  /\ fresh' = [fresh EXCEPT ![s] = FALSE]
  /\ UNCHANGED <<conns, handler, reader, link, online, chkVars, rmw, env>>

(* The process dies (or is stopped: App.Shutdown does not wait for the     *)
(* hijacked connections) and starts again with an empty map.  Nothing      *)
(* resets the online column.                                               *)
Crash ==
  /\ env.crash
  /\ conns' = [a \in Agents |-> NoSession]
  /\ handler' = [s \in Sessions |->
                   CASE handler[s] = "idle" -> "idle"
                     [] handler[s] \in {"accepted", "refused"} -> "refused"
                     [] OTHER -> "done"]
  /\ reader' = [s \in Sessions |-> IF reader[s] = "none" THEN "none" ELSE "exited"]
  /\ link' = [s \in Sessions |-> IF handler[s] = "idle" THEN link[s] ELSE "closed"]
  /\ chkTodo' = {} /\ chkPc' = "idle" /\ chkHit' = NoSession
  /\ rmw' = [m \in Admins |-> NoRow]
  /\ UNCHANGED <<fresh, online, env>>

-----------------------------------------------------------------------------
SessionStep(s) ==
  \/ Accept(s) \/ HandshakeFails(s) \/ RegisterLocked(s) \/ StartLoops(s)
  \/ WriterSeesClose(s) \/ WriteFails(s)
  \/ HandlerUnregister(s) \/ HandlerSetOffline(s)
  \/ ReadHeartbeat(s) \/ UpdateHeartbeat(s) \/ ReaderExit(s)
  \/ PathDegrades(s) \/ Expire(s)

CheckerStep ==
  \/ CheckerTick \/ (\E s \in Sessions : CheckerInspect(s))
  \/ CheckerUnregister \/ CheckerSetOffline \/ CheckerDone

CredentialsStep ==
  \E m \in Admins : CredentialsWrite(m) \/ \E a \in Agents : CredentialsRead(m, a)

Next ==
  \/ \E s \in Sessions : SessionStep(s)
  \/ CheckerStep
  \/ CredentialsStep
  \/ Crash

Spec == Init /\ [][Next]_vars

(* Goroutines that can run do run, the ticker fires, and a half-open       *)
(* connection brings no heartbeat, so its clock runs out.                  *)
Fairness ==
  /\ \A s \in Sessions :
       /\ WF_vars(RegisterLocked(s) \/ StartLoops(s))
       /\ WF_vars(WriterSeesClose(s) \/ HandlerUnregister(s) \/ HandlerSetOffline(s))
       /\ WF_vars(UpdateHeartbeat(s) \/ ReaderExit(s))
       /\ WF_vars(link[s] # "up" /\ Expire(s))
  /\ WF_vars(CheckerStep)

FairSpec == Spec /\ Fairness
-----------------------------------------------------------------------------
(* A connection in the map belongs to that agent and has a handler that    *)
(* has yet to unregister it: no entry is left behind by goroutines that    *)
(* are gone, although handlers and the checker unregister by agent_id.     *)
RegisteredHasHandler ==
  \A a \in Agents : conns[a] # NoSession =>
    AgentOf[conns[a]] = a /\ handler[conns[a]] \in Owning

(* A session that is still running but has lost its place in the map was   *)
(* closed by whoever took the place away, so both of its loops will stop.  *)
DisplacedIsClosed ==
  \A s \in Sessions :
    handler[s] \in Owning /\ conns[AgentOf[s]] # s => Closed(s)

(* When nothing is in flight for an agent, its online column says whether  *)
(* it is in the map, in whatever order the writes that follow the critical *)
(* sections of its handlers and of the checker arrive, unless an overlap,  *)
(* a failed write or a credential request went between them.  A crash      *)
(* breaks only one half of this: the column of an agent that was connected *)
(* stays TRUE (nothing resets it at start), and never says FALSE of an     *)
(* agent that is back.                                                     *)
FlagSettled ==
  ~(env.overlap \/ env.fault \/ env.rewrite) =>
    \A a \in Agents : AgentQuiet(a) =>
      /\ conns[a] # NoSession => online[a]
      /\ ~env.crash /\ online[a] => conns[a] # NoSession

(* The server closes a connection that is up and has a recent heartbeat    *)
(* only when the same agent has registered a newer one (README.md:135, a   *)
(* connection is given 90 s without a heartbeat).                          *)
LiveSessionKept ==
  [][\A s \in Sessions :
       link'[s] = "closed" /\ link[s] = "up" /\ fresh[s] =>
         \/ conns'[AgentOf[s]] \notin {s, NoSession}
         \/ handler'[s] = "done"]_vars

(* A connection whose peer went silent does not stay registered for ever:  *)
(* the checker, or a failed write, removes it.                             *)
SilentIsEvicted ==
  \A s \in Sessions :
    (conns[AgentOf[s]] = s /\ link[s] = "silent") ~> conns[AgentOf[s]] # s

(* Once a session is closed both of its goroutines end. *)
ClosedSessionEnds ==
  \A s \in Sessions :
    Closed(s) ~> handler[s] \in Retired /\ reader[s] # "reading"

(* The registry implements the abstract connection table. *)
Link == INSTANCE AgentLink WITH
  current <- conns,
  spent <- {s \in Sessions : handler[s] \notin {"idle", "accepted", "refused"}}
ImplementsLink == Link!Spec
=============================================================================
