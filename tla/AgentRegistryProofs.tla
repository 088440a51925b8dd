------------------------- MODULE AgentRegistryProofs -------------------------
(***************************************************************************)
(* Proofs about AgentRegistry for any number of agents and sessions and    *)
(* any environment: type correctness, the two safety invariants of the     *)
(* connection map, the implementation of AgentLink and what follows from   *)
(* it, and, for agents that dial one session at a time, that the online    *)
(* column settles and that live connections are kept.                      *)
(***************************************************************************)
EXTENDS AgentRegistry, TLAPS

(* Every variable keeps its type: TypeOK of AgentRegistry.  In particular  *)
(* the checker always has a session in hand when it unregisters.           *)
THEOREM TypeCorrect == Spec => []TypeOK
<1>1. Init => TypeOK
  BY RegistryAssumption DEF Init, TypeOK, HandlerStates, NoRow
<1>2. TypeOK /\ [Next]_vars => TypeOK'
  <2> SUFFICES ASSUME TypeOK, [Next]_vars PROVE TypeOK'
    OBVIOUS
  <2> USE RegistryAssumption DEF TypeOK, HandlerStates, chkVars
  <2>1. ASSUME NEW s \in Sessions, Accept(s) \/ HandshakeFails(s) PROVE TypeOK'
    BY <2>1 DEF Accept, HandshakeFails
  <2>2. ASSUME NEW s \in Sessions, RegisterLocked(s) PROVE TypeOK'
    BY <2>2 DEF RegisterLocked, CloseCurrent
  <2>3. ASSUME NEW s \in Sessions, StartLoops(s) PROVE TypeOK'
    BY <2>3 DEF StartLoops, SetOnline
  <2>4. ASSUME NEW s \in Sessions, WriterSeesClose(s) \/ WriteFails(s) PROVE TypeOK'
    BY <2>4 DEF WriterSeesClose, WriteFails
  <2>5. ASSUME NEW s \in Sessions, HandlerUnregister(s) PROVE TypeOK'
    BY <2>5 DEF HandlerUnregister, UnregisterLocked, CloseCurrent
  <2>6. ASSUME NEW s \in Sessions, HandlerSetOffline(s) PROVE TypeOK'
    BY <2>6 DEF HandlerSetOffline, SetOnline
  <2>7. ASSUME NEW s \in Sessions,
               ReadHeartbeat(s) \/ UpdateHeartbeat(s) \/ ReaderExit(s)
        PROVE TypeOK'
    <3>1. CASE ReadHeartbeat(s)
      BY <3>1 DEF ReadHeartbeat
    <3>2. CASE UpdateHeartbeat(s)
      BY <3>2 DEF UpdateHeartbeat
    <3>3. CASE ReaderExit(s)
      BY <3>3 DEF ReaderExit
    <3>4. QED
      BY <2>7, <3>1, <3>2, <3>3
  <2>8. ASSUME NEW s \in Sessions, PathDegrades(s) \/ Expire(s) PROVE TypeOK'
    <3>1. CASE PathDegrades(s)
      <4>1. PICK l \in {"silent", "down"} : link' = [link EXCEPT ![s] = l]
        BY <3>1 DEF PathDegrades
      <4>2. QED
        BY <3>1, <4>1 DEF PathDegrades
    <3>2. CASE Expire(s)
      BY <3>2 DEF Expire
    <3>3. QED
      BY <2>8, <3>1, <3>2
  <2>9. ASSUME CheckerTick \/ CheckerDone PROVE TypeOK'
    BY <2>9 DEF CheckerTick, CheckerDone, sessionVars
  <2>10. ASSUME NEW s \in Sessions, CheckerInspect(s) PROVE TypeOK'
    BY <2>10 DEF CheckerInspect, sessionVars
  <2>11. ASSUME CheckerUnregister PROVE TypeOK'
    BY <2>11 DEF CheckerUnregister, UnregisterLocked, CloseCurrent
  <2>12. ASSUME CheckerSetOffline PROVE TypeOK'
    BY <2>12 DEF CheckerSetOffline, SetOnline, sessionVars
  <2>13. ASSUME NEW m \in Admins, NEW a \in Agents, CredentialsRead(m, a) PROVE TypeOK'
    BY <2>13 DEF CredentialsRead, sessionVars
  <2>14. ASSUME NEW m \in Admins, CredentialsWrite(m) PROVE TypeOK'
    BY <2>14 DEF CredentialsWrite, sessionVars, NoRow
  <2>15. CASE Crash
    BY <2>15 DEF Crash, NoRow
  <2>16. CASE UNCHANGED vars
    BY <2>16 DEF vars, sessionVars
  <2>17. QED
    BY <2>1, <2>2, <2>3, <2>4, <2>5, <2>6, <2>7, <2>8, <2>9, <2>10, <2>11,
       <2>12, <2>13, <2>14, <2>15, <2>16
       DEF Next, SessionStep, CheckerStep, CredentialsStep
<1>3. QED
  BY <1>1, <1>2, PTL DEF Spec

-----------------------------------------------------------------------------
(* The two facts about the map hold together: a handler that unregisters   *)
(* its agent_id removes its own entry or a newer one, and whichever entry  *)
(* goes was closed, so neither fact is inductive without the other's view  *)
(* of who still owns a place.                                              *)
MapInv == RegisteredHasHandler /\ DisplacedIsClosed

(* The actions that touch neither the map nor a handler's right to it.     *)
LEMMA MapUntouched ==
  ASSUME TypeOK, MapInv, UNCHANGED conns,
         \A s \in Sessions : handler'[s] \in Owning <=> handler[s] \in Owning,
         \A s \in Sessions : Closed(s) => Closed(s)'
  PROVE  MapInv'
<1>1. RegisteredHasHandler'
  BY RegistryAssumption DEF TypeOK, MapInv, RegisteredHasHandler
<1>2. DisplacedIsClosed'
  BY DEF MapInv, DisplacedIsClosed
<1>3. QED
  BY <1>1, <1>2 DEF MapInv

(* Unregister's critical section, run by a goroutine for agent a, keeps    *)
(* both facts if the handlers of other agents' sessions keep their rights  *)
(* and no handler gains one.                                               *)
LEMMA UnregisterKeepsMap ==
  ASSUME TypeOK, MapInv, NEW a \in Agents, UnregisterLocked(a),
         \A s \in Sessions : handler'[s] \in Owning => handler[s] \in Owning,
         \A s \in Sessions :
           AgentOf[s] # a => (handler'[s] \in Owning <=> handler[s] \in Owning)
  PROVE  MapInv'
<1> USE RegistryAssumption
      DEF TypeOK, MapInv, UnregisterLocked, CloseCurrent, Closed
<1>1. RegisteredHasHandler'
  BY DEF RegisteredHasHandler
<1>2. DisplacedIsClosed'
  <2> SUFFICES ASSUME NEW s \in Sessions, handler'[s] \in Owning,
                      conns'[AgentOf[s]] # s
               PROVE  link'[s] = "closed"
    BY DEF DisplacedIsClosed
  <2>1. CASE s = conns[a]
    BY <2>1
  <2>2. CASE s # conns[a]
    <3>1. conns[AgentOf[s]] # s
      BY <2>2
    <3>2. link[s] = "closed"
      BY <3>1 DEF DisplacedIsClosed
    <3>3. QED
      BY <2>2, <3>2
  <2>3. QED
    BY <2>1, <2>2
<1>3. QED
  BY <1>1, <1>2

LEMMA MapStep == TypeOK /\ MapInv /\ [Next]_vars => MapInv'
<1> SUFFICES ASSUME TypeOK, MapInv, [Next]_vars PROVE MapInv'
  OBVIOUS
<1> USE RegistryAssumption DEF Owning, Closed
<1>1. ASSUME NEW s \in Sessions,
             Accept(s) \/ HandshakeFails(s) \/ StartLoops(s) \/ WriterSeesClose(s)
      PROVE  MapInv'
  BY <1>1, MapUntouched
     DEF TypeOK, Accept, HandshakeFails, StartLoops, WriterSeesClose
<1>2. ASSUME NEW s \in Sessions, WriteFails(s) \/ HandlerSetOffline(s)
      PROVE  MapInv'
  BY <1>2, MapUntouched DEF TypeOK, WriteFails, HandlerSetOffline
<1>3. ASSUME NEW s \in Sessions,
             ReadHeartbeat(s) \/ UpdateHeartbeat(s) \/ ReaderExit(s) \/ Expire(s)
      PROVE  MapInv'
  BY <1>3, MapUntouched
     DEF TypeOK, ReadHeartbeat, UpdateHeartbeat, ReaderExit, Expire
<1>4. ASSUME NEW s \in Sessions, PathDegrades(s) PROVE MapInv'
  BY <1>4, MapUntouched DEF TypeOK, PathDegrades
<1>5. ASSUME NEW s \in Sessions, RegisterLocked(s) PROVE MapInv'
  <2> USE <1>5 DEF TypeOK, MapInv, RegisterLocked, CloseCurrent
  <2>1. RegisteredHasHandler'
    BY DEF RegisteredHasHandler
  <2>2. DisplacedIsClosed'
    BY DEF DisplacedIsClosed
  <2>3. QED
    BY <2>1, <2>2
<1>6. ASSUME NEW s \in Sessions, HandlerUnregister(s) PROVE MapInv'
  BY <1>6, UnregisterKeepsMap DEF TypeOK, HandlerUnregister
<1>7. CASE CheckerUnregister
  <2>1. AgentOf[chkHit] \in Agents
    BY <1>7 DEF TypeOK, CheckerUnregister
  <2>2. QED
    BY <1>7, <2>1, UnregisterKeepsMap DEF CheckerUnregister
<1>8. ASSUME CheckerTick \/ CheckerSetOffline \/ CheckerDone
             \/ \E s \in Sessions : CheckerInspect(s)
      PROVE  MapInv'
  BY <1>8, MapUntouched
     DEF CheckerTick, CheckerSetOffline, CheckerDone, CheckerInspect, sessionVars
<1>9. CASE CredentialsStep
  BY <1>9, MapUntouched
     DEF CredentialsStep, CredentialsRead, CredentialsWrite, sessionVars
<1>10. CASE Crash
  BY <1>10 DEF Crash, TypeOK, MapInv, RegisteredHasHandler, DisplacedIsClosed
<1>11. CASE UNCHANGED vars
  BY <1>11, MapUntouched DEF vars, sessionVars
<1>12. QED
  BY <1>1, <1>2, <1>3, <1>4, <1>5, <1>6, <1>7, <1>8, <1>9, <1>10, <1>11
     DEF Next, SessionStep, CheckerStep

LEMMA MapCorrect == Spec => []MapInv
<1>1. Init => MapInv
  BY RegistryAssumption
     DEF Init, MapInv, RegisteredHasHandler, DisplacedIsClosed, Owning
<1>2. QED
  BY <1>1, MapStep, TypeCorrect, PTL DEF Spec

(* No entry of Manager.conns outlives the handler that will remove it,     *)
(* whatever overlap, crash, failed write or checker pass happens.          *)
THEOREM RegisteredHasHandlerAlways == Spec => []RegisteredHasHandler
<1>1. MapInv => RegisteredHasHandler
  BY DEF MapInv
<1>2. QED
  BY <1>1, MapCorrect, PTL

(* A session that has lost its place in Manager.conns is closed, so its    *)
(* write loop and its read loop will return.                               *)
THEOREM DisplacedIsClosedAlways == Spec => []DisplacedIsClosed
<1>1. MapInv => DisplacedIsClosed
  BY DEF MapInv
<1>2. QED
  BY <1>1, MapCorrect, PTL

(* However often an agent dials, at most one of its sessions is being      *)
(* served and not closed.                                                  *)
OpenSession(s) == handler[s] \in Owning /\ ~Closed(s)
OneOpen ==
  \A s, t \in Sessions :
    AgentOf[s] = AgentOf[t] /\ OpenSession(s) /\ OpenSession(t) => s = t

THEOREM OneOpenSession == Spec => []OneOpen
<1>1. MapInv => OneOpen
  BY DEF MapInv, DisplacedIsClosed, OneOpen, OpenSession
<1>2. QED
  BY <1>1, MapCorrect, PTL

-----------------------------------------------------------------------------
(* The sessions that have held a place, as AgentLink sees them. *)
Spent == {s \in Sessions : handler[s] \notin {"idle", "accepted", "refused"}}

(* Steps that change neither the map nor the set of spent sessions are     *)
(* stuttering steps of AgentLink.                                          *)
LEMMA LinkStutter ==
  ASSUME UNCHANGED conns,
         \A s \in Sessions :
           handler'[s] \in {"idle", "accepted", "refused"} <=>
           handler[s] \in {"idle", "accepted", "refused"}
  PROVE  UNCHANGED Link!vars
BY DEF Link!vars

(* Every critical section of the Manager is one step of AgentLink, and     *)
(* every other step leaves the table alone.                                *)
LEMMA LinkStep == TypeOK /\ [Next]_vars => [Link!Next]_Link!vars
<1> SUFFICES ASSUME TypeOK, [Next]_vars PROVE Link!Next \/ UNCHANGED Link!vars
  OBVIOUS
<1> USE RegistryAssumption
<1>1. ASSUME NEW s \in Sessions, RegisterLocked(s) PROVE Link!Next
  <2>1. Link!Attach(s)
    BY <1>1 DEF TypeOK, RegisterLocked, Link!Attach
  <2>2. QED
    BY <2>1 DEF Link!Next
<1>2. ASSUME NEW s \in Sessions, HandlerUnregister(s)
      PROVE  Link!Next \/ UNCHANGED Link!vars
  <2>1. UNCHANGED Spent
    BY <1>2 DEF TypeOK, HandlerUnregister, Spent
  <2>2. CASE conns[AgentOf[s]] = NoSession
    BY <1>2, <2>1, <2>2
       DEF TypeOK, HandlerUnregister, UnregisterLocked, Link!vars, Spent
  <2>3. CASE conns[AgentOf[s]] # NoSession
    <3>1. Link!Detach(AgentOf[s])
      BY <1>2, <2>1, <2>3 DEF HandlerUnregister, UnregisterLocked, Link!Detach, Spent
    <3>2. QED
      BY <3>1 DEF Link!Next
  <2>4. QED
    BY <2>2, <2>3
<1>3. CASE CheckerUnregister
  <2>1. AgentOf[chkHit] \in Agents /\ UNCHANGED Spent
    BY <1>3 DEF TypeOK, CheckerUnregister, Spent
  <2>2. CASE conns[AgentOf[chkHit]] = NoSession
    BY <1>3, <2>1, <2>2
       DEF TypeOK, CheckerUnregister, UnregisterLocked, Link!vars, Spent
  <2>3. CASE conns[AgentOf[chkHit]] # NoSession
    <3>1. Link!Detach(AgentOf[chkHit])
      BY <1>3, <2>1, <2>3 DEF CheckerUnregister, UnregisterLocked, Link!Detach, Spent
    <3>2. QED
      BY <2>1, <3>1 DEF Link!Next
  <2>4. QED
    BY <2>2, <2>3
<1>4. CASE Crash
  <2>1. Link!DetachAll
    BY <1>4 DEF TypeOK, HandlerStates, Crash, Link!DetachAll
  <2>2. QED
    BY <2>1 DEF Link!Next
<1>5. ASSUME NEW s \in Sessions,
             Accept(s) \/ HandshakeFails(s) \/ StartLoops(s)
               \/ WriterSeesClose(s) \/ WriteFails(s) \/ HandlerSetOffline(s)
      PROVE  UNCHANGED Link!vars
  BY <1>5, LinkStutter
     DEF TypeOK, Accept, HandshakeFails, StartLoops, WriterSeesClose, WriteFails,
         HandlerSetOffline
<1>6. ASSUME NEW s \in Sessions,
             ReadHeartbeat(s) \/ UpdateHeartbeat(s) \/ ReaderExit(s)
               \/ PathDegrades(s) \/ Expire(s)
      PROVE  UNCHANGED Link!vars
  BY <1>6, LinkStutter
     DEF ReadHeartbeat, UpdateHeartbeat, ReaderExit, PathDegrades, Expire
<1>7. ASSUME CheckerTick \/ CheckerSetOffline \/ CheckerDone
             \/ (\E s \in Sessions : CheckerInspect(s)) \/ CredentialsStep
      PROVE  UNCHANGED Link!vars
  BY <1>7, LinkStutter
     DEF CheckerTick, CheckerSetOffline, CheckerDone, CheckerInspect,
         CredentialsStep, CredentialsRead, CredentialsWrite, sessionVars
<1>8. CASE UNCHANGED vars
  BY <1>8, LinkStutter DEF vars, sessionVars
<1>9. QED
  BY <1>1, <1>2, <1>3, <1>4, <1>5, <1>6, <1>7, <1>8
     DEF Next, SessionStep, CheckerStep

(* Manager.Register and Manager.Unregister implement AgentLink: a          *)
(* connection holds its agent's place at most once and nothing else        *)
(* changes the table, with overlap, crashes and failed writes.             *)
THEOREM LinkImplemented == Spec => ImplementsLink
<1>1. Init => Link!Init
  BY DEF Init, Link!Init
<1>2. QED
  BY <1>1, LinkStep, TypeCorrect, PTL DEF Spec, ImplementsLink, Link!Spec

(* What AgentLink promises its clients: a connection that has lost its     *)
(* place in Manager.conns never gets it back, whoever took it and however  *)
(* late its own goroutines act.                                            *)
THEOREM PlaceNeverRegained ==
  Spec => [][\A s \in Spent : conns[AgentOf[s]] # s => conns'[AgentOf[s]] # s]_vars
<1>1. TypeOK /\ [Next]_vars
        => [\A s \in Spent : conns[AgentOf[s]] # s => conns'[AgentOf[s]] # s]_vars
  <2> SUFFICES ASSUME TypeOK, [Next]_vars, NEW s \in Spent, conns[AgentOf[s]] # s
               PROVE  conns'[AgentOf[s]] # s
    OBVIOUS
  <2> USE RegistryAssumption DEF TypeOK
  <2>1. s \in Sessions /\ s # NoSession
    BY DEF Spent
  <2>2. ASSUME NEW t \in Sessions, Link!Attach(t) PROVE conns'[AgentOf[s]] # s
    <3>1. t # s
      BY <2>2 DEF Link!Attach, Spent
    <3>2. QED
      BY <2>1, <2>2, <3>1 DEF Link!Attach
  <2>3. ASSUME (\E a \in Agents : Link!Detach(a)) \/ Link!DetachAll
        PROVE  conns'[AgentOf[s]] # s
    BY <2>1, <2>3 DEF Link!Detach, Link!DetachAll
  <2>4. CASE UNCHANGED Link!vars
    BY <2>4 DEF Link!vars
  <2>5. QED
    BY <2>2, <2>3, <2>4, LinkStep DEF Link!Next
<1>2. QED
  BY <1>1, TypeCorrect, PTL DEF Spec
-----------------------------------------------------------------------------
(* The online column when nothing but a crash goes wrong.  A session that  *)
(* is accepted finds its agent's other sessions gone and the checker       *)
(* elsewhere, so the writes of two owners of the column never cross: while *)
(* one is owed, the map says what it will write.  A crash forgets the      *)
(* writes that were owed along with the map, so it can only leave the      *)
(* column TRUE.                                                            *)
CrashAtMost == ~(env.overlap \/ env.fault \/ env.rewrite)
Mine(a) == {s \in Sessions : AgentOf[s] = a}
Unheld(a) ==
  \A s \in Mine(a) : s \notin chkTodo /\ (chkPc \in {"expire", "clear"} => chkHit # s)
OffOwed(a) ==
  \/ \E s \in Mine(a) : handler[s] = "clearing"
  \/ chkPc = "clear" /\ AgentOf[chkHit] = a
OnOwed(a) == \E s \in Mine(a) : handler[s] = "registered"

OneAtATime(a) ==
  \A s, t \in Mine(a) : handler[s] \notin Retired /\ handler[t] \notin Retired => s = t
Arriving(a) ==
  \A s \in Mine(a) :
    /\ handler[s] \in {"accepted", "registered"} => Unheld(a)
    /\ handler[s] = "accepted" => conns[a] = NoSession
    /\ handler[s] = "registered" => conns[a] = s /\ fresh[s]
FlagFollows(a) ==
  /\ OffOwed(a) => conns[a] = NoSession
  /\ ~OffOwed(a) /\ ~OnOwed(a) =>
       /\ conns[a] # NoSession => online[a]
       /\ ~env.crash /\ online[a] => conns[a] # NoSession
NoRewrite == \A m \in Admins : rmw[m] = NoRow
FlagInv ==
  CrashAtMost =>
    NoRewrite /\ \A a \in Agents : OneAtATime(a) /\ Arriving(a) /\ FlagFollows(a)

(* What a step has to show for one agent. *)
AgentFlag(a) == OneAtATime(a) /\ Arriving(a) /\ FlagFollows(a)

(* A step that leaves an agent's handlers, its place in the map and its    *)
(* column, and gives the checker none of its sessions.                     *)
LEMMA FlagUntouched ==
  ASSUME NEW a \in Agents, AgentFlag(a), env' = env, conns'[a] = conns[a],
         online'[a] = online[a], \A s \in Mine(a) : handler'[s] = handler[s],
         \A s \in Mine(a) : fresh[s] => fresh'[s] \/ handler[s] # "registered",
         Unheld(a) => Unheld(a)',
         (chkPc = "clear" /\ AgentOf[chkHit] = a)' <=> (chkPc = "clear" /\ AgentOf[chkHit] = a)
  PROVE  AgentFlag(a)'
<1>1. Mine(a)' = Mine(a) /\ (OffOwed(a)' <=> OffOwed(a)) /\ (OnOwed(a)' <=> OnOwed(a))
  BY DEF Mine, OffOwed, OnOwed
<1>2. OneAtATime(a)'
  BY <1>1 DEF AgentFlag, OneAtATime
<1>3. Arriving(a)'
  BY <1>1 DEF AgentFlag, Arriving
<1>4. FlagFollows(a)'
  BY <1>1 DEF AgentFlag, FlagFollows
<1>5. QED
  BY <1>2, <1>3, <1>4 DEF AgentFlag

(* Steps of a session. *)
LEMMA SessionKeepsFlag ==
  ASSUME TypeOK, MapInv, CrashAtMost, NoRewrite, env' = env, \A b \in Agents : AgentFlag(b),
         NEW s \in Sessions, SessionStep(s), NEW a \in Agents
  PROVE  AgentFlag(a)'
<1> USE RegistryAssumption
<1>0. /\ UNCHANGED chkVars
      /\ Unheld(a) => Unheld(a)'
      /\ (chkPc = "clear" /\ AgentOf[chkHit] = a)' <=> (chkPc = "clear" /\ AgentOf[chkHit] = a)
  <2>1. UNCHANGED chkVars
    BY DEF SessionStep, Accept, HandshakeFails, RegisterLocked, StartLoops, WriterSeesClose,
       WriteFails, HandlerUnregister, HandlerSetOffline, ReadHeartbeat, UpdateHeartbeat,
       ReaderExit, PathDegrades, Expire
  <2>2. QED
    BY <2>1 DEF chkVars, Unheld, Mine
<1>1. CASE AgentOf[s] # a
  <2>1. conns'[a] = conns[a] /\ online'[a] = online[a]
    BY <1>1 DEF SessionStep, Accept, HandshakeFails, RegisterLocked, StartLoops,
       WriterSeesClose, WriteFails, HandlerUnregister, HandlerSetOffline, ReadHeartbeat,
       UpdateHeartbeat, ReaderExit, PathDegrades, Expire, SetOnline, UnregisterLocked, TypeOK
  <2>2. \A t \in Mine(a) : handler'[t] = handler[t]
    BY <1>1 DEF SessionStep, Accept, HandshakeFails, RegisterLocked, StartLoops,
       WriterSeesClose, WriteFails, HandlerUnregister, HandlerSetOffline, ReadHeartbeat,
       UpdateHeartbeat, ReaderExit, PathDegrades, Expire, TypeOK, Mine
  <2>3. \A t \in Mine(a) : fresh[t] => fresh'[t]
    BY <1>1 DEF SessionStep, Accept, HandshakeFails, RegisterLocked, StartLoops,
       WriterSeesClose, WriteFails, HandlerUnregister, HandlerSetOffline, ReadHeartbeat,
       UpdateHeartbeat, ReaderExit, PathDegrades, Expire, TypeOK, Mine
  <2>4. QED
    BY <1>0, <2>1, <2>2, <2>3, FlagUntouched
<1>2. CASE AgentOf[s] = a
  <2> USE DEF AgentFlag
  <2>0. s \in Mine(a) /\ AgentFlag(a) /\ ~env.overlap /\ ~env.fault
    BY <1>2 DEF Mine, CrashAtMost
  <2>1. CASE Accept(s)
    <3>1. \A t \in Mine(a) : handler[t] \in Retired
      BY <1>2, <2>0, <2>1 DEF Accept, Mine
    <3>2. Unheld(a)
      BY <1>2, <2>0, <2>1 DEF Accept, AgentQuiet, Unheld, Mine
    <3>3. conns[a] = NoSession
      BY <1>2, <3>1 DEF MapInv, RegisteredHasHandler, Owning, Retired, TypeOK, Mine
    <3>4. handler' = [handler EXCEPT ![s] = "accepted"] /\ UNCHANGED <<conns, online, fresh>>
      BY <2>1 DEF Accept
    <3>5. OneAtATime(a)'
      BY <3>1, <3>4 DEF OneAtATime, Mine, TypeOK
    <3>6. Arriving(a)'
      BY <1>0, <3>1, <3>2, <3>3, <3>4 DEF Arriving, Mine, TypeOK, Retired
    <3>7. FlagFollows(a)'
      BY <1>0, <3>1, <3>3, <3>4 DEF FlagFollows, OffOwed, OnOwed, Mine, TypeOK, Retired
    <3>8. QED
      BY <3>5, <3>6, <3>7
  <2>2. CASE RegisterLocked(s)
    <3>1. handler[s] = "accepted" /\ Unheld(a)
      BY <2>0, <2>2 DEF RegisterLocked, Arriving
    <3>2. /\ handler' = [handler EXCEPT ![s] = "registered"] /\ conns'[a] = s
          /\ fresh'[s] /\ UNCHANGED online
      BY <1>2, <2>2 DEF RegisterLocked, TypeOK
    <3>3. \A t \in Mine(a) : t # s => handler[t] \in Retired
      BY <2>0, <3>1 DEF OneAtATime, Retired
    <3>4. OneAtATime(a)'
      BY <3>2, <3>3 DEF OneAtATime, Mine, TypeOK
    <3>5. Arriving(a)'
      BY <1>0, <3>1, <3>2, <3>3 DEF Arriving, Mine, TypeOK, Retired
    <3>6. ~OffOwed(a)' /\ OnOwed(a)'
      <4>1. \A t \in Mine(a) : handler'[t] # "clearing"
        BY <3>2, <3>3 DEF Mine, TypeOK, Retired
      <4>2. ~(chkPc = "clear" /\ AgentOf[chkHit] = a)
        BY <3>1 DEF Unheld, Mine, TypeOK
      <4>3. OnOwed(a)'
        BY <2>0, <3>2 DEF OnOwed, Mine, TypeOK
      <4>4. QED
        BY <1>0, <4>1, <4>2, <4>3 DEF OffOwed, Mine
    <3>7. FlagFollows(a)'
      BY <3>6 DEF FlagFollows
    <3>8. QED
      BY <3>4, <3>5, <3>7
  <2>3. CASE StartLoops(s)
    <3>1. handler[s] = "registered" /\ Unheld(a) /\ conns[a] = s
      BY <2>0, <2>3 DEF StartLoops, Arriving
    <3>2. /\ handler' = [handler EXCEPT ![s] = "serving"] /\ UNCHANGED <<conns, fresh>>
          /\ online'[a] = TRUE
      BY <1>2, <2>0, <2>3 DEF StartLoops, SetOnline, TypeOK
    <3>3. \A t \in Mine(a) : t # s => handler[t] \in Retired
      BY <2>0, <3>1 DEF OneAtATime, Retired
    <3>4. OneAtATime(a)'
      BY <3>2, <3>3 DEF OneAtATime, Mine, TypeOK
    <3>5. Arriving(a)'
      BY <3>2, <3>3 DEF Arriving, Mine, TypeOK, Retired
    <3>6. ~OffOwed(a)'
      <4>1. \A t \in Mine(a) : handler'[t] # "clearing"
        BY <3>2, <3>3 DEF Mine, TypeOK, Retired
      <4>2. ~(chkPc = "clear" /\ AgentOf[chkHit] = a)
        BY <3>1 DEF Unheld, Mine, TypeOK
      <4>3. QED
        BY <1>0, <4>1, <4>2 DEF OffOwed, Mine
    <3>7. FlagFollows(a)'
      BY <1>2, <3>1, <3>2, <3>6 DEF FlagFollows
    <3>8. QED
      BY <3>4, <3>5, <3>7
  <2>4. CASE HandshakeFails(s) \/ WriterSeesClose(s) \/ WriteFails(s)
    <3>1. UNCHANGED <<conns, online, fresh>>
      BY <2>4 DEF HandshakeFails, WriterSeesClose, WriteFails
    <3>2. /\ \A t \in Mine(a) : t # s => handler'[t] = handler[t]
          /\ handler[s] \in {"accepted", "serving"}
          /\ handler'[s] \in {"refused", "leaving"}
      BY <2>0, <2>4 DEF HandshakeFails, WriterSeesClose, WriteFails, TypeOK, Mine
    <3>3. OneAtATime(a)'
      BY <2>0, <3>2 DEF OneAtATime, Mine, Retired
    <3>4. Arriving(a)'
      BY <1>0, <2>0, <3>1, <3>2 DEF Arriving, Mine
    <3>5. FlagFollows(a)'
      BY <1>0, <2>0, <3>1, <3>2 DEF FlagFollows, OffOwed, OnOwed, Mine
    <3>6. QED
      BY <3>3, <3>4, <3>5
  <2>5. CASE HandlerUnregister(s)
    <3>1. /\ handler[s] = "leaving" /\ conns'[a] = NoSession /\ UNCHANGED <<online, fresh>>
          /\ handler' = [handler EXCEPT ![s] =
                           IF conns[a] = NoSession THEN "done" ELSE "clearing"]
      BY <1>2, <2>5 DEF HandlerUnregister, UnregisterLocked, TypeOK
    <3>2. \A t \in Mine(a) : t # s => handler[t] \in Retired
      BY <2>0, <3>1 DEF OneAtATime, Retired
    <3>3. OneAtATime(a)'
      BY <3>1, <3>2 DEF OneAtATime, Mine, TypeOK
    <3>4. Arriving(a)'
      BY <3>1, <3>2 DEF Arriving, Mine, TypeOK, Retired
    <3>5. FlagFollows(a)'
      <4>1. CASE conns[a] = NoSession
        <5>1. OffOwed(a)' <=> OffOwed(a)
          BY <1>0, <3>1, <4>1 DEF OffOwed, Mine, TypeOK
        <5>2. OnOwed(a)' <=> OnOwed(a)
          BY <3>1, <4>1 DEF OnOwed, Mine, TypeOK
        <5>3. QED
          BY <2>0, <3>1, <4>1, <5>1, <5>2 DEF FlagFollows
      <4>2. CASE conns[a] # NoSession
        <5>1. OffOwed(a)'
          BY <2>0, <3>1, <4>2 DEF OffOwed, Mine, TypeOK
        <5>2. QED
          BY <3>1, <5>1 DEF FlagFollows
      <4>3. QED
        BY <4>1, <4>2
    <3>6. QED
      BY <3>3, <3>4, <3>5
  <2>6. CASE HandlerSetOffline(s)
    <3>1. /\ handler[s] = "clearing" /\ UNCHANGED <<conns, fresh>> /\ online'[a] = FALSE
          /\ handler' = [handler EXCEPT ![s] = "done"]
      BY <1>2, <2>0, <2>6 DEF HandlerSetOffline, SetOnline, TypeOK
    <3>2. conns[a] = NoSession
      BY <2>0, <3>1 DEF FlagFollows, OffOwed
    <3>3. \A t \in Mine(a) : t # s => handler[t] \in Retired
      BY <2>0, <3>1 DEF OneAtATime, Retired
    <3>4. OneAtATime(a)'
      BY <3>1, <3>3 DEF OneAtATime, Mine, TypeOK
    <3>5. Arriving(a)'
      BY <3>1, <3>3 DEF Arriving, Mine, TypeOK, Retired
    <3>6. FlagFollows(a)'
      BY <3>1, <3>2 DEF FlagFollows
    <3>7. QED
      BY <3>4, <3>5, <3>6
  <2>7. CASE ReadHeartbeat(s) \/ UpdateHeartbeat(s) \/ ReaderExit(s) \/ PathDegrades(s)
    <3>1. UNCHANGED <<conns, online, handler>>
      BY <2>7 DEF ReadHeartbeat, UpdateHeartbeat, ReaderExit, PathDegrades
    <3>2. \A t \in Mine(a) : fresh[t] => fresh'[t]
      BY <2>7 DEF ReadHeartbeat, UpdateHeartbeat, ReaderExit, PathDegrades, Mine
    <3>3. QED
      BY <1>0, <2>0, <3>1, <3>2, FlagUntouched
  <2>8. CASE Expire(s)
    <3>1. UNCHANGED <<conns, online, handler>> /\ handler[s] # "registered"
      BY <2>8 DEF Expire
    <3>2. \A t \in Mine(a) : t # s => fresh'[t] = fresh[t]
      BY <2>8 DEF Expire, Mine, TypeOK
    <3>3. QED
      BY <1>0, <2>0, <3>1, <3>2, FlagUntouched
  <2>9. QED
    BY <2>1, <2>2, <2>3, <2>4, <2>5, <2>6, <2>7, <2>8 DEF SessionStep
<1>3. QED
  BY <1>1, <1>2

(* Steps of the checker. *)
LEMMA CheckerKeepsFlag ==
  ASSUME TypeOK, MapInv, CrashAtMost, env' = env, \A b \in Agents : AgentFlag(b),
         CheckerStep, NEW a \in Agents
  PROVE  AgentFlag(a)'
<1> USE RegistryAssumption
<1>0. AgentFlag(a) /\ ~env.fault
  BY DEF CrashAtMost
<1>1. CASE CheckerTick
  <2>1. UNCHANGED <<conns, handler, fresh, online>> /\ chkPc = "idle" /\ chkPc' = "scan"
    BY <1>1 DEF CheckerTick, sessionVars
  <2>2. ASSUME NEW t \in Mine(a), handler[t] \in {"accepted", "registered"}
        PROVE  Unheld(a)'
    <3>1. \A u \in Mine(a) : ~(conns[AgentOf[u]] = u /\ ~fresh[u])
      BY <1>0, <2>2 DEF AgentFlag, Arriving, Mine
    <3>2. \A u \in Mine(a) : u \notin chkTodo'
      BY <1>1, <3>1 DEF CheckerTick, Mine
    <3>3. QED
      BY <2>1, <3>2 DEF Unheld, Mine
  <2>3. Arriving(a)'
    BY <1>0, <2>1, <2>2 DEF AgentFlag, Arriving, Mine
  <2>4. OneAtATime(a)' /\ FlagFollows(a)'
    BY <1>0, <2>1 DEF AgentFlag, OneAtATime, FlagFollows, OffOwed, OnOwed, Mine
  <2>5. QED
    BY <2>3, <2>4 DEF AgentFlag
<1>2. ASSUME NEW s \in Sessions, CheckerInspect(s) PROVE AgentFlag(a)'
  <2>1. UNCHANGED <<conns, handler, fresh, online>> /\ chkPc = "scan" /\ chkPc' # "clear"
    BY <1>2 DEF CheckerInspect, sessionVars
  <2>2. Unheld(a) => Unheld(a)'
    BY <1>2 DEF CheckerInspect, Unheld, Mine
  <2>3. QED
    BY <1>0, <2>1, <2>2, FlagUntouched
<1>3. CASE CheckerUnregister
  <2>1. chkPc = "expire" /\ UNCHANGED <<handler, fresh, online, chkHit, chkTodo>>
    BY <1>3 DEF CheckerUnregister
  <2>2. PICK b \in Agents : b = AgentOf[chkHit] /\ chkHit \in Mine(b)
    BY <2>1 DEF TypeOK, Mine
  <2>3. conns' = [conns EXCEPT ![b] = NoSession]
        /\ chkPc' = (IF conns[b] = NoSession THEN "scan" ELSE "clear")
    BY <1>3, <2>2 DEF CheckerUnregister, UnregisterLocked
  <2>4. Unheld(a) => Unheld(a)'
    BY <2>1, <2>3 DEF Unheld, Mine
  <2>5. CASE a # b \/ conns[b] = NoSession
    <3>1. conns'[a] = conns[a]
      BY <2>3, <2>5 DEF TypeOK
    <3>2. (chkPc = "clear" /\ AgentOf[chkHit] = a)' <=> (chkPc = "clear" /\ AgentOf[chkHit] = a)
      BY <2>1, <2>2, <2>3, <2>5
    <3>3. QED
      BY <1>0, <2>1, <2>4, <3>1, <3>2, FlagUntouched
  <2>6. CASE a = b /\ conns[b] # NoSession
    <3>1. ~Unheld(a)
      BY <2>1, <2>2, <2>6 DEF Unheld
    <3>2. Arriving(a)'
      BY <1>0, <2>1, <3>1 DEF AgentFlag, Arriving, Mine
    <3>3. OneAtATime(a)'
      BY <1>0, <2>1 DEF AgentFlag, OneAtATime, Mine
    <3>4. OffOwed(a)' /\ conns'[a] = NoSession
      BY <2>1, <2>2, <2>3, <2>6 DEF OffOwed, TypeOK
    <3>5. FlagFollows(a)'
      BY <3>4 DEF FlagFollows
    <3>6. QED
      BY <3>2, <3>3, <3>5 DEF AgentFlag
  <2>7. QED
    BY <2>5, <2>6
<1>4. CASE CheckerSetOffline
  <2>1. /\ chkPc = "clear" /\ chkPc' = "scan"
        /\ UNCHANGED <<conns, handler, fresh, chkHit, chkTodo>>
        /\ online' = [online EXCEPT ![AgentOf[chkHit]] = FALSE]
    BY <1>0, <1>4 DEF CheckerSetOffline, SetOnline, sessionVars
  <2>2. Unheld(a) => Unheld(a)'
    BY <2>1 DEF Unheld, Mine
  <2>3. CASE AgentOf[chkHit] # a
    <3>1. online'[a] = online[a]
      BY <2>1, <2>3 DEF TypeOK
    <3>2. QED
      BY <1>0, <2>1, <2>2, <2>3, <3>1, FlagUntouched
  <2>4. CASE AgentOf[chkHit] = a
    <3>1. online'[a] = FALSE /\ conns'[a] = NoSession
      BY <1>0, <2>1, <2>4 DEF TypeOK, AgentFlag, FlagFollows, OffOwed
    <3>2. FlagFollows(a)'
      BY <3>1 DEF FlagFollows
    <3>3. OneAtATime(a)'
      BY <1>0, <2>1 DEF AgentFlag, OneAtATime, Mine
    <3>4. Arriving(a)'
      BY <1>0, <2>1, <2>2 DEF AgentFlag, Arriving, Mine
    <3>5. QED
      BY <3>2, <3>3, <3>4 DEF AgentFlag
  <2>5. QED
    BY <2>3, <2>4
<1>5. CASE CheckerDone
  <2>1. /\ chkPc = "scan" /\ chkPc' = "idle"
        /\ UNCHANGED <<conns, handler, fresh, online, chkTodo>>
    BY <1>5 DEF CheckerDone, sessionVars
  <2>2. Unheld(a) => Unheld(a)'
    BY <2>1 DEF Unheld, Mine
  <2>3. QED
    BY <1>0, <2>1, <2>2, FlagUntouched
<1>6. QED
  BY <1>1, <1>2, <1>3, <1>4, <1>5 DEF CheckerStep

(* A crash leaves no handler on its way in and no write owed. *)
LEMMA CrashKeepsFlag ==
  ASSUME TypeOK, Crash, NEW a \in Agents
  PROVE  AgentFlag(a)'
<1>1. \A s \in Mine(a) : handler'[s] \in Retired
  <2> SUFFICES ASSUME NEW s \in Mine(a) PROVE handler'[s] \in Retired
    OBVIOUS
  <2>1. s \in Sessions
    BY DEF Mine
  <2>2. handler'[s] = CASE handler[s] = "idle" -> "idle"
                        [] handler[s] \in {"accepted", "refused"} -> "refused"
                        [] OTHER -> "done"
    BY <2>1 DEF Crash
  <2>3. QED
    BY <2>2 DEF Retired
<1>2. conns'[a] = NoSession /\ chkPc' = "idle" /\ env.crash /\ env' = env
  BY DEF Crash
<1>3. ~OffOwed(a)' /\ ~OnOwed(a)'
  BY <1>1, <1>2 DEF OffOwed, OnOwed, Mine, Retired
<1>4. FlagFollows(a)'
  BY <1>2, <1>3 DEF FlagFollows
<1>5. OneAtATime(a)' /\ Arriving(a)'
  BY <1>1 DEF OneAtATime, Arriving, Mine, Retired
<1>6. QED
  BY <1>4, <1>5 DEF AgentFlag

LEMMA FlagStep == TypeOK /\ MapInv /\ FlagInv /\ [Next]_vars => FlagInv'
<1> SUFFICES ASSUME TypeOK, MapInv, FlagInv, [Next]_vars, CrashAtMost'
             PROVE  NoRewrite' /\ \A a \in Agents : AgentFlag(a)'
  BY DEF FlagInv, AgentFlag
<1>1. env' = env
  BY DEF Next, SessionStep, Accept, HandshakeFails, RegisterLocked, StartLoops,
     WriterSeesClose, WriteFails, HandlerUnregister, HandlerSetOffline, ReadHeartbeat,
     UpdateHeartbeat, ReaderExit, PathDegrades, Expire, CheckerStep, CheckerTick,
     CheckerInspect, CheckerUnregister, CheckerSetOffline, CheckerDone, CredentialsStep,
     CredentialsRead, CredentialsWrite, Crash, vars
<1>2. CrashAtMost /\ NoRewrite /\ (\A a \in Agents : AgentFlag(a)) /\ ~env.rewrite
  BY <1>1 DEF FlagInv, AgentFlag, CrashAtMost
<1>3. ASSUME NEW s \in Sessions, SessionStep(s) PROVE NoRewrite'
  BY <1>2, <1>3 DEF NoRewrite, SessionStep, Accept, HandshakeFails, RegisterLocked,
     StartLoops, WriterSeesClose, WriteFails, HandlerUnregister, HandlerSetOffline,
     ReadHeartbeat, UpdateHeartbeat, ReaderExit, PathDegrades, Expire
<1>4. ASSUME CheckerStep PROVE NoRewrite'
  BY <1>2, <1>4 DEF NoRewrite, CheckerStep, CheckerTick, CheckerInspect, CheckerUnregister,
     CheckerSetOffline, CheckerDone
<1>5. ~CredentialsStep
  BY <1>2 DEF NoRewrite, CredentialsStep, CredentialsRead, CredentialsWrite
<1>6. CASE UNCHANGED vars
  <2>1. NoRewrite'
    BY <1>2, <1>6 DEF NoRewrite, vars
  <2>2. \A a \in Agents : AgentFlag(a)'
    BY <1>2, <1>6 DEF AgentFlag, OneAtATime, Arriving, FlagFollows, OffOwed, OnOwed, Unheld,
       Mine, vars, sessionVars, chkVars
  <2>3. QED
    BY <2>1, <2>2
<1>7. CASE Crash
  BY <1>7, CrashKeepsFlag DEF Crash, NoRewrite
<1>8. QED
  BY <1>1, <1>2, <1>3, <1>4, <1>5, <1>6, <1>7, SessionKeepsFlag, CheckerKeepsFlag DEF Next

(* When nothing is in flight for an agent its online column says whether   *)
(* it is connected, and after crashes it errs only towards TRUE:           *)
(* FlagSettled.                                                            *)
THEOREM FlagSettles == Spec => []FlagSettled
<1>1. Init => FlagInv
  BY RegistryAssumption DEF Init, FlagInv, NoRewrite, OneAtATime, Arriving, FlagFollows,
     OffOwed, OnOwed, Mine, Retired
<1>2. TypeOK /\ FlagInv => FlagSettled
  <2> SUFFICES ASSUME TypeOK, FlagInv, CrashAtMost, NEW a \in Agents, AgentQuiet(a)
               PROVE  /\ conns[a] # NoSession => online[a]
                      /\ ~env.crash /\ online[a] => conns[a] # NoSession
    BY DEF FlagSettled, CrashAtMost
  <2>1. ~OffOwed(a) /\ ~OnOwed(a)
    BY DEF AgentQuiet, OffOwed, OnOwed, Mine, Retired, TypeOK
  <2>2. QED
    BY <2>1 DEF FlagInv, FlagFollows
<1>3. QED
  BY <1>1, <1>2, FlagStep, MapCorrect, TypeCorrect, PTL DEF Spec

-----------------------------------------------------------------------------
(* Who closes a session that is up and fresh, when an agent dials only     *)
(* after its last session has ended.  A session that is accepted then      *)
(* finds neither another handler of its agent nor anything of it in the    *)
(* checker's hands, so nobody but itself can unregister the agent_id,      *)
(* except the checker, for this very session.                              *)
InHand(s) == s \in chkTodo \/ (chkPc \in {"expire", "clear"} /\ chkHit = s)
HeldIsLast(a) ==
  \A s, t \in Mine(a) : InHand(s) /\ handler[t] \notin Retired => s = t
LeavingIsClosed == \A s \in Sessions : handler[s] = "leaving" => Closed(s)
TurnInv == ~env.overlap => \A a \in Agents : OneAtATime(a) /\ HeldIsLast(a)

LEMMA LeavingStep == TypeOK /\ LeavingIsClosed /\ [Next]_vars => LeavingIsClosed'
<1> SUFFICES ASSUME TypeOK, LeavingIsClosed, [Next]_vars,
                    NEW s \in Sessions, handler'[s] = "leaving"
             PROVE  link'[s] = "closed"
  BY DEF LeavingIsClosed, Closed
<1> USE DEF TypeOK, LeavingIsClosed, Closed
<1>1. ASSUME NEW t \in Sessions,
             WriterSeesClose(t) \/ WriteFails(t) \/ HandlerSetOffline(t)
               \/ Accept(t) \/ HandshakeFails(t) \/ StartLoops(t)
      PROVE  link'[s] = "closed"
  BY <1>1 DEF WriterSeesClose, WriteFails, HandlerSetOffline, Accept, HandshakeFails,
     StartLoops
<1>2. ASSUME NEW t \in Sessions, RegisterLocked(t) \/ HandlerUnregister(t)
      PROVE  link'[s] = "closed"
  <2>1. handler[s] = "leaving"
    BY <1>2 DEF RegisterLocked, HandlerUnregister
  <2>2. link[s] = "closed" => link'[s] = "closed"
    BY <1>2 DEF RegisterLocked, HandlerUnregister, UnregisterLocked, CloseCurrent
  <2>3. QED
    BY <2>1, <2>2
<1>3. ASSUME NEW t \in Sessions,
             ReadHeartbeat(t) \/ UpdateHeartbeat(t) \/ ReaderExit(t) \/ Expire(t)
      PROVE  link'[s] = "closed"
  BY <1>3 DEF ReadHeartbeat, UpdateHeartbeat, ReaderExit, Expire
<1>4. ASSUME NEW t \in Sessions, PathDegrades(t) PROVE link'[s] = "closed"
  BY <1>4 DEF PathDegrades
<1>5. CASE CheckerStep
  BY <1>5 DEF CheckerStep, CheckerTick, CheckerInspect, CheckerUnregister,
     UnregisterLocked, CloseCurrent, CheckerSetOffline, CheckerDone, sessionVars
<1>6. CASE CredentialsStep \/ UNCHANGED vars
  BY <1>6 DEF CredentialsStep, CredentialsRead, CredentialsWrite, sessionVars, vars
<1>7. CASE Crash
  BY <1>7 DEF Crash
<1>8. QED
  BY <1>1, <1>2, <1>3, <1>4, <1>5, <1>6, <1>7 DEF Next, SessionStep

(* A step that gives the checker no session of the agent and lets no       *)
(* handler of it start or come back.                                       *)
LEMMA TurnUntouched ==
  ASSUME NEW a \in Agents, OneAtATime(a), HeldIsLast(a),
         \A s \in Mine(a) : InHand(s)' => InHand(s),
         \A s \in Mine(a) : handler'[s] \notin Retired => handler[s] \notin Retired
  PROVE  OneAtATime(a)' /\ HeldIsLast(a)'
BY DEF OneAtATime, HeldIsLast, Mine

LEMMA TurnStep == TypeOK /\ MapInv /\ TurnInv /\ [Next]_vars => TurnInv'
<1> SUFFICES ASSUME TypeOK, MapInv, TurnInv, [Next]_vars, ~env'.overlap, NEW a \in Agents
             PROVE  OneAtATime(a)' /\ HeldIsLast(a)'
  BY DEF TurnInv
<1> USE RegistryAssumption
<1>0. ~env.overlap /\ OneAtATime(a) /\ HeldIsLast(a)
  <2>1. env' = env
    BY DEF Next, SessionStep, Accept, HandshakeFails, RegisterLocked, StartLoops,
       WriterSeesClose, WriteFails, HandlerUnregister, HandlerSetOffline, ReadHeartbeat,
       UpdateHeartbeat, ReaderExit, PathDegrades, Expire, CheckerStep, CheckerTick,
       CheckerInspect, CheckerUnregister, CheckerSetOffline, CheckerDone, CredentialsStep,
       CredentialsRead, CredentialsWrite, Crash, vars
  <2>2. QED
    BY <2>1 DEF TurnInv
<1>1. ASSUME NEW s \in Sessions, Accept(s) PROVE OneAtATime(a)' /\ HeldIsLast(a)'
  <2>1. handler' = [handler EXCEPT ![s] = "accepted"] /\ UNCHANGED chkVars
    BY <1>1 DEF Accept
  <2>2. CASE AgentOf[s] # a
    BY <1>0, <2>1, <2>2, TurnUntouched DEF InHand, Mine, chkVars, TypeOK
  <2>3. CASE AgentOf[s] = a
    <3>1. \A t \in Mine(a) : handler[t] \in Retired /\ ~InHand(t)
      BY <1>0, <1>1, <2>3 DEF Accept, AgentQuiet, InHand, Mine
    <3>2. QED
      BY <2>1, <3>1 DEF OneAtATime, HeldIsLast, InHand, Mine, chkVars, TypeOK
  <2>4. QED
    BY <2>2, <2>3
<1>2. ASSUME NEW s \in Sessions,
             HandshakeFails(s) \/ RegisterLocked(s) \/ StartLoops(s)
               \/ WriterSeesClose(s) \/ WriteFails(s) \/ HandlerUnregister(s)
               \/ HandlerSetOffline(s)
      PROVE  OneAtATime(a)' /\ HeldIsLast(a)'
  <2>1. UNCHANGED chkVars
    BY <1>2 DEF HandshakeFails, RegisterLocked, StartLoops, WriterSeesClose, WriteFails,
       HandlerUnregister, HandlerSetOffline
  <2>2. handler[s] \notin Retired
    BY <1>2 DEF HandshakeFails, RegisterLocked, StartLoops, WriterSeesClose, WriteFails,
       HandlerUnregister, HandlerSetOffline, Retired
  <2>3. \A t \in Sessions : t # s => handler'[t] = handler[t]
    BY <1>2 DEF HandshakeFails, RegisterLocked, StartLoops, WriterSeesClose, WriteFails,
       HandlerUnregister, HandlerSetOffline, TypeOK
  <2>4. QED
    BY <1>0, <2>1, <2>2, <2>3, TurnUntouched DEF InHand, Mine, chkVars
<1>3. ASSUME NEW s \in Sessions,
             ReadHeartbeat(s) \/ UpdateHeartbeat(s) \/ ReaderExit(s)
               \/ PathDegrades(s) \/ Expire(s)
      PROVE  OneAtATime(a)' /\ HeldIsLast(a)'
  <2>1. UNCHANGED <<handler, chkVars>>
    BY <1>3 DEF ReadHeartbeat, UpdateHeartbeat, ReaderExit, PathDegrades, Expire
  <2>2. QED
    BY <1>0, <2>1, TurnUntouched DEF InHand, chkVars
<1>4. CASE CheckerTick
  <2>1. /\ UNCHANGED <<handler, conns>> /\ chkPc' = "scan"
        /\ \A s \in Mine(a) : s \in chkTodo' => conns[a] = s
    BY <1>4 DEF CheckerTick, sessionVars, Mine
  <2>2. OneAtATime(a)'
    BY <1>0, <2>1 DEF OneAtATime, Mine
  <2>3. HeldIsLast(a)'
    <3> SUFFICES ASSUME NEW s \in Mine(a), NEW t \in Mine(a), InHand(s)',
                        handler[t] \notin Retired
                 PROVE  s = t
      BY <2>1 DEF HeldIsLast, Mine
    <3>1. conns[a] = s /\ s \in Sessions
      BY <2>1 DEF InHand, Mine
    <3>2. handler[s] \in Owning
      BY <3>1 DEF MapInv, RegisteredHasHandler
    <3>3. QED
      BY <1>0, <3>2 DEF OneAtATime, Owning, Retired
  <2>4. QED
    BY <2>2, <2>3
<1>5. ASSUME CheckerUnregister \/ CheckerSetOffline \/ CheckerDone
             \/ \E s \in Sessions : CheckerInspect(s)
      PROVE  OneAtATime(a)' /\ HeldIsLast(a)'
  <2>1. UNCHANGED handler
    BY <1>5 DEF CheckerUnregister, CheckerSetOffline, CheckerDone, CheckerInspect, sessionVars
  <2>2. \A s \in Mine(a) : InHand(s)' => InHand(s)
    BY <1>5 DEF CheckerUnregister, CheckerSetOffline, CheckerDone, CheckerInspect, InHand
  <2>3. QED
    BY <1>0, <2>1, <2>2, TurnUntouched
<1>6. CASE CredentialsStep \/ UNCHANGED vars
  <2>1. UNCHANGED <<handler, chkVars>>
    BY <1>6 DEF CredentialsStep, CredentialsRead, CredentialsWrite, sessionVars, vars
  <2>2. QED
    BY <1>0, <2>1, TurnUntouched DEF InHand, chkVars
<1>7. CASE Crash
  <2>1. \A s \in Mine(a) : ~InHand(s)'
    BY <1>7 DEF Crash, InHand
  <2>2. \A s \in Mine(a) : handler'[s] \notin Retired => handler[s] \notin Retired
    BY <1>7 DEF Crash, Mine, Retired
  <2>3. QED
    BY <1>0, <2>1, <2>2, TurnUntouched
<1>8. QED
  BY <1>1, <1>2, <1>3, <1>4, <1>5, <1>6, <1>7 DEF Next, SessionStep, CheckerStep

(* As long as agents dial only after their last session has ended, the     *)
(* server closes a connection that is up and has a recent heartbeat only   *)
(* when it dies, or when that heartbeat came after the checker had found   *)
(* the connection expired and before it unregistered it.  (With overlap    *)
(* the handler of an older session does it: LiveSessionKept is violated.)  *)
THEOREM LiveSessionKeptApart ==
  Spec => [][~env.overlap =>
               \A s \in Sessions :
                 link[s] = "up" /\ fresh[s] /\ link'[s] = "closed"
                   => Crash \/ (chkPc = "expire" /\ chkHit = s)]_vars
<1> DEFINE Kept == ~env.overlap =>
                     \A s \in Sessions :
                       link[s] = "up" /\ fresh[s] /\ link'[s] = "closed"
                         => Crash \/ (chkPc = "expire" /\ chkHit = s)
<1>1. TypeOK /\ MapInv /\ LeavingIsClosed /\ TurnInv /\ [Next]_vars => [Kept]_vars
  <2> SUFFICES ASSUME TypeOK, MapInv, LeavingIsClosed, TurnInv, Next, ~env.overlap,
                      NEW s \in Sessions, link[s] = "up", link'[s] = "closed", ~Crash
               PROVE  chkPc = "expire" /\ chkHit = s
    BY DEF vars, sessionVars
  <2> USE RegistryAssumption
  <2> DEFINE a == AgentOf[s]
  <2>0. a \in Agents /\ s \in Mine(a) /\ OneAtATime(a) /\ HeldIsLast(a)
    BY DEF TurnInv, Mine
  <2>1. ASSUME NEW t \in Sessions, UnregisterLocked(AgentOf[t]), link' # link
        PROVE  t \in Mine(a) /\ handler[s] \notin Retired /\ conns[a] = s
    <3>1. s = conns[AgentOf[t]]
      BY <2>1 DEF UnregisterLocked, CloseCurrent, TypeOK
    <3>2. AgentOf[t] = a /\ handler[s] \in Owning
      BY <3>1 DEF MapInv, RegisteredHasHandler, TypeOK
    <3>3. QED
      BY <3>1, <3>2 DEF Mine, Owning, Retired
  <2>2. ASSUME NEW t \in Sessions, RegisterLocked(t) PROVE FALSE
    <3>1. handler[t] = "accepted" /\ s = conns[AgentOf[t]]
      BY <2>2 DEF RegisterLocked, CloseCurrent, TypeOK
    <3>2. AgentOf[t] = a /\ handler[s] \in Owning
      BY <3>1 DEF MapInv, RegisteredHasHandler, TypeOK
    <3>3. t \in Mine(a) /\ t # s
      BY <3>1, <3>2 DEF Mine, Owning
    <3>4. QED
      BY <2>0, <3>1, <3>2, <3>3 DEF OneAtATime, Owning, Retired
  <2>3. ASSUME NEW t \in Sessions, HandlerUnregister(t) PROVE FALSE
    <3>1. handler[t] = "leaving" /\ UnregisterLocked(AgentOf[t]) /\ link' # link
      BY <2>3 DEF HandlerUnregister
    <3>2. t = s
      BY <2>0, <2>1, <3>1 DEF OneAtATime, Retired
    <3>3. QED
      BY <3>1, <3>2 DEF LeavingIsClosed, Closed
  <2>4. ASSUME NEW t \in Sessions,
               WriteFails(t) \/ ReaderExit(t) \/ PathDegrades(t)
        PROVE  FALSE
    BY <2>4 DEF WriteFails, ReaderExit, PathDegrades, TypeOK
  <2>5. ASSUME NEW t \in Sessions,
               Accept(t) \/ HandshakeFails(t) \/ StartLoops(t) \/ WriterSeesClose(t)
                 \/ HandlerSetOffline(t) \/ ReadHeartbeat(t) \/ UpdateHeartbeat(t)
                 \/ Expire(t)
        PROVE  FALSE
    BY <2>5 DEF Accept, HandshakeFails, StartLoops, WriterSeesClose, HandlerSetOffline,
       ReadHeartbeat, UpdateHeartbeat, Expire
  <2>6. CASE CheckerUnregister
    <3>1. /\ chkPc = "expire" /\ chkHit \in Sessions
          /\ UnregisterLocked(AgentOf[chkHit]) /\ link' # link
      BY <2>6 DEF CheckerUnregister, TypeOK
    <3>2. chkHit \in Mine(a) /\ handler[s] \notin Retired
      BY <2>1, <3>1
    <3>3. chkHit = s
      BY <2>0, <3>1, <3>2 DEF HeldIsLast, InHand
    <3>4. QED
      BY <3>1, <3>3
  <2>7. ASSUME CheckerTick \/ CheckerSetOffline \/ CheckerDone
               \/ (\E t \in Sessions : CheckerInspect(t)) \/ CredentialsStep
        PROVE  FALSE
    BY <2>7 DEF CheckerTick, CheckerSetOffline, CheckerDone, CheckerInspect,
       CredentialsStep, CredentialsRead, CredentialsWrite, sessionVars
  <2>8. QED
    BY <2>2, <2>3, <2>4, <2>5, <2>6, <2>7 DEF Next, SessionStep, CheckerStep
<1>2. Init => LeavingIsClosed /\ TurnInv
  BY DEF Init, LeavingIsClosed, TurnInv, OneAtATime, HeldIsLast, Mine, Retired
<1>3. Spec => [](LeavingIsClosed /\ TurnInv)
  BY <1>2, LeavingStep, TurnStep, TypeCorrect, MapCorrect, PTL DEF Spec
<1>4. QED
  BY <1>1, <1>3, TypeCorrect, MapCorrect, PTL DEF Spec
=============================================================================
