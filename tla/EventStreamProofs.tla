-------------------------- MODULE EventStreamProofs --------------------------
(***************************************************************************)
(* Proofs about EventStream for any number of streams, publishers and      *)
(* events: the types, that Publish can reach every open stream, the order  *)
(* of what a stream is sent, that a stream with room misses nothing, and   *)
(* when a send can find its channel closed.                                *)
(***************************************************************************)
EXTENDS EventStream, SequenceTheorems, TLAPS

Held == {"inserting", "deleting", "signalled"}

(* The mutex: one goroutine at a time is inside Subscribe or unsubscribe,  *)
(* and while it is, the user has an inner map.                             *)
Mutex ==
  /\ \A s, t \in Streams : stream[s] \in Held /\ stream[t] \in Held => s = t
  /\ \A s \in Streams : stream[s] \in Held => hub # NoMap

HubType ==
  /\ hub \in Streams \cup {NoMap}
  /\ inner \in [Streams -> SUBSET Streams]
  /\ stream \in [Streams -> {"idle", "inserting", "open", "leaving",
                             "deleting", "signalled", "done"}]

HubInv == HubType /\ Mutex /\ OpenIsReachable

(* Walking the inner map changes neither the hub nor a stream's place.     *)
LEMMA HubUntouched == HubInv /\ UNCHANGED streamVars => HubInv'
  BY DEF HubInv, HubType, Mutex, OpenIsReachable, Held, streamVars

LEMMA HubInitial == Init => HubInv
  BY DEF Init, HubInv, HubType, Mutex, OpenIsReachable, Held

LEMMA HubStep == HubInv /\ [Next]_vars => HubInv'
<1> USE StreamAssumption
<1> SUFFICES ASSUME HubInv, [Next]_vars PROVE HubInv'
    OBVIOUS
<1>1. CASE UNCHANGED vars
    BY <1>1, HubUntouched DEF vars
<1>2. ASSUME NEW s \in Streams, SubscribeLock(s) PROVE HubInv'
    BY <1>2 DEF SubscribeLock, Locked, HubInv, HubType, Mutex, OpenIsReachable, Held
<1>3. ASSUME NEW s \in Streams, SubscribeInsert(s) PROVE HubInv'
    BY <1>3 DEF SubscribeInsert, HubInv, HubType, Mutex, OpenIsReachable, Held
<1>4. ASSUME NEW s \in Streams, Deliver(s) PROVE HubInv'
    BY <1>4, HubUntouched DEF Deliver
<1>5. ASSUME NEW s \in Streams, ClientLeaves(s) PROVE HubInv'
    BY <1>5 DEF ClientLeaves, HubInv, HubType, Mutex, OpenIsReachable, Held
<1>6. ASSUME NEW s \in Streams, UnsubscribeLock(s) PROVE HubInv'
    BY <1>6 DEF UnsubscribeLock, Locked, HubInv, HubType, Mutex, OpenIsReachable, Held
<1>7. ASSUME NEW s \in Streams, UnsubscribeSignal(s) PROVE HubInv'
    BY <1>7 DEF UnsubscribeSignal, HubInv, HubType, Mutex, OpenIsReachable, Held
<1>8. ASSUME NEW s \in Streams, UnsubscribeClose(s) PROVE HubInv'
    BY <1>8 DEF UnsubscribeClose, HubInv, HubType, Mutex, OpenIsReachable, Held
<1>9. ASSUME NEW p \in Publishers, PublishStart(p) \/ WalkStep(p) \/ RuntimeThrows(p)
      PROVE  HubInv'
    BY <1>9, HubUntouched DEF PublishStart, WalkStep, PublishEnd, PublishNext,
       PublishSend, PublishSkip, PublishDrop, PublishPanics, RuntimeThrows
<1>10. QED
    BY <1>1, <1>2, <1>3, <1>4, <1>5, <1>6, <1>7, <1>8, <1>9
    DEF Next, SubscribeStep, UnsubscribeStep

(* Whatever streams come and go, an open stream stays in the inner map     *)
(* that h.subscribers holds for its user, so that Publish finds it: the    *)
(* unsubscribe that drops an empty inner map never drops a used one.       *)
THEOREM OpenIsReachableAlways == Spec => []OpenIsReachable
<1>1. HubInv => OpenIsReachable
    BY DEF HubInv
<1>2. QED
    BY <1>1, HubInitial, HubStep, PTL DEF Spec

-----------------------------------------------------------------------------
Places == [pc : {"idle", "walk", "send", "panicked"}, n : 1..(MaxEvents + 1),
           map : Streams \cup {NoMap}, seen : SUBSET Streams, start : SUBSET Streams,
           at : Streams \cup {NoMap}]
Busy(p) == pub[p].pc \in {"walk", "send"}

(* The types, and that a publisher at work has an event to publish.        *)
TypeInv ==
  /\ ch \in [Streams -> Seq(Event)] /\ \A s \in Streams : Len(ch[s]) <= BufSize
  /\ got \in [Streams -> Seq(Event)]
  /\ pub \in [Publishers -> Places] /\ dead \in BOOLEAN
  /\ \A p \in Publishers : /\ Busy(p) => pub[p].n \in 1..MaxEvents
                           /\ pub[p].pc = "send" => pub[p].at \in Streams

LEMMA TypeInitial == Init => TypeInv
<1> SUFFICES ASSUME Init PROVE TypeInv
  OBVIOUS
<1>1. 1 \in 1..(MaxEvents + 1) /\ 0 <= BufSize
  BY StreamAssumption
<1>2. [pc |-> "idle", n |-> 1, map |-> NoMap, seen |-> {}, start |-> {}, at |-> NoMap] \in Places
  BY <1>1 DEF Places
<1>3. /\ pub \in [Publishers -> Places]
      /\ \A p \in Publishers : pub[p].pc = "idle"
  BY <1>2 DEF Init
<1>4. /\ ch \in [Streams -> Seq(Event)] /\ \A s \in Streams : Len(ch[s]) <= BufSize
      /\ got \in [Streams -> Seq(Event)] /\ dead \in BOOLEAN
  <2>1. <<>> \in Seq(Event) /\ Len(<<>>) = 0
    OBVIOUS
  <2>2. \A s \in Streams : ch[s] = <<>> /\ got[s] = <<>>
    BY DEF Init
  <2>3. ch \in [Streams -> Seq(Event)] /\ got \in [Streams -> Seq(Event)]
    BY <2>1 DEF Init
  <2>4. dead \in BOOLEAN
    BY DEF Init
  <2>5. QED
    BY <1>1, <2>1, <2>2, <2>3, <2>4
<1>5. QED
  BY <1>3, <1>4 DEF TypeInv, Busy

LEMMA DeliverTypes ==
  ASSUME TypeInv, NEW s \in Streams, Deliver(s)
  PROVE  TypeInv'
<1>1. ch[s] \in Seq(Event) /\ ch[s] # <<>> /\ got[s] \in Seq(Event)
  BY DEF TypeInv, Deliver
<1>2. Head(ch[s]) \in Event /\ Tail(ch[s]) \in Seq(Event) /\ Len(Tail(ch[s])) = Len(ch[s]) - 1
  BY <1>1
<1>3. Append(got[s], Head(ch[s])) \in Seq(Event)
  BY <1>1, <1>2
<1>4. ch' \in [Streams -> Seq(Event)] /\ got' \in [Streams -> Seq(Event)]
  BY <1>2, <1>3 DEF TypeInv, Deliver
<1>5. ASSUME NEW t \in Streams PROVE Len(ch'[t]) <= BufSize
  <2>1. CASE t = s
    BY <1>1, <1>2, <2>1, StreamAssumption DEF TypeInv, Deliver
  <2>2. CASE t # s
    BY <2>2 DEF TypeInv, Deliver
  <2>3. QED
    BY <2>1, <2>2
<1>6. UNCHANGED <<pub, dead>>
  BY DEF Deliver
<1>7. QED
  BY <1>4, <1>5, <1>6 DEF TypeInv, Busy

(* A publisher moves to a place of the right type. *)
LEMMA MoveTypes ==
  ASSUME TypeInv, NEW p \in Publishers, NEW r \in Places,
         r.pc \in {"walk", "send"} => r.n \in 1..MaxEvents,
         r.pc = "send" => r.at \in Streams,
         pub' = [pub EXCEPT ![p] = r], UNCHANGED got, dead' \in BOOLEAN,
         ch' \in [Streams -> Seq(Event)], \A s \in Streams : Len(ch'[s]) <= BufSize
  PROVE  TypeInv'
BY DEF TypeInv, Busy

LEMMA PublishTypes ==
  ASSUME TypeInv, HubType, NEW p \in Publishers,
         PublishStart(p) \/ WalkStep(p) \/ RuntimeThrows(p)
  PROVE  TypeInv'
<1> DEFINE me == pub[p]
<1>1. me \in Places /\ me.n \in Nat
  BY StreamAssumption DEF TypeInv, Places
<1>2. /\ ch \in [Streams -> Seq(Event)] /\ \A s \in Streams : Len(ch[s]) <= BufSize
      /\ dead \in BOOLEAN
  BY DEF TypeInv
<1>3. me.pc \in {"walk", "send"} => me.n \in 1..MaxEvents
  BY DEF TypeInv, Busy
<1>4. CASE PublishStart(p)
  <2>1. me.n \in 1..MaxEvents /\ me.n + 1 \in 1..(MaxEvents + 1) /\ me.pc = "idle"
    BY <1>1, <1>4, StreamAssumption DEF PublishStart, Places
  <2>2. UNCHANGED <<ch, got, dead>>
    BY <1>4 DEF PublishStart
  <2>3. CASE hub = NoMap
    <3> DEFINE m == me.n + 1
               r == [me EXCEPT !.n = m]
    <3>1. pub' = [pub EXCEPT ![p] = r]
      BY <1>1, <1>4, <2>3 DEF PublishStart, TypeInv, Places
    <3>2. m \in 1..(MaxEvents + 1)
      BY <2>1
    <3> HIDE DEF m
    <3>3. r \in Places /\ r.pc = "idle"
      BY <1>1, <2>1, <3>2 DEF Places
    <3>4. QED
      BY <1>2, <2>2, <3>1, <3>3, MoveTypes
  <2>4. CASE hub # NoMap
    <3> DEFINE r == [me EXCEPT !.pc = "walk", !.map = hub, !.seen = {}, !.start = inner[hub]]
    <3>1. hub \in Streams /\ inner[hub] \subseteq Streams
      BY <2>4 DEF HubType
    <3>2. pub' = [pub EXCEPT ![p] = r]
      BY <1>1, <1>4, <2>4 DEF PublishStart, TypeInv, Places
    <3>3. r \in Places /\ r.pc = "walk" /\ r.n = me.n
      BY <1>1, <3>1 DEF Places
    <3>4. QED
      BY <1>2, <2>1, <2>2, <3>2, <3>3, MoveTypes
  <2>5. QED
    BY <2>3, <2>4
<1>5. CASE PublishEnd(p)
  <2> DEFINE m == me.n + 1
             r == [me EXCEPT !.pc = "idle", !.n = m, !.map = NoMap, !.seen = {}, !.start = {}]
  <2>1. UNCHANGED <<ch, got, dead>> /\ pub' = [pub EXCEPT ![p] = r]
    BY <1>1, <1>5 DEF PublishEnd, TypeInv, Places
  <2>2. m \in 1..(MaxEvents + 1)
    BY <1>3, <1>5, StreamAssumption DEF PublishEnd
  <2> HIDE DEF m
  <2>3. r \in Places /\ r.pc = "idle"
    BY <1>1, <2>2 DEF Places
  <2>4. QED
    BY <1>2, <2>1, <2>3, MoveTypes
<1>6. ASSUME NEW s \in Streams, PublishNext(p, s) PROVE TypeInv'
  <2> DEFINE r == [me EXCEPT !.pc = "send", !.at = s, !.seen = @ \cup {s}]
  <2>1. UNCHANGED <<ch, got, dead>> /\ pub' = [pub EXCEPT ![p] = r]
    BY <1>1, <1>6 DEF PublishNext, TypeInv, Places
  <2>2. r \in Places /\ r.at = s /\ r.n = me.n
    BY <1>1 DEF Places
  <2>3. me.pc = "walk"
    BY <1>6 DEF PublishNext
  <2>4. QED
    BY <1>2, <1>3, <2>1, <2>2, <2>3, MoveTypes
<1>7. ASSUME me.pc = "send", Walk(p), UNCHANGED <<got, dead>>,
             ch' \in [Streams -> Seq(Event)], \A s \in Streams : Len(ch'[s]) <= BufSize
      PROVE  TypeInv'
  <2> DEFINE r == [me EXCEPT !.pc = "walk", !.at = NoMap]
  <2>1. pub' = [pub EXCEPT ![p] = r]
    BY <1>1, <1>7 DEF Walk, TypeInv, Places
  <2>2. r \in Places /\ r.pc = "walk" /\ r.n = me.n
    BY <1>1 DEF Places
  <2>3. QED
    BY <1>2, <1>3, <1>7, <2>1, <2>2, MoveTypes
<1>8. CASE PublishSend(p)
  <2> DEFINE s == me.at
             e == <<p, me.n>>
  <2>1. me.pc = "send" /\ HasRoom(s) /\ ch' = [ch EXCEPT ![s] = Append(@, e)]
    BY <1>8 DEF PublishSend
  <2>2. s \in Streams /\ e \in Event /\ ch[s] \in Seq(Event)
    BY <1>2, <1>3, <2>1 DEF TypeInv, Event
  <2>3. Append(ch[s], e) \in Seq(Event) /\ Len(Append(ch[s], e)) = Len(ch[s]) + 1
    BY <2>2
  <2>4. Len(ch[s]) \in Nat /\ Len(ch[s]) < BufSize /\ BufSize \in Nat
    BY <2>1, <2>2, StreamAssumption DEF HasRoom
  <2>5. /\ ch' \in [Streams -> Seq(Event)] /\ ch'[s] = Append(ch[s], e)
        /\ \A t \in Streams : t # s => ch'[t] = ch[t]
    BY <1>2, <2>1, <2>2, <2>3
  <2>6. \A t \in Streams : Len(ch'[t]) <= BufSize
    BY <1>2, <2>3, <2>4, <2>5
  <2>7. QED
    BY <1>7, <1>8, <2>1, <2>5, <2>6 DEF PublishSend
<1>9. CASE PublishSkip(p) \/ PublishDrop(p)
  BY <1>2, <1>7, <1>9 DEF PublishSkip, PublishDrop
<1>10. CASE PublishPanics(p)
  <2> DEFINE r == [me EXCEPT !.pc = "panicked", !.map = NoMap, !.at = NoMap,
                             !.seen = {}, !.start = {}]
  <2>1. UNCHANGED <<ch, got>> /\ dead' \in BOOLEAN /\ pub' = [pub EXCEPT ![p] = r]
    BY <1>1, <1>10 DEF PublishPanics, TypeInv, Places
  <2>2. r \in Places /\ r.pc = "panicked"
    BY <1>1 DEF Places
  <2>3. QED
    BY <1>2, <2>1, <2>2, MoveTypes
<1>11. CASE RuntimeThrows(p)
  BY <1>11 DEF RuntimeThrows, TypeInv, Busy
<1>12. QED
  BY <1>4, <1>5, <1>6, <1>8, <1>9, <1>10, <1>11 DEF WalkStep

LEMMA TypeStep == TypeInv /\ HubInv /\ [Next]_vars => TypeInv'
<1> SUFFICES ASSUME TypeInv, HubInv, [Next]_vars PROVE TypeInv'
  OBVIOUS
<1>1. CASE UNCHANGED <<ch, got, pub, dead>>
  BY <1>1 DEF TypeInv, Busy
<1>2. ASSUME NEW s \in Streams, SubscribeStep(s) \/ ClientLeaves(s) \/ UnsubscribeStep(s)
      PROVE  UNCHANGED <<ch, got, pub, dead>>
  BY <1>2 DEF SubscribeStep, SubscribeLock, SubscribeInsert, ClientLeaves,
     UnsubscribeStep, UnsubscribeLock, UnsubscribeSignal, UnsubscribeClose
<1>3. QED
  BY <1>1, <1>2, DeliverTypes, PublishTypes DEF Next, vars, HubInv

(* Every variable keeps its type: TypeOK.  Above all no channel holds more *)
(* than its capacity, although publishers fill it without a lock.          *)
THEOREM TypeCorrect == Spec => []TypeOK
<1>1. TypeInv /\ HubInv => TypeOK
  BY DEF TypeInv, HubInv, HubType, TypeOK, Places
<1>2. QED
  BY <1>1, TypeInitial, TypeStep, HubInitial, HubStep, PTL DEF Spec

-----------------------------------------------------------------------------
(* What a stream has been sent, shown or not. *)
Sent(s) == got[s] \o ch[s]

(* A stream that has the event a publisher is at was reached by its walk,  *)
(* and is not about to be sent it again.                                   *)
Placed(p, s, n) ==
  /\ n <= pub[p].n
  /\ n = pub[p].n => /\ pub[p].pc # "idle"
                     /\ Busy(p) => s \in pub[p].seen
                     /\ pub[p].pc = "send" => pub[p].at # s
SentInv ==
  \A s \in Streams : \A i \in DOMAIN Sent(s) : Placed(Sent(s)[i][1], s, Sent(s)[i][2])
AtSeen == \A p \in Publishers : pub[p].pc = "send" => pub[p].at \in pub[p].seen

LEMMA SentType ==
  ASSUME TypeInv, NEW s \in Streams
  PROVE  /\ Sent(s) \in Seq(Event)
         /\ \A i \in DOMAIN Sent(s) : /\ Sent(s)[i][1] \in Publishers
                                     /\ Sent(s)[i][2] \in 1..MaxEvents
<1>1. Sent(s) \in Seq(Event)
  BY DEF TypeInv, Sent
<1>2. \A i \in DOMAIN Sent(s) : Sent(s)[i] \in Event
  BY <1>1
<1>3. QED
  BY <1>1, <1>2 DEF Event

LEMMA HeadMoves ==
  ASSUME NEW S, NEW g \in Seq(S), NEW c \in Seq(S), c # <<>>
  PROVE  Append(g, Head(c)) \o Tail(c) = g \o c
<1> DEFINE h == Append(g, Head(c))
           t == Tail(c)
<1>1. /\ Len(g) \in Nat /\ Len(c) \in Nat \ {0}
      /\ t \in Seq(S) /\ Len(t) = Len(c) - 1 /\ \A i \in 1..Len(t) : t[i] = c[i + 1]
  BY HeadTailProperties, EmptySeq, LenProperties
<1>2. /\ h \in Seq(S) /\ Len(h) = Len(g) + 1
      /\ \A i \in 1..Len(h) : h[i] = IF i <= Len(g) THEN g[i] ELSE c[1]
  BY HeadTailProperties
<1> HIDE DEF h, t
<1>3. /\ h \o t \in Seq(S) /\ Len(h \o t) = Len(h) + Len(t)
      /\ \A i \in 1..(Len(h) + Len(t)) : (h \o t)[i] =
           IF i <= Len(h) THEN h[i] ELSE t[i - Len(h)]
  BY <1>1, <1>2, ConcatProperties
<1>4. /\ g \o c \in Seq(S) /\ Len(g \o c) = Len(g) + Len(c)
      /\ \A i \in 1..(Len(g) + Len(c)) : (g \o c)[i] =
           IF i <= Len(g) THEN g[i] ELSE c[i - Len(g)]
  BY ConcatProperties
<1>5. ASSUME NEW i \in 1..(Len(h) + Len(t)) PROVE (h \o t)[i] = (g \o c)[i]
  <2>1. i \in 1..(Len(g) + Len(c)) /\ i \in Int
    BY <1>1, <1>2, <1>5
  <2>2. CASE i <= Len(g)
    <3>1. (h \o t)[i] = h[i] /\ h[i] = g[i] /\ i \in 1..Len(h)
      BY <1>1, <1>2, <1>3, <1>5, <2>1, <2>2
    <3>2. QED
      BY <1>4, <2>1, <2>2, <3>1
  <2>3. CASE i = Len(g) + 1
    <3>1. i \in 1..Len(h) /\ i <= Len(h) /\ ~(i <= Len(g)) /\ i - Len(g) = 1
      BY <1>1, <1>2, <1>5, <2>3
    <3>2. (h \o t)[i] = c[1]
      BY <1>2, <1>3, <1>5, <3>1
    <3>3. (g \o c)[i] = c[1]
      BY <1>4, <2>1, <3>1
    <3>4. QED
      BY <3>2, <3>3
  <2>4. CASE i > Len(g) + 1
    <3> DEFINE j == i - Len(h)
    <3>1. /\ ~(i <= Len(h)) /\ ~(i <= Len(g))
          /\ j \in 1..Len(t) /\ i - Len(g) = j + 1
      BY <1>1, <1>2, <1>5, <2>4
    <3>2. (h \o t)[i] = t[j] /\ t[j] = c[j + 1]
      BY <1>1, <1>3, <1>5, <3>1
    <3>3. (g \o c)[i] = c[i - Len(g)]
      BY <1>4, <2>1, <3>1
    <3>4. QED
      BY <3>1, <3>2, <3>3
  <2>5. Len(g) \in Int
    BY <1>1
  <2>6. i <= Len(g) \/ i = Len(g) + 1 \/ i > Len(g) + 1
    BY <2>1, <2>5
  <2>7. QED
    BY <2>2, <2>3, <2>4, <2>6
<1>6. Len(h \o t) = Len(g \o c)
  BY <1>1, <1>2, <1>3, <1>4
<1>7. h \o t = g \o c
  BY <1>3, <1>4, <1>5, <1>6, SeqEqual
<1>8. QED
  BY <1>7 DEF h, t

LEMMA AppendMoves ==
  ASSUME NEW S, NEW g \in Seq(S), NEW c \in Seq(S), NEW e \in S
  PROVE  g \o Append(c, e) = Append(g \o c, e)
<1> DEFINE d == Append(c, e)
           k == g \o c
           l == Append(k, e)
<1>1. /\ Len(g) \in Nat /\ Len(c) \in Nat /\ d \in Seq(S) /\ Len(d) = Len(c) + 1
      /\ \A i \in 1..Len(d) : d[i] = IF i <= Len(c) THEN c[i] ELSE e
  OBVIOUS
<1>2. /\ k \in Seq(S) /\ Len(k) = Len(g) + Len(c)
      /\ \A i \in 1..(Len(g) + Len(c)) : k[i] =
           IF i <= Len(g) THEN g[i] ELSE c[i - Len(g)]
  BY ConcatProperties
<1> HIDE DEF d, k
<1>3. /\ l \in Seq(S) /\ Len(l) = Len(k) + 1
      /\ \A i \in 1..Len(l) : l[i] = IF i <= Len(k) THEN k[i] ELSE e
  BY <1>2
<1>4. /\ g \o d \in Seq(S) /\ Len(g \o d) = Len(g) + Len(d)
      /\ \A i \in 1..(Len(g) + Len(d)) : (g \o d)[i] =
           IF i <= Len(g) THEN g[i] ELSE d[i - Len(g)]
  BY <1>1, ConcatProperties
<1> HIDE DEF l
<1>5. ASSUME NEW i \in 1..(Len(g) + Len(d)) PROVE (g \o d)[i] = l[i]
  <2>1. i \in 1..Len(l) /\ i \in Int
    BY <1>1, <1>2, <1>3, <1>5
  <2>2. CASE i <= Len(g)
    <3>1. i <= Len(k) /\ i \in 1..(Len(g) + Len(c))
      BY <1>1, <1>2, <2>1, <2>2
    <3>2. QED
      BY <1>2, <1>3, <1>4, <1>5, <2>1, <2>2, <3>1
  <2>3. CASE i > Len(g) /\ i <= Len(k)
    <3>1. /\ ~(i <= Len(g)) /\ i \in 1..(Len(g) + Len(c))
          /\ i - Len(g) \in 1..Len(d) /\ i - Len(g) <= Len(c)
      BY <1>1, <1>2, <2>1, <2>3
    <3>2. QED
      BY <1>1, <1>2, <1>3, <1>4, <1>5, <2>1, <2>3, <3>1
  <2>4. CASE i > Len(k)
    <3>1. /\ ~(i <= Len(k)) /\ ~(i <= Len(g))
          /\ i - Len(g) \in 1..Len(d) /\ ~(i - Len(g) <= Len(c))
      BY <1>1, <1>2, <1>3, <2>1, <2>4
    <3>2. QED
      BY <1>1, <1>3, <1>4, <1>5, <2>1, <3>1
  <2>5. Len(g) \in Int /\ Len(k) \in Int
    BY <1>1, <1>2
  <2>6. i <= Len(g) \/ (i > Len(g) /\ i <= Len(k)) \/ i > Len(k)
    BY <2>1, <2>5
  <2>7. QED
    BY <2>2, <2>3, <2>4, <2>6
<1>6. Len(g \o d) = Len(l)
  BY <1>1, <1>2, <1>3, <1>4
<1>7. g \o d = l
  BY <1>3, <1>4, <1>5, <1>6, SeqEqual
<1>8. QED
  BY <1>7 DEF d, k, l

(* Showing an event takes it from one end and adds it at the other. *)
LEMMA ShowKeepsSent ==
  ASSUME TypeInv, NEW s \in Streams, Deliver(s), NEW t \in Streams
  PROVE  Sent(t)' = Sent(t)
<1>1. CASE t # s
  BY <1>1 DEF Deliver, TypeInv, Sent
<1>2. CASE t = s
  <2>1. ch[s] \in Seq(Event) /\ got[s] \in Seq(Event) /\ ch[s] # <<>>
    BY DEF TypeInv, Deliver
  <2>2. ch'[s] = Tail(ch[s]) /\ got'[s] = Append(got[s], Head(ch[s]))
    BY DEF TypeInv, Deliver
  <2>3. Append(got[s], Head(ch[s])) \o Tail(ch[s]) = got[s] \o ch[s]
    BY <2>1, HeadMoves
  <2>4. QED
    BY <1>2, <2>2, <2>3 DEF Sent
<1>3. QED
  BY <1>1, <1>2

(* A publisher sends the event it is at to the subscriber it is at. *)
LEMMA SendAppends ==
  ASSUME TypeInv, NEW p \in Publishers, PublishSend(p), NEW t \in Streams
  PROVE  /\ t # pub[p].at => Sent(t)' = Sent(t)
         /\ t = pub[p].at => Sent(t)' = Append(Sent(t), <<p, pub[p].n>>)
<1> DEFINE e == <<p, pub[p].n>>
<1>1. CASE t # pub[p].at
  BY <1>1 DEF PublishSend, TypeInv, Sent
<1>2. CASE t = pub[p].at
  <2>1. e \in Event
    BY DEF TypeInv, PublishSend, Busy, Event
  <2>2. ch[t] \in Seq(Event) /\ got[t] \in Seq(Event)
    BY DEF TypeInv
  <2>3. ch'[t] = Append(ch[t], e) /\ got'[t] = got[t]
    BY <1>2 DEF PublishSend, TypeInv
  <2>4. got[t] \o Append(ch[t], e) = Append(got[t] \o ch[t], e)
    <3>1. \A g, c \in Seq(Event), x \in Event : g \o Append(c, x) = Append(g \o c, x)
      BY AppendMoves
    <3> HIDE DEF e
    <3>2. QED
      BY <2>1, <2>2, <3>1, Zenon
  <2>5. QED
    BY <1>2, <2>3, <2>4 DEF Sent
<1>3. QED
  BY <1>1, <1>2

(* A step that sends nothing, and gives no publisher back what a stream    *)
(* has had, keeps what is known of it.                                     *)
LEMMA SentUntouched ==
  ASSUME TypeInv, SentInv, InOrder, \A s \in Streams : Sent(s)' = Sent(s),
         \A p \in Publishers, s \in Streams : \A n \in 1..MaxEvents :
           Placed(p, s, n) => Placed(p, s, n)'
  PROVE  SentInv' /\ InOrder'
<1>1. InOrder'
  BY DEF InOrder, Sent
<1>2. ASSUME NEW s \in Streams, NEW i \in DOMAIN Sent(s),
             NEW p, p = Sent(s)[i][1], NEW n, n = Sent(s)[i][2]
      PROVE  Placed(p, s, n)'
  <2>1. p \in Publishers /\ n \in 1..MaxEvents
    BY <1>2, SentType
  <2>2. Placed(p, s, n)
    BY <1>2 DEF SentInv
  <2>3. QED
    BY <2>1, <2>2
<1>3. SentInv'
  BY <1>2 DEF SentInv
<1>4. QED
  BY <1>1, <1>3

(* What a publisher does next forgets no stream it has reached. *)
LEMMA PublishKeepsPlaced ==
  ASSUME TypeInv, AtSeen, NEW p \in Publishers,
         PublishStart(p) \/ WalkStep(p) \/ RuntimeThrows(p)
  PROVE  /\ AtSeen'
         /\ \A q \in Publishers, s \in Streams : \A n \in 1..MaxEvents :
              Placed(q, s, n) => Placed(q, s, n)'
<1> DEFINE me == pub[p]
           Goal == /\ AtSeen'
                   /\ \A q \in Publishers, s \in Streams : \A n \in 1..MaxEvents :
                        Placed(q, s, n) => Placed(q, s, n)'
<1> USE DEF AtSeen, Placed, Busy
<1>1. pub \in [Publishers -> Places] /\ me \in Places /\ me.n \in Nat
  BY StreamAssumption DEF TypeInv, Places
<1>2. CASE PublishStart(p)
  <2>1. me.pc = "idle" /\ \A q \in Publishers : q # p => pub'[q] = pub[q]
    BY <1>1, <1>2 DEF PublishStart
  <2>2. CASE hub = NoMap
    <3>1. pub'[p].pc = "idle" /\ pub'[p].n = me.n + 1
      BY <1>1, <1>2, <2>1, <2>2 DEF PublishStart, Places
    <3>2. QED
      BY <1>1, <2>1, <3>1
  <2>3. CASE hub # NoMap
    <3>1. pub'[p].pc = "walk" /\ pub'[p].n = me.n
      BY <1>1, <1>2, <2>1, <2>3 DEF PublishStart, Places
    <3>2. QED
      BY <1>1, <2>1, <3>1
  <2>4. QED
    BY <2>2, <2>3
<1>3. CASE PublishEnd(p)
  <2>1. \A q \in Publishers : q # p => pub'[q] = pub[q]
    BY <1>1, <1>3 DEF PublishEnd
  <2>2. pub'[p].pc = "idle" /\ pub'[p].n = me.n + 1
    BY <1>1, <1>3 DEF PublishEnd, Places
  <2>3. QED
    BY <1>1, <2>1, <2>2
<1>4. ASSUME NEW t \in Streams, PublishNext(p, t) PROVE Goal
  <2>1. \A q \in Publishers : q # p => pub'[q] = pub[q]
    BY <1>1, <1>4 DEF PublishNext
  <2>2. /\ pub'[p].pc = "send" /\ pub'[p].n = me.n /\ pub'[p].at = t
        /\ pub'[p].seen = me.seen \cup {t}
    BY <1>1, <1>4 DEF PublishNext, Places
  <2>3. me.pc = "walk" /\ t \notin me.seen
    BY <1>4 DEF PublishNext
  <2>4. QED
    BY <1>1, <2>1, <2>2, <2>3
<1>5. CASE PublishSend(p) \/ PublishSkip(p) \/ PublishDrop(p)
  <2>1. me.pc = "send" /\ Walk(p)
    BY <1>5 DEF PublishSend, PublishSkip, PublishDrop
  <2>2. \A q \in Publishers : q # p => pub'[q] = pub[q]
    BY <1>1, <2>1 DEF Walk
  <2>3. pub'[p].pc = "walk" /\ pub'[p].n = me.n /\ pub'[p].seen = me.seen
    BY <1>1, <2>1 DEF Walk, Places
  <2>4. QED
    BY <1>1, <2>1, <2>2, <2>3
<1>6. CASE PublishPanics(p)
  <2>1. \A q \in Publishers : q # p => pub'[q] = pub[q]
    BY <1>1, <1>6 DEF PublishPanics
  <2>2. pub'[p].pc = "panicked" /\ pub'[p].n = me.n
    BY <1>1, <1>6 DEF PublishPanics, Places
  <2>3. QED
    BY <1>1, <2>1, <2>2
<1>7. CASE RuntimeThrows(p)
  BY <1>7 DEF RuntimeThrows
<1>8. QED
  BY <1>2, <1>3, <1>4, <1>5, <1>6, <1>7 DEF WalkStep

(* Appending to a sequence of events keeps the order of each publisher. *)
LEMMA AppendFacts ==
  ASSUME NEW old \in Seq(Event), NEW e \in Event, NEW all, all = Append(old, e)
  PROVE  /\ DOMAIN old = 1..Len(old) /\ Len(old) \in Nat
         /\ DOMAIN all = 1..(Len(old) + 1)
         /\ \A i \in DOMAIN old : all[i] = old[i]
         /\ all[Len(old) + 1] = e
  OBVIOUS

LEMMA SendKeepsOrder ==
  ASSUME TypeInv, SentInv, AtSeen, InOrder, NEW p \in Publishers, PublishSend(p)
  PROVE  SentInv' /\ InOrder'
<1>0. PICK t \in Streams, k \in 1..MaxEvents :
        t = pub[p].at /\ k = pub[p].n /\ pub[p].pc = "send"
  BY DEF PublishSend, TypeInv, Busy
<1>1. PICK old : old = Sent(t)
  OBVIOUS
<1>2. PICK all : all = Sent(t)'
  OBVIOUS
<1>3. \A s \in Streams : s # t => Sent(s)' = Sent(s)
  BY <1>0, SendAppends
<1>4. PICK e \in Event : e = <<p, k>> /\ e[1] = p /\ e[2] = k
  <2>1. <<p, k>> \in Event /\ <<p, k>>[1] = p /\ <<p, k>>[2] = k
    BY DEF Event
  <2>2. QED
    BY <2>1, Zenon
<1>5. all = Append(old, e) /\ old \in Seq(Event)
  BY <1>0, <1>1, <1>2, <1>4, SendAppends, SentType
<1>6. /\ DOMAIN old = 1..Len(old) /\ Len(old) \in Nat
      /\ DOMAIN all = 1..(Len(old) + 1)
      /\ \A i \in DOMAIN old : all[i] = old[i]
      /\ all[Len(old) + 1] = e
  BY <1>5, AppendFacts
<1>7. \A i \in DOMAIN old : old[i][1] = p => old[i][2] < k
  <2> SUFFICES ASSUME NEW i \in DOMAIN old, old[i][1] = p PROVE old[i][2] < k
    OBVIOUS
  <2>1. Placed(p, t, old[i][2]) /\ old[i][2] \in 1..MaxEvents
    BY <1>0, <1>1, SentType DEF SentInv
  <2>2. QED
    BY <1>0, <2>1 DEF Placed
<1>8. InOrder'
  <2>1. ASSUME NEW i \in DOMAIN all, NEW j \in DOMAIN all,
               i < j, all[i][1] = all[j][1]
        PROVE  all[i][2] < all[j][2]
    <3>1. CASE j \in DOMAIN old
      <4>1. i \in DOMAIN old
        BY <1>6, <2>1, <3>1
      <4>2. all[i] = old[i] /\ all[j] = old[j]
        BY <1>6, <3>1, <4>1
      <4>3. old[i][1] = old[j][1] => old[i][2] < old[j][2]
        BY <1>0, <1>1, <2>1, <3>1, <4>1 DEF InOrder, Sent
      <4>4. QED
        BY <2>1, <4>2, <4>3
    <3>2. CASE j \notin DOMAIN old
      <4>1. j = Len(old) + 1 /\ i \in DOMAIN old
        BY <1>6, <2>1, <3>2
      <4>2. all[j] = e /\ all[i] = old[i]
        BY <1>6, <4>1
      <4>3. QED
        BY <1>4, <1>7, <2>1, <4>1, <4>2
    <3>3. QED
      BY <3>1, <3>2
  <2>2. ASSUME NEW s \in Streams, NEW g, g = Sent(s)',
               NEW i \in DOMAIN g, NEW j \in DOMAIN g, i < j, g[i][1] = g[j][1]
        PROVE  g[i][2] < g[j][2]
    <3>1. CASE s # t
      <4>1. g = Sent(s)
        BY <1>3, <2>2, <3>1
      <4>2. QED
        BY <2>2, <4>1 DEF InOrder, Sent
    <3>2. CASE s = t
      BY <1>2, <2>1, <2>2, <3>2
    <3>3. QED
      BY <3>1, <3>2
  <2>3. QED
    BY <2>2 DEF InOrder, Sent
<1>9. \A q \in Publishers, s \in Streams : \A n \in 1..MaxEvents :
        Placed(q, s, n) => Placed(q, s, n)'
  BY PublishKeepsPlaced DEF WalkStep
<1>10. Placed(p, t, k)'
  <2>1. pub'[p].pc = "walk" /\ pub'[p].n = k /\ pub'[p].seen = pub[p].seen
    BY <1>0 DEF PublishSend, Walk, TypeInv, Places
  <2>2. t \in pub[p].seen
    BY <1>0 DEF AtSeen
  <2>3. QED
    BY <1>0, <2>1, <2>2 DEF Placed, Busy
<1>11. SentInv'
  <2>1. ASSUME NEW s \in Streams, NEW g, g = Sent(s)', NEW i \in DOMAIN g,
               NEW q, q = g[i][1], NEW n, n = g[i][2]
        PROVE  Placed(q, s, n)'
    <3>1. ASSUME NEW h, h = Sent(s), i \in DOMAIN h, h[i] = g[i]
          PROVE  Placed(q, s, n)'
      <4>1. q \in Publishers /\ n \in 1..MaxEvents
        BY <2>1, <3>1, SentType
      <4>2. Placed(q, s, n)
        BY <2>1, <3>1 DEF SentInv
      <4>3. QED
        BY <1>9, <4>1, <4>2
    <3>2. CASE s # t
      BY <1>3, <2>1, <3>1, <3>2
    <3>3. CASE s = t /\ i \in DOMAIN old
      <4>1. g[i] = old[i]
        BY <1>2, <1>6, <2>1, <3>3
      <4>2. QED
        BY <1>1, <3>1, <3>3, <4>1
    <3>4. CASE s = t /\ i \notin DOMAIN old
      <4>1. i = Len(old) + 1
        BY <1>2, <1>6, <2>1, <3>4
      <4>2. g[i] = e
        BY <1>2, <1>6, <2>1, <3>4, <4>1
      <4>3. q = p /\ n = k
        BY <1>4, <2>1, <4>2
      <4>4. QED
        BY <1>10, <3>4, <4>3
    <3>5. QED
      BY <3>2, <3>3, <3>4
  <2>2. QED
    BY <2>1 DEF SentInv
<1>12. QED
  BY <1>8, <1>11

LEMMA OrderStep == TypeInv /\ SentInv /\ AtSeen /\ InOrder /\ [Next]_vars
                     => (SentInv /\ AtSeen /\ InOrder)'
<1> SUFFICES ASSUME TypeInv, SentInv, AtSeen, InOrder, [Next]_vars
             PROVE  (SentInv /\ AtSeen /\ InOrder)'
  OBVIOUS
<1>1. ASSUME UNCHANGED pub, \A s \in Streams : Sent(s)' = Sent(s)
      PROVE  (SentInv /\ AtSeen /\ InOrder)'
  <2>1. \A q \in Publishers, s \in Streams : \A n \in 1..MaxEvents :
          Placed(q, s, n) => Placed(q, s, n)'
    BY <1>1 DEF Placed, Busy
  <2>2. QED
    BY <1>1, <2>1, SentUntouched DEF AtSeen
<1>2. ASSUME UNCHANGED <<ch, got, pub>> PROVE (SentInv /\ AtSeen /\ InOrder)'
  BY <1>1, <1>2 DEF Sent
<1>3. ASSUME NEW s \in Streams,
             SubscribeStep(s) \/ Deliver(s) \/ ClientLeaves(s) \/ UnsubscribeStep(s)
      PROVE  (SentInv /\ AtSeen /\ InOrder)'
  <2>1. CASE Deliver(s)
    BY <1>1, <2>1, ShowKeepsSent DEF Deliver
  <2>2. CASE SubscribeStep(s) \/ ClientLeaves(s) \/ UnsubscribeStep(s)
    BY <1>2, <2>2 DEF SubscribeStep, SubscribeLock, SubscribeInsert, ClientLeaves,
       UnsubscribeStep, UnsubscribeLock, UnsubscribeSignal, UnsubscribeClose
  <2>3. QED
    BY <1>3, <2>1, <2>2
<1>4. ASSUME NEW p \in Publishers, PublishStart(p) \/ WalkStep(p) \/ RuntimeThrows(p)
      PROVE  (SentInv /\ AtSeen /\ InOrder)'
  <2>1. AtSeen'
    BY <1>4, PublishKeepsPlaced
  <2>2. CASE PublishSend(p)
    BY <2>1, <2>2, SendKeepsOrder
  <2>3. CASE ~PublishSend(p)
    <3>1. UNCHANGED <<ch, got>>
      BY <1>4, <2>3 DEF PublishStart, WalkStep, PublishEnd, PublishNext, PublishSkip,
         PublishDrop, PublishPanics, RuntimeThrows
    <3>2. \A s \in Streams : Sent(s)' = Sent(s)
      BY <3>1 DEF Sent
    <3>3. QED
      BY <1>4, <2>1, <3>2, PublishKeepsPlaced, SentUntouched
  <2>4. QED
    BY <2>2, <2>3
<1>5. QED
  BY <1>2, <1>3, <1>4 DEF Next, vars

(* No stream is sent an event of one publisher twice, or after a later     *)
(* one, whatever subscribes and leaves during a walk: InOrder.  The        *)
(* invariant says that a walk knows every stream its event has reached.    *)
THEOREM InOrderAlways == Spec => []InOrder
<1>1. Init => SentInv /\ AtSeen /\ InOrder
  <2> SUFFICES ASSUME Init PROVE SentInv /\ AtSeen /\ InOrder
    OBVIOUS
  <2>1. \A s \in Streams : got[s] = <<>> /\ ch[s] = <<>>
    BY DEF Init
  <2>2. <<>> \o <<>> = <<>> /\ DOMAIN <<>> = {}
    OBVIOUS
  <2>3. \A s \in Streams : DOMAIN (got[s] \o ch[s]) = {}
    BY <2>1, <2>2
  <2>4. AtSeen
    BY DEF Init, AtSeen
  <2>5. QED
    BY <2>3, <2>4 DEF SentInv, Sent, InOrder
<1>2. QED
  BY <1>1, TypeInitial, TypeStep, HubInitial, HubStep, OrderStep, PTL DEF Spec

-----------------------------------------------------------------------------
(* What a walk passes by.  An inner map other than the user's is empty, so *)
(* an entry goes only with its stream's unsubscribe, and a stream that was *)
(* there when the walk began never comes anew: of the entries the walk has *)
(* produced and that are still there, each has the event or was full.      *)
MapsInv == \A m \in Streams :
  /\ m # hub => inner[m] = {}
  /\ \A s \in inner[m] : stream[s] \in {"open", "leaving", "deleting"}
StartInv == \A p \in Publishers : Busy(p) =>
  pub[p].map \in Streams /\ \A s \in pub[p].start : stream[s] \notin {"idle", "inserting"}
Reached(p, s) ==
  \/ Len(Sent(s)) >= BufSize
  \/ \E i \in DOMAIN Sent(s) : Sent(s)[i] = <<p, pub[p].n>>
PassedInv == \A p \in Publishers : Busy(p) =>
  \A s \in pub[p].start \cap inner[pub[p].map] \cap pub[p].seen :
    (pub[p].pc = "send" /\ pub[p].at = s) \/ Reached(p, s)

LEMMA MapsStep == MapsInv /\ HubInv /\ [Next]_vars => MapsInv'
<1> SUFFICES ASSUME MapsInv, HubInv, [Next]_vars PROVE MapsInv'
    OBVIOUS
<1> USE StreamAssumption DEF MapsInv, HubInv, HubType
<1>1. ASSUME UNCHANGED streamVars PROVE MapsInv'
    BY <1>1 DEF streamVars
<1>2. ASSUME NEW s \in Streams, SubscribeLock(s) PROVE MapsInv'
    BY <1>2 DEF SubscribeLock
<1>3. ASSUME NEW s \in Streams, SubscribeInsert(s) PROVE MapsInv'
  <2>1. hub \in Streams
      BY <1>3 DEF SubscribeInsert, Mutex, Held
  <2>2. QED
      BY <1>3, <2>1 DEF SubscribeInsert
<1>4. ASSUME NEW s \in Streams, ClientLeaves(s) \/ UnsubscribeLock(s) PROVE MapsInv'
    BY <1>4 DEF ClientLeaves, UnsubscribeLock
<1>5. ASSUME NEW s \in Streams, UnsubscribeSignal(s) PROVE MapsInv'
  <2>1. hub \in Streams
      BY <1>5 DEF UnsubscribeSignal, Mutex, Held
  <2>2. QED
      BY <1>5, <2>1 DEF UnsubscribeSignal
<1>6. ASSUME NEW s \in Streams, UnsubscribeClose(s) PROVE MapsInv'
    BY <1>6 DEF UnsubscribeClose
<1>7. ASSUME NEW s \in Streams, Deliver(s) PROVE UNCHANGED streamVars
    BY <1>7 DEF Deliver
<1>8. ASSUME NEW p \in Publishers, PublishStart(p) \/ WalkStep(p) \/ RuntimeThrows(p)
      PROVE  UNCHANGED streamVars
    BY <1>8 DEF PublishStart, WalkStep, PublishEnd, PublishNext, PublishSend, PublishSkip,
       PublishDrop, PublishPanics, RuntimeThrows
<1>9. QED
    BY <1>1, <1>2, <1>3, <1>4, <1>5, <1>6, <1>7, <1>8
       DEF Next, vars, SubscribeStep, UnsubscribeStep

(* What a step of a publisher makes of its place. *)
LEMMA PlaceMoves ==
  ASSUME TypeInv, NEW p \in Publishers
  PROVE  /\ pub[p] \in Places
         /\ PublishStart(p) =>
              /\ pub[p].pc = "idle"
              /\ \/ pub'[p] = [pub[p] EXCEPT !.n = @ + 1]
                 \/ /\ hub # NoMap
                    /\ pub'[p] = [pub[p] EXCEPT !.pc = "walk", !.map = hub,
                                                !.seen = {}, !.start = inner[hub]]
         /\ \A t \in Streams : PublishNext(p, t) =>
              /\ pub[p].pc = "walk"
              /\ pub'[p] = [pub[p] EXCEPT !.pc = "send", !.at = t, !.seen = @ \cup {t}]
         /\ PublishSend(p) \/ PublishSkip(p) \/ PublishDrop(p) =>
              /\ pub[p].pc = "send"
              /\ pub'[p] = [pub[p] EXCEPT !.pc = "walk", !.at = NoMap]
         /\ PublishEnd(p) => pub'[p].pc = "idle"
         /\ PublishPanics(p) => pub'[p].pc = "panicked"
<1>1. pub \in [Publishers -> Places] /\ pub[p] \in Places
    BY DEF TypeInv
<1>2. ASSUME PublishStart(p)
      PROVE  /\ pub[p].pc = "idle"
             /\ \/ pub'[p] = [pub[p] EXCEPT !.n = @ + 1]
                \/ /\ hub # NoMap
                   /\ pub'[p] = [pub[p] EXCEPT !.pc = "walk", !.map = hub,
                                               !.seen = {}, !.start = inner[hub]]
    BY <1>1, <1>2 DEF PublishStart
<1>3. ASSUME NEW t \in Streams, PublishNext(p, t)
      PROVE  /\ pub[p].pc = "walk"
             /\ pub'[p] = [pub[p] EXCEPT !.pc = "send", !.at = t, !.seen = @ \cup {t}]
    BY <1>1, <1>3 DEF PublishNext
<1>4. ASSUME PublishSend(p) \/ PublishSkip(p) \/ PublishDrop(p)
      PROVE  /\ pub[p].pc = "send"
             /\ pub'[p] = [pub[p] EXCEPT !.pc = "walk", !.at = NoMap]
    BY <1>1, <1>4 DEF PublishSend, PublishSkip, PublishDrop, Walk
<1>5. PublishEnd(p) => pub'[p].pc = "idle"
    BY <1>1 DEF PublishEnd, Places
<1>6. PublishPanics(p) => pub'[p].pc = "panicked"
    BY <1>1 DEF PublishPanics, Places
<1>7. QED
    BY <1>1, <1>2, <1>3, <1>4, <1>5, <1>6

LEMMA StartStep == StartInv /\ MapsInv /\ HubInv /\ TypeInv /\ [Next]_vars => StartInv'
<1> SUFFICES ASSUME StartInv, MapsInv, HubInv, TypeInv, [Next]_vars PROVE StartInv'
    OBVIOUS
<1> USE DEF HubInv, HubType, TypeInv
<1>1. ASSUME UNCHANGED pub,
             \A s \in Streams : stream'[s] \in {"idle", "inserting"} =>
                                  stream[s] \in {"idle", "inserting"}
      PROVE  StartInv'
    BY <1>1 DEF StartInv, Busy, Places
<1>2. ASSUME NEW s \in Streams,
             SubscribeStep(s) \/ Deliver(s) \/ ClientLeaves(s) \/ UnsubscribeStep(s)
      PROVE  StartInv'
    BY <1>1, <1>2 DEF SubscribeStep, SubscribeLock, SubscribeInsert, Deliver, ClientLeaves,
       UnsubscribeStep, UnsubscribeLock, UnsubscribeSignal, UnsubscribeClose, streamVars
<1>3. ASSUME NEW p \in Publishers, PublishStart(p) PROVE StartInv'
  <2>1. UNCHANGED stream /\ \A q \in Publishers \ {p} : pub'[q] = pub[q]
      BY <1>3 DEF PublishStart, streamVars
  <2>2. pub[p].pc = "idle" /\ pub[p] \in Places
      BY <1>3, PlaceMoves
  <2>3. CASE pub'[p] = [pub[p] EXCEPT !.n = @ + 1]
    <3>1. pub'[p].pc = "idle"
        BY <2>2, <2>3 DEF Places
    <3>2. QED
        BY <2>1, <3>1 DEF StartInv, Busy
  <2>4. CASE /\ hub # NoMap
             /\ pub'[p] = [pub[p] EXCEPT !.pc = "walk", !.map = hub,
                                         !.seen = {}, !.start = inner[hub]]
    <3>1. pub'[p].map \in Streams /\ pub'[p].start = inner[hub]
        BY <2>2, <2>4 DEF Places
    <3>2. \A s \in inner[hub] : stream'[s] \notin {"idle", "inserting"}
        BY <2>1, <2>4 DEF MapsInv
    <3>3. QED
        BY <2>1, <3>1, <3>2 DEF StartInv, Busy
  <2>5. QED
      BY <1>3, <2>3, <2>4, PlaceMoves
<1>4. ASSUME NEW p \in Publishers, WalkStep(p) \/ RuntimeThrows(p) PROVE StartInv'
  <2>1. UNCHANGED stream /\ \A q \in Publishers \ {p} : pub'[q] = pub[q]
      BY <1>4 DEF WalkStep, PublishEnd, PublishNext, PublishSend, PublishSkip, PublishDrop,
         PublishPanics, RuntimeThrows, Walk, streamVars
  <2>2. Busy(p)' => Busy(p) /\ pub'[p].map = pub[p].map /\ pub'[p].start = pub[p].start
    <3>1. pub[p] \in Places
        OBVIOUS
    <3>2. CASE RuntimeThrows(p)
        BY <3>2 DEF RuntimeThrows, Busy
    <3>3. CASE PublishEnd(p) \/ PublishPanics(p)
        BY <3>3, PlaceMoves DEF Busy
    <3>4. ASSUME NEW t \in Streams, PublishNext(p, t)
          PROVE  Busy(p) /\ pub'[p].map = pub[p].map /\ pub'[p].start = pub[p].start
        BY <3>1, <3>4, PlaceMoves DEF Busy, Places
    <3>5. CASE PublishSend(p) \/ PublishSkip(p) \/ PublishDrop(p)
        BY <3>1, <3>5, PlaceMoves DEF Busy, Places
    <3>6. QED
        BY <1>4, <3>2, <3>3, <3>4, <3>5 DEF WalkStep
  <2>3. QED
      BY <2>1, <2>2 DEF StartInv, Busy
<1>5. CASE UNCHANGED vars
    BY <1>1, <1>5 DEF vars, streamVars
<1>6. QED
    BY <1>2, <1>3, <1>4, <1>5 DEF Next

(* A stream keeps what it has been sent. *)
LEMMA ReachedStays ==
  ASSUME TypeInv, [Next]_vars, NEW p \in Publishers, NEW s \in Streams,
         pub'[p].n = pub[p].n, Reached(p, s)
  PROVE  Reached(p, s)'
<1>1. ASSUME Sent(s)' = Sent(s) PROVE Reached(p, s)'
    BY <1>1 DEF Reached
<1>2. ASSUME NEW q \in Publishers, PublishSend(q), s = pub[q].at PROVE Reached(p, s)'
  <2>1. PICK e \in Event : e = <<q, pub[q].n>>
      BY <1>2 DEF PublishSend, TypeInv, Busy, Event
  <2>2. PICK old \in Seq(Event) : old = Sent(s)
      BY SentType
  <2>3. PICK all : all = Append(old, e)
      OBVIOUS
  <2>4. Sent(s)' = all
      BY <1>2, <2>1, <2>2, <2>3, SendAppends
  <2>5. /\ DOMAIN old = 1..Len(old) /\ Len(old) \in Nat
        /\ DOMAIN all = 1..(Len(old) + 1) /\ Len(all) = Len(old) + 1
        /\ \A i \in DOMAIN old : all[i] = old[i]
      BY <2>3, AppendFacts
  <2>6. CASE Len(Sent(s)) >= BufSize
      BY <2>2, <2>4, <2>5, <2>6, StreamAssumption DEF Reached
  <2>7. CASE \E i \in DOMAIN Sent(s) : Sent(s)[i] = <<p, pub[p].n>>
    <3>1. PICK i \in DOMAIN old : old[i] = <<p, pub[p].n>>
        BY <2>2, <2>7
    <3>2. i \in DOMAIN all /\ all[i] = <<p, pub'[p].n>>
        BY <2>5, <3>1
    <3>3. QED
        BY <2>4, <3>2 DEF Reached
  <2>8. QED
      BY <2>6, <2>7 DEF Reached
<1>3. ASSUME UNCHANGED <<ch, got>> PROVE Sent(s)' = Sent(s)
    BY <1>3 DEF Sent
<1>4. CASE \E t \in Streams : Deliver(t)
    BY <1>1, <1>4, ShowKeepsSent
<1>5. CASE \E q \in Publishers : PublishSend(q)
    BY <1>1, <1>2, <1>5, SendAppends
<1>6. ASSUME \A t \in Streams : ~Deliver(t), \A q \in Publishers : ~PublishSend(q)
      PROVE  UNCHANGED <<ch, got>>
    BY <1>6 DEF Next, vars, SubscribeStep, SubscribeLock, SubscribeInsert, ClientLeaves,
       UnsubscribeStep, UnsubscribeLock, UnsubscribeSignal, UnsubscribeClose, PublishStart,
       WalkStep, PublishEnd, PublishNext, PublishSkip, PublishDrop, PublishPanics,
       RuntimeThrows
<1>7. QED
    BY <1>1, <1>3, <1>4, <1>5, <1>6

LEMMA PassedStep ==
  PassedInv /\ StartInv /\ MapsInv /\ HubInv /\ TypeInv /\ [Next]_vars => PassedInv'
<1> SUFFICES ASSUME PassedInv, StartInv, MapsInv, HubInv, TypeInv, [Next]_vars,
                    NEW p \in Publishers, Busy(p)',
                    NEW s \in pub'[p].start \cap inner'[pub'[p].map] \cap pub'[p].seen
             PROVE  (pub'[p].pc = "send" /\ pub'[p].at = s) \/ Reached(p, s)'
    BY DEF PassedInv
<1> USE StreamAssumption DEF HubInv, HubType, TypeInv
<1>1. ASSUME Busy(p), pub'[p].n = pub[p].n, pub'[p].map = pub[p].map,
             pub'[p].start = pub[p].start, s \in pub[p].seen, s \in inner[pub[p].map],
             ~(pub[p].pc = "send" /\ pub[p].at = s)
      PROVE  Reached(p, s)'
  <2>1. Reached(p, s) /\ s \in Streams
      BY <1>1 DEF PassedInv, Places
  <2>2. QED
      BY <1>1, <2>1, ReachedStays
<1>2. ASSUME UNCHANGED pub, s \in inner[pub[p].map]
      PROVE  (pub'[p].pc = "send" /\ pub'[p].at = s) \/ Reached(p, s)'
    BY <1>1, <1>2 DEF Busy
<1>3. ASSUME UNCHANGED pub PROVE Busy(p) /\ pub[p].map \in Streams /\ s \in Streams
                                /\ stream[s] \notin {"idle", "inserting"}
    BY <1>3 DEF StartInv, Busy, Places
<1>4. ASSUME NEW t \in Streams,
             SubscribeStep(t) \/ Deliver(t) \/ ClientLeaves(t) \/ UnsubscribeStep(t)
      PROVE  UNCHANGED pub /\ s \in inner[pub[p].map]
  <2>1. UNCHANGED pub
      BY <1>4 DEF SubscribeStep, SubscribeLock, SubscribeInsert, Deliver, ClientLeaves,
         UnsubscribeStep, UnsubscribeLock, UnsubscribeSignal, UnsubscribeClose, streamVars
  <2>2. CASE SubscribeInsert(t)
      BY <1>3, <2>1, <2>2 DEF SubscribeInsert
  <2>3. CASE UnsubscribeSignal(t)
      BY <1>3, <2>1, <2>3 DEF UnsubscribeSignal
  <2>4. CASE UNCHANGED inner
      BY <2>1, <2>4
  <2>5. QED
      BY <1>4, <2>1, <2>2, <2>3, <2>4 DEF SubscribeStep, SubscribeLock, Deliver,
         ClientLeaves, UnsubscribeStep, UnsubscribeLock, UnsubscribeClose, streamVars
<1>5. CASE UNCHANGED vars
    BY <1>2, <1>5 DEF vars, streamVars
<1>6. ASSUME NEW q \in Publishers, q # p, PublishStart(q) \/ WalkStep(q) \/ RuntimeThrows(q)
      PROVE  (pub'[p].pc = "send" /\ pub'[p].at = s) \/ Reached(p, s)'
  <2>1. pub'[p] = pub[p] /\ UNCHANGED inner
      BY <1>6 DEF PublishStart, WalkStep, PublishEnd, PublishNext, PublishSend, PublishSkip,
         PublishDrop, PublishPanics, RuntimeThrows, Walk, streamVars
  <2>2. QED
      BY <1>1, <2>1 DEF Busy
<1>7. CASE PublishStart(p)
    BY <1>7, PlaceMoves DEF Busy, Places
<1>8. CASE PublishEnd(p) \/ PublishPanics(p)
    BY <1>8, PlaceMoves DEF Busy
<1>9. CASE RuntimeThrows(p)
    BY <1>2, <1>9 DEF RuntimeThrows, streamVars
<1>10. ASSUME NEW t \in Streams, PublishNext(p, t)
       PROVE  (pub'[p].pc = "send" /\ pub'[p].at = s) \/ Reached(p, s)'
  <2>1. /\ pub[p].pc = "walk" /\ UNCHANGED inner
        /\ pub'[p] = [pub[p] EXCEPT !.pc = "send", !.at = t, !.seen = @ \cup {t}]
      BY <1>10 DEF PublishNext, streamVars
  <2>2. pub[p] \in Places
      OBVIOUS
  <2>3. CASE s = t
      BY <2>1, <2>2, <2>3 DEF Places
  <2>4. CASE s # t
      BY <1>1, <2>1, <2>2, <2>4 DEF Busy, Places
  <2>5. QED
      BY <2>3, <2>4
<1>11. ASSUME PublishSend(p) \/ PublishSkip(p) \/ PublishDrop(p)
       PROVE  Reached(p, s)'
  <2>1. /\ pub[p].pc = "send" /\ UNCHANGED <<inner, stream>> /\ pub[p] \in Places
        /\ pub'[p] = [pub[p] EXCEPT !.pc = "walk", !.at = NoMap]
      BY <1>11 DEF PublishSend, PublishSkip, PublishDrop, Walk, streamVars
  <2>2. Busy(p) /\ pub[p].map \in Streams /\ s \in Streams /\ pub'[p].n = pub[p].n
      BY <2>1 DEF Busy, StartInv, Places
  <2>3. CASE pub[p].at # s
      BY <1>1, <2>1, <2>2, <2>3 DEF Places
  <2>4. CASE pub[p].at = s /\ PublishSkip(p)
    <3>1. stream[s] \in {"open", "leaving", "deleting"}
        BY <2>1, <2>2 DEF MapsInv, Places
    <3>2. QED
        BY <2>4, <3>1 DEF PublishSkip, ClosedReady
  <2>5. CASE pub[p].at = s /\ PublishDrop(p)
    <3>1. Len(ch[s]) >= BufSize /\ Len(ch[s]) \in Nat
        BY <2>2, <2>5 DEF PublishDrop, HasRoom, ClosedReady, ChannelClosed
    <3>2. Len(got[s] \o ch[s]) >= Len(ch[s])
        BY <2>2
    <3>3. Reached(p, s)
        BY <2>2, <3>1, <3>2 DEF Reached, Sent
    <3>4. QED
        BY <2>2, <3>3, ReachedStays
  <2>6. CASE pub[p].at = s /\ PublishSend(p)
    <3>1. PICK e \in Event : e = <<p, pub[p].n>>
        BY <2>2, <2>6 DEF PublishSend, Busy, Event
    <3>2. PICK old \in Seq(Event) : old = Sent(s)
        BY <2>2, SentType
    <3>3. PICK all : all = Append(old, e)
        OBVIOUS
    <3>4. Sent(s)' = all
        BY <2>2, <2>6, <3>1, <3>2, <3>3, SendAppends
    <3>5. Len(old) + 1 \in DOMAIN all /\ all[Len(old) + 1] = e
        BY <3>3, AppendFacts
    <3>6. QED
        BY <2>2, <3>1, <3>4, <3>5 DEF Reached
  <2>7. QED
      BY <1>11, <2>3, <2>4, <2>5, <2>6
<1>12. QED
    BY <1>2, <1>4, <1>5, <1>6, <1>7, <1>8, <1>9, <1>10, <1>11 DEF Next, WalkStep

(* When Publish returns, every stream that was there all the while has the *)
(* event or was full: NothingLost, whatever streams come and go meanwhile. *)
THEOREM NothingIsLost == Spec => NothingLost
<1> DEFINE Inv == TypeInv /\ HubInv /\ MapsInv /\ StartInv /\ PassedInv
<1>1. Init => Inv
  <2>1. Init => MapsInv /\ StartInv /\ PassedInv
      BY DEF Init, MapsInv, StartInv, PassedInv, Busy
  <2>2. QED
      BY <2>1, TypeInitial, HubInitial
<1>2. Inv /\ [Next]_vars => Inv'
    BY TypeStep, HubStep, MapsStep, StartStep, PassedStep
<1>3. Inv /\ [Next]_vars =>
        [\A p \in Publishers :
           pub[p].pc = "walk" /\ pub'[p].pc = "idle" =>
             \A s \in pub[p].start \cap inner[pub[p].map] :
               LET all == got[s] \o ch[s] IN
               Len(all) >= BufSize \/ \E i \in DOMAIN all : all[i] = <<p, pub[p].n>>]_vars
  <2> SUFFICES ASSUME Inv, Next, NEW p \in Publishers,
                      pub[p].pc = "walk", pub'[p].pc = "idle",
                      NEW s \in pub[p].start \cap inner[pub[p].map]
               PROVE  Reached(p, s)
      BY DEF Reached, Sent
  <2>1. PublishEnd(p)
    <3>1. ~UNCHANGED pub
        OBVIOUS
    <3>2. ASSUME NEW q \in Publishers, PublishStart(q) \/ WalkStep(q) \/ RuntimeThrows(q)
          PROVE  PublishEnd(p)
      <4>1. q = p
          BY <3>1, <3>2 DEF PublishStart, WalkStep, PublishEnd, PublishNext, PublishSend,
             PublishSkip, PublishDrop, PublishPanics, RuntimeThrows, Walk, TypeInv
      <4>2. QED
          BY <3>1, <3>2, <4>1, PlaceMoves DEF WalkStep, RuntimeThrows, Places
    <3>3. QED
        BY <3>1, <3>2 DEF Next, SubscribeStep, SubscribeLock, SubscribeInsert, Deliver,
           ClientLeaves, UnsubscribeStep, UnsubscribeLock, UnsubscribeSignal, UnsubscribeClose
  <2>2. s \in pub[p].seen
      BY <2>1 DEF PublishEnd
  <2>3. QED
      BY <2>2 DEF PassedInv, Busy
<1>4. QED
    BY <1>1, <1>2, <1>3, PTL DEF Spec, NothingLost

(* A walk never comes to a subscriber whose channel is closed, and finds   *)
(* nothing in an inner map that h.subscribers has dropped meanwhile.  So   *)
(* PublishPanics needs a whole unsubscribe, up to its close, between the   *)
(* moment the walk came to the stream and its select.                      *)
THEOREM WalksFindOpenChannels ==
  Spec => [][\A p \in Publishers, s \in Streams :
               PublishNext(p, s) => ~ChannelClosed(s) /\ pub[p].map = hub]_vars
<1> DEFINE Inv == TypeInv /\ HubInv /\ MapsInv /\ StartInv
<1>1. Init => Inv
  <2>1. Init => MapsInv /\ StartInv
      BY DEF Init, MapsInv, StartInv, Busy
  <2>2. QED
      BY <2>1, TypeInitial, HubInitial
<1>2. Inv /\ [Next]_vars => Inv'
    BY TypeStep, HubStep, MapsStep, StartStep
<1>3. Inv => [\A p \in Publishers, s \in Streams :
                PublishNext(p, s) => ~ChannelClosed(s) /\ pub[p].map = hub]_vars
  <2> SUFFICES ASSUME Inv, NEW p \in Publishers, NEW s \in Streams, PublishNext(p, s)
               PROVE  ~ChannelClosed(s) /\ pub[p].map = hub
      OBVIOUS
  <2>1. pub[p].map \in Streams /\ s \in inner[pub[p].map]
      BY DEF PublishNext, StartInv, Busy
  <2>2. QED
      BY <2>1 DEF MapsInv, ChannelClosed
<1>4. QED
    BY <1>1, <1>2, <1>3, PTL DEF Spec
=============================================================================
