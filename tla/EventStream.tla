----------------------------- MODULE EventStream -----------------------------
(***************************************************************************)
(* restapi.SSEHub: status events of one user's tasks, published by the     *)
(* goroutines that change a task and copied into the buffered channel of   *)
(* each event stream the user has open.                                    *)
(*                                                                         *)
(* The outer map h.subscribers and its RWMutex are shared by all users;    *)
(* users do not share an inner map, so one user is modelled.  Subscribe    *)
(* and unsubscribe hold the mutex to their end.  Publish gives it up       *)
(* before it walks the inner map, so its walk races with them: the Go      *)
(* runtime may notice a map being written during the walk and kill the     *)
(* process, and a send can find its channel closed and panic.              *)
(***************************************************************************)
EXTENDS Naturals, Sequences

CONSTANTS
  Streams,      \* calls of ServeSSE
  Publishers,   \* goroutines that publish, one event after the other
  Requests,     \* those that are HTTP requests: Recoverer catches a panic
  BufSize,      \* capacity of subscriber.ch (32)
  MaxEvents,    \* events a publisher publishes
  NoMap         \* the user has no inner map

ASSUME StreamAssumption ==
  /\ Requests \subseteq Publishers /\ NoMap \notin Streams
  /\ BufSize \in Nat \ {0} /\ MaxEvents \in Nat

VARIABLES
  hub,          \* h.subscribers[user]: an inner map, named after its creator
  inner,        \* the subscribers in each inner map
  stream,       \* where each ServeSSE is
  ch,           \* subscriber.ch
  got,          \* what was written to each client
  pub,          \* where each Publish is
  dead          \* the process was killed by a panic or the runtime

streamVars == <<hub, inner, stream>>
vars == <<streamVars, ch, got, pub, dead>>

Event == Publishers \X (1..MaxEvents)

TypeOK ==
  /\ hub \in Streams \cup {NoMap}
  /\ inner \in [Streams -> SUBSET Streams]
  /\ stream \in [Streams -> {"idle", "inserting", "open", "leaving",
                             "deleting", "signalled", "done"}]
  /\ \A s \in Streams : ch[s] \in Seq(Event) /\ Len(ch[s]) <= BufSize
  /\ \A s \in Streams : got[s] \in Seq(Event)
  /\ pub \in [Publishers ->
       [pc : {"idle", "walk", "send", "panicked"}, n : 1..(MaxEvents + 1),
        map : Streams \cup {NoMap}, seen : SUBSET Streams, start : SUBSET Streams,
        at : Streams \cup {NoMap}]]
  /\ dead \in BOOLEAN

Init ==
  /\ hub = NoMap
  /\ inner = [s \in Streams |-> {}]
  /\ stream = [s \in Streams |-> "idle"]
  /\ ch = [s \in Streams |-> <<>>] /\ got = [s \in Streams |-> <<>>]
  /\ pub = [p \in Publishers |-> [pc |-> "idle", n |-> 1, map |-> NoMap,
                                  seen |-> {}, start |-> {}, at |-> NoMap]]
  /\ dead = FALSE

(* h.mu is held for writing; an inner map is being written. *)
Locked == \E s \in Streams :
  stream[s] \in {"inserting", "deleting", "signalled"}
Writing(m) == m = hub /\ \E s \in Streams : stream[s] \in {"inserting", "deleting"}

-----------------------------------------------------------------------------
(* Subscribe: the first subscriber of a user makes the inner map. *)
SubscribeLock(s) ==
  /\ stream[s] = "idle" /\ ~Locked
  /\ hub' = IF hub = NoMap THEN s ELSE hub
  /\ stream' = [stream EXCEPT ![s] = "inserting"]
  /\ UNCHANGED <<inner, ch, got, pub, dead>>

SubscribeInsert(s) ==
  /\ stream[s] = "inserting"
  /\ inner' = [inner EXCEPT ![hub] = @ \cup {s}]
  /\ stream' = [stream EXCEPT ![s] = "open"]
  /\ UNCHANGED <<hub, ch, got, pub, dead>>

(* The loop of ServeSSE writes the next event to the client ... *)
Deliver(s) ==
  /\ stream[s] = "open" /\ ch[s] # <<>>
  /\ got' = [got EXCEPT ![s] = Append(@, Head(ch[s]))]
  /\ ch' = [ch EXCEPT ![s] = Tail(@)]
  /\ UNCHANGED <<streamVars, pub, dead>>

(* ... until the client is gone or a write fails (at the latest when the   *)
(* server's WriteTimeout has passed).                                      *)
ClientLeaves(s) ==
  /\ stream[s] = "open"
  /\ stream' = [stream EXCEPT ![s] = "leaving"]
  /\ UNCHANGED <<hub, inner, ch, got, pub, dead>>

(* The deferred unsubscribe: look the subscriber up, delete it *)
UnsubscribeLock(s) ==
  /\ stream[s] = "leaving" /\ ~Locked
  /\ hub # NoMap /\ s \in inner[hub]
  /\ stream' = [stream EXCEPT ![s] = "deleting"]
  /\ UNCHANGED <<hub, inner, ch, got, pub, dead>>

(* and close its closed channel, *)
UnsubscribeSignal(s) ==
  /\ stream[s] = "deleting"
  /\ inner' = [inner EXCEPT ![hub] = @ \ {s}]
  /\ stream' = [stream EXCEPT ![s] = "signalled"]
  /\ UNCHANGED <<hub, ch, got, pub, dead>>

(* Mutant: the user's entry goes whoever else is subscribed. *)
UnsubscribeDropsMap(s) ==
  /\ stream[s] = "signalled"
  /\ hub' = NoMap
  /\ stream' = [stream EXCEPT ![s] = "done"]
  /\ UNCHANGED <<inner, ch, got, pub, dead>>

(* Mutant: the channel is closed once somebody has emptied it. *)
UnsubscribeDrains(s) ==
  /\ stream[s] = "signalled" /\ ch[s] = <<>>
  /\ hub' = IF inner[hub] = {} THEN NoMap ELSE hub
  /\ stream' = [stream EXCEPT ![s] = "done"]
  /\ UNCHANGED <<inner, ch, got, pub, dead>>

(* close its event channel, and forget an inner map that became empty. *)
UnsubscribeClose(s) ==
  /\ stream[s] = "signalled"
  /\ hub' = IF inner[hub] = {} THEN NoMap ELSE hub
  /\ stream' = [stream EXCEPT ![s] = "done"]
  /\ UNCHANGED <<inner, ch, got, pub, dead>>

-----------------------------------------------------------------------------
(* Publish takes the user's inner map under the mutex.  Without one there  *)
(* is nobody to tell.                                                      *)
PublishStart(p) ==
  /\ pub[p].pc = "idle" /\ pub[p].n <= MaxEvents /\ ~Locked
  /\ \/ /\ hub = NoMap
        /\ pub' = [pub EXCEPT ![p].n = @ + 1]
     \/ /\ hub # NoMap
        /\ pub' = [pub EXCEPT ![p].pc = "walk", ![p].map = hub,
                              ![p].seen = {}, ![p].start = inner[hub]]
  /\ UNCHANGED <<streamVars, ch, got, dead>>

(* Mutant: the walk comes back to entries it has produced. *)
PublishNextRepeats(p, s) ==
  /\ pub[p].pc = "walk" /\ s \in inner[pub[p].map]
  /\ pub' = [pub EXCEPT ![p].pc = "send", ![p].at = s, ![p].seen = @ \cup {s}]
  /\ UNCHANGED <<streamVars, ch, got, dead>>

(* The walk produces an entry once; an entry inserted meanwhile may be     *)
(* produced or not.                                                        *)
PublishNext(p, s) ==
  /\ pub[p].pc = "walk" /\ s \in inner[pub[p].map] \ pub[p].seen
  /\ pub' = [pub EXCEPT ![p].pc = "send", ![p].at = s, ![p].seen = @ \cup {s}]
  /\ UNCHANGED <<streamVars, ch, got, dead>>

PublishEnd(p) ==
  /\ pub[p].pc = "walk"
  /\ inner[pub[p].map] \cap pub[p].start \subseteq pub[p].seen
  /\ pub' = [pub EXCEPT ![p].pc = "idle", ![p].n = @ + 1, ![p].map = NoMap,
                        ![p].seen = {}, ![p].start = {}]
  /\ UNCHANGED <<streamVars, ch, got, dead>>

(* The cases of the select for the subscriber the walk is at; of those     *)
(* that are ready one is taken, and the default only if none is.           *)
ClosedReady(s) == stream[s] \in {"signalled", "done"}
ChannelClosed(s) == stream[s] = "done"

(* Mutant: the events of a slow client pile up. *)
HasRoomAlways(s) == ~ChannelClosed(s)

HasRoom(s) == ~ChannelClosed(s) /\ Len(ch[s]) < BufSize

Walk(p) == pub' = [pub EXCEPT ![p].pc = "walk", ![p].at = NoMap]

PublishSend(p) ==
  LET s == pub[p].at IN
  /\ pub[p].pc = "send" /\ HasRoom(s)
  /\ ch' = [ch EXCEPT ![s] = Append(@, <<p, pub[p].n>>)]
  /\ Walk(p)
  /\ UNCHANGED <<streamVars, got, dead>>

(* Mutant: Publish returns when it meets a closed subscriber. *)
PublishSkipReturns(p) ==
  /\ pub[p].pc = "send" /\ ClosedReady(pub[p].at)
  /\ pub' = [pub EXCEPT ![p].pc = "walk", ![p].at = NoMap, ![p].seen = Streams]
  /\ UNCHANGED <<streamVars, ch, got, dead>>

PublishSkip(p) ==
  /\ pub[p].pc = "send" /\ ClosedReady(pub[p].at)
  /\ Walk(p)
  /\ UNCHANGED <<streamVars, ch, got, dead>>

(* Mutant: a send without the default case waits for the client. *)
PublishDropWaits(p) == PublishSend(p)

(* The default case: the event is dropped for this stream. *)
PublishDrop(p) ==
  LET s == pub[p].at IN
  /\ pub[p].pc = "send" /\ ~HasRoom(s) /\ ~ClosedReady(s)
  /\ Walk(p)
  /\ UNCHANGED <<streamVars, ch, got, dead>>

(* A send on a closed channel panics: in a request only the request ends,  *)
(* in the read loop of an agent the process.                               *)
PublishPanics(p) ==
  /\ pub[p].pc = "send" /\ ChannelClosed(pub[p].at)
  /\ pub' = [pub EXCEPT ![p].pc = "panicked", ![p].map = NoMap, ![p].at = NoMap,
                        ![p].seen = {}, ![p].start = {}]
  /\ dead' = (p \notin Requests)
  /\ UNCHANGED <<streamVars, ch, got>>

(* "concurrent map iteration and map write" cannot be recovered from. *)
RuntimeThrows(p) ==
  /\ pub[p].pc = "walk" /\ Writing(pub[p].map)
  /\ dead' = TRUE
  /\ UNCHANGED <<streamVars, ch, got, pub>>

-----------------------------------------------------------------------------
SubscribeStep(s) == SubscribeLock(s) \/ SubscribeInsert(s)
UnsubscribeStep(s) ==
  UnsubscribeLock(s) \/ UnsubscribeSignal(s) \/ UnsubscribeClose(s)
WalkStep(p) ==
  \/ PublishEnd(p) \/ \E s \in Streams : PublishNext(p, s)
  \/ PublishSend(p) \/ PublishSkip(p) \/ PublishDrop(p) \/ PublishPanics(p)

Next ==
  /\ ~dead
  /\ \/ \E s \in Streams :
          SubscribeStep(s) \/ Deliver(s) \/ ClientLeaves(s) \/ UnsubscribeStep(s)
     \/ \E p \in Publishers : PublishStart(p) \/ WalkStep(p) \/ RuntimeThrows(p)

Spec == Init /\ [][Next]_vars

(* Goroutines of the server run; no client is obliged to read or to leave. *)
FairSpec ==
  /\ Spec
  /\ \A s \in Streams :
       WF_vars(~dead /\ SubscribeStep(s)) /\ WF_vars(~dead /\ UnsubscribeStep(s))
  /\ \A p \in Publishers : WF_vars(~dead /\ WalkStep(p))
-----------------------------------------------------------------------------
(* An open stream can be reached by Publish: it is in the inner map the    *)
(* hub holds for the user, although that map is dropped and made anew as   *)
(* streams come and go.                                                    *)
OpenIsReachable ==
  \A s \in Streams :
    stream[s] \in {"open", "leaving", "deleting"} => hub # NoMap /\ s \in inner[hub]

(* A stream never shows an event of one publisher twice or after a later   *)
(* one.                                                                    *)
InOrder ==
  \A s \in Streams :
    LET all == got[s] \o ch[s] IN
    \A i, j \in DOMAIN all : i < j /\ all[i][1] = all[j][1] => all[i][2] < all[j][2]

(* When Publish returns, every stream that was open all the while has the  *)
(* event, unless a full buffer's worth of events had been sent to it: a    *)
(* stream that closes meanwhile costs the others nothing.                  *)
NothingLost ==
  [][\A p \in Publishers :
       pub[p].pc = "walk" /\ pub'[p].pc = "idle" =>
         \A s \in pub[p].start \cap inner[pub[p].map] :
           LET all == got[s] \o ch[s] IN
           Len(all) >= BufSize \/ \E i \in DOMAIN all : all[i] = <<p, pub[p].n>>]_vars

(* Publish returns whether or not any client reads, so that a slow browser *)
(* cannot hold up the read loop of an agent.                               *)
PublishReturns ==
  \A p \in Publishers :
    pub[p].pc \in {"walk", "send"} ~> pub[p].pc \in {"idle", "panicked"} \/ dead

(* A stream whose client has gone is removed, whatever is left in it. *)
StreamIsReleased ==
  \A s \in Streams : stream[s] = "leaving" ~> stream[s] = "done" \/ dead
=============================================================================
