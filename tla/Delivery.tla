------------------------------ MODULE Delivery ------------------------------
(***************************************************************************)
(* From the engine's events to the dashboards: EventBus (core/events.py),  *)
(* the handler that forwards an event (api/app.py) and the connection      *)
(* manager that broadcasts it (api/websocket.py).  All are coroutines of   *)
(* one event loop; a list that is iterated over while a coroutine waits    *)
(* may be another one when it goes on.                                     *)
(*                                                                         *)
(* The events are of one type.  The endpoint that accepts the clients, and *)
(* the code that subscribes the forwarding handler, are the application's. *)
(***************************************************************************)
EXTENDS Naturals, Sequences, SequencesExt, FiniteSets

CONSTANTS
  Handlers,     \* subscribers other than the forwarding one
  Fragile,      \* those that may raise
  Forward,      \* the forwarding handler
  Publications, \* calls of publish
  Clients,      \* WebSockets, each connected once
  Nobody,
  MaxSubscriptions  \* bound on the list of subscribers

ASSUME DeliveryAssumption ==
  /\ Fragile \subseteq Handlers /\ Forward \notin Handlers /\ Nobody \notin Clients
  /\ IsFiniteSet(Clients) /\ MaxSubscriptions \in Nat

VARIABLES
  subscribers,  \* _subscribers of the event type, a list
  pub,          \* the publications: waiting, gathering, or how they ended
  calls,        \* the coroutines gather runs: the handlers and how far they are
  nameless,     \* handlers without a __qualname__, such as a functools.partial
  disturbed,    \* ghost: the publications under way during which a subscriber left
  connections,  \* _connections, a list
  client,       \* away, connected, broken (unnoticed by the server) or gone
  cast,         \* a broadcast: its place in the list, whom it sends to, stale
  sent,         \* ghost: to whom a publication was sent, in order
  removals,     \* ghost: how often somebody else removed a client meanwhile
  audience      \* ghost: the clients connected when the broadcast began

busVars == <<subscribers, pub, calls, nameless, disturbed>>
ghostVars == <<sent, removals, audience>>
wsVars == <<connections, client, cast, ghostVars>>
vars == <<busVars, wsVars>>

NoBroadcast == [at |-> 0, to |-> Nobody, stale |-> <<>>]

Init ==
  /\ subscribers = <<>>
  /\ pub = [p \in Publications |-> "waiting"]
  /\ calls = [p \in Publications |-> <<>>]
  /\ nameless \in SUBSET Handlers
  /\ disturbed = {}
  /\ connections = <<>>
  /\ client = [c \in Clients |-> "away"]
  /\ cast = [p \in Publications |-> NoBroadcast]
  /\ sent = [p \in Publications |-> <<>>]
  /\ removals = [p \in Publications |-> 0]
  /\ audience = [p \in Publications |-> {}]

-----------------------------------------------------------------------------
(* EventBus *)

\* Mutation: the newest subscriber is put first.
Subscribe_First(h) ==
  /\ Len(subscribers) < MaxSubscriptions
  /\ h = Forward => h \notin Range(subscribers)
  /\ subscribers' = <<h>> \o subscribers
  /\ UNCHANGED <<pub, calls, nameless, disturbed, wsVars>>

Subscribe(h) ==
  /\ Len(subscribers) < MaxSubscriptions
  /\ h = Forward => h \notin Range(subscribers)
  /\ subscribers' = Append(subscribers, h)
  /\ UNCHANGED <<pub, calls, nameless, disturbed, wsVars>>

\* The first of its entries is removed; without one nothing happens.
Unsubscribe(h) ==
  /\ h \in Range(subscribers)
  /\ subscribers' = RemoveFirst(subscribers, h)
  /\ disturbed' = disturbed \cup {p \in Publications : pub[p] = "gathering"}
  /\ UNCHANGED <<pub, calls, nameless, wsVars>>

\* gather has made a coroutine of every subscriber.
Publish(p) ==
  /\ pub[p] = "waiting"
  /\ pub' = [pub EXCEPT ![p] = IF subscribers = <<>> THEN "returned" ELSE "gathering"]
  /\ calls' = [calls EXCEPT ![p] = [i \in DOMAIN subscribers |->
                                      [handler |-> subscribers[i], stage |-> "due"]]]
  /\ UNCHANGED <<subscribers, nameless, disturbed, wsVars>>

InStage(p, i, stage) ==
  pub[p] = "gathering" /\ i \in DOMAIN calls[p] /\ calls[p][i].stage = stage

CallGoesTo(p, i, stage) == calls' = [calls EXCEPT ![p][i].stage = stage]

\* A handler runs from its first step to its last.
HandlerReturns(p, i) ==
  /\ InStage(p, i, "due") /\ calls[p][i].handler \in Handlers
  /\ CallGoesTo(p, i, "returned")
  /\ UNCHANGED <<subscribers, pub, nameless, disturbed, wsVars>>

\* Mutation: gather without return_exceptions.
HandlerRaises_EndsAll(p, i) ==
  /\ InStage(p, i, "due") /\ calls[p][i].handler \in Fragile
  /\ CallGoesTo(p, i, "raised")
  /\ pub' = [pub EXCEPT ![p] = "raised"]
  /\ UNCHANGED <<subscribers, nameless, disturbed, wsVars>>

HandlerRaises(p, i) ==
  /\ InStage(p, i, "due") /\ calls[p][i].handler \in Fragile
  /\ CallGoesTo(p, i, "raised")
  /\ UNCHANGED <<subscribers, pub, nameless, disturbed, wsVars>>

Ended(p, i) == calls[p][i].stage \in {"returned", "raised"}

\* Nothing is left of a publication that has ended.
Forget(p) ==
  /\ calls' = [calls EXCEPT ![p] = <<>>]
  /\ disturbed' = disturbed \ {p}
  /\ cast' = [cast EXCEPT ![p] = NoBroadcast]
  /\ sent' = [sent EXCEPT ![p] = <<>>]
  /\ removals' = [removals EXCEPT ![p] = 0]
  /\ audience' = [audience EXCEPT ![p] = {}]

Raised(p, i) == calls[p][i].stage = "raised"

\* What the log names for the i-th call is what is subscribed at its place now:
\* that may be nobody (IndexError) or one without a name (AttributeError).
CanBeNamed(i) == i \in DOMAIN subscribers /\ subscribers[i] \notin nameless

\* Every call has ended, and those that raised are logged.
PublishReturns(p) ==
  /\ pub[p] = "gathering" /\ \A i \in DOMAIN calls[p] : Ended(p, i)
  /\ pub' = [pub EXCEPT ![p] =
       IF \A i \in DOMAIN calls[p] : Raised(p, i) => CanBeNamed(i) THEN "returned" ELSE "raised"]
  /\ Forget(p)
  /\ UNCHANGED <<subscribers, nameless, connections, client>>

\* The publishing coroutine is cancelled, and with it the calls.
PublishCancelled(p) ==
  /\ pub[p] = "gathering"
  /\ pub' = [pub EXCEPT ![p] = "cancelled"]
  /\ Forget(p)
  /\ UNCHANGED <<subscribers, nameless, connections, client>>

-----------------------------------------------------------------------------
(* ConnectionManager *)

Casting(p) == cast[p].to # Nobody

\* The broadcasts under way other than those in ps lose n places of the list.
CountRemovals(n, ps) ==
  removals' = [p \in Publications |-> IF Casting(p) /\ p \notin ps THEN removals[p] + n
                                      ELSE removals[p]]

\* Mutation: the newest client is put first.
Connect_First(c) ==
  /\ client[c] = "away"
  /\ client' = [client EXCEPT ![c] = "connected"]
  /\ connections' = <<c>> \o connections
  /\ UNCHANGED <<busVars, cast, sent, removals, audience>>

Connect(c) ==
  /\ client[c] = "away"
  /\ client' = [client EXCEPT ![c] = "connected"]
  /\ connections' = Append(connections, c)
  /\ UNCHANGED <<busVars, cast, sent, removals, audience>>

\* What is left of the list when disconnect has removed every client of gone,
\* each of which is in it once at most: the others in their order, of which the
\* k-th is the one with k up to it.
Without(list, gone) ==
  LET kept == {i \in 1 .. Len(list) : list[i] \notin gone}
      upTo(i) == {j \in kept : j <= i}
  IN [k \in 1 .. Cardinality(kept) |-> list[CHOOSE i \in kept : Cardinality(upTo(i)) = k]]

\* The peer is gone: sending to it fails.
Break(c) ==
  /\ client[c] = "connected"
  /\ client' = [client EXCEPT ![c] = "broken"]
  /\ UNCHANGED <<busVars, connections, cast, sent, removals, audience>>

\* The endpoint notices and calls disconnect, which does nothing for a client
\* that a broadcast has removed.
Disconnect(c) ==
  /\ client[c] = "broken"
  /\ client' = [client EXCEPT ![c] = "gone"]
  /\ connections' = Without(connections, {c})
  /\ CountRemovals(IF c \in Range(connections) THEN 1 ELSE 0, {})
  /\ UNCHANGED <<busVars, cast, sent, audience>>

\* The places of the list at which a broadcast that looks at place k sends.
SendsFrom(k) ==
  {j \in k .. Len(connections) : client[connections[j]] \in {"connected", "broken"}}

First(places) == CHOOSE j \in places : \A k \in places : j <= k

\* The broadcast of p goes on at place k, up to the next send or to its end,
\* when it removes the clients it could not send to.
GoesOn(p, i, k, stale) ==
  IF SendsFrom(k) # {}
  THEN /\ cast' = [cast EXCEPT ![p] = [at |-> First(SendsFrom(k)),
                                       to |-> connections[First(SendsFrom(k))],
                                       stale |-> stale]]
       /\ CallGoesTo(p, i, "running")
       /\ UNCHANGED <<connections, removals>>
  ELSE /\ cast' = [cast EXCEPT ![p] = NoBroadcast]
       /\ connections' = Without(connections, Range(stale))
       /\ CountRemovals(Cardinality(Range(stale) \cap Range(connections)), {p})
       /\ CallGoesTo(p, i, "returned")

\* _forward calls broadcast.
Broadcast(p, i) ==
  /\ InStage(p, i, "due") /\ calls[p][i].handler = Forward
  /\ audience' = [audience EXCEPT ![p] = {c \in Range(connections) : client[c] = "connected"}]
  /\ IF SendsFrom(1) # {}
     THEN /\ cast' = [cast EXCEPT ![p] = [at |-> First(SendsFrom(1)),
                                          to |-> connections[First(SendsFrom(1))],
                                          stale |-> <<>>]]
          /\ CallGoesTo(p, i, "running")
     ELSE UNCHANGED cast /\ CallGoesTo(p, i, "returned")
  /\ UNCHANGED <<subscribers, pub, nameless, disturbed, connections, client, sent, removals>>

Sent(p, i) ==
  /\ InStage(p, i, "running") /\ client[cast[p].to] = "connected"
  /\ sent' = [sent EXCEPT ![p] = Append(@, cast[p].to)]
  /\ GoesOn(p, i, cast[p].at + 1, cast[p].stale)
  /\ UNCHANGED <<subscribers, pub, nameless, disturbed, client, audience>>

\* Mutation: a client that fails is removed at once.
SendFails_Removes(p, i) ==
  LET c == cast[p].to
      left == Without(connections, {c})
      on == {j \in cast[p].at + 1 .. Len(left) : client[left[j]] \in {"connected", "broken"}}
  IN /\ InStage(p, i, "running") /\ client[c] # "connected"
     /\ connections' = left
     /\ CountRemovals(IF c \in Range(connections) THEN 1 ELSE 0, {p})
     /\ IF on # {}
        THEN /\ cast' = [cast EXCEPT ![p].at = First(on), ![p].to = left[First(on)]]
             /\ CallGoesTo(p, i, "running")
        ELSE /\ cast' = [cast EXCEPT ![p] = NoBroadcast]
             /\ CallGoesTo(p, i, "returned")
     /\ UNCHANGED <<subscribers, pub, nameless, disturbed, client, sent, audience>>

SendFails(p, i) ==
  /\ InStage(p, i, "running") /\ client[cast[p].to] # "connected"
  /\ GoesOn(p, i, cast[p].at + 1, Append(cast[p].stale, cast[p].to))
  /\ UNCHANGED <<subscribers, pub, nameless, disturbed, client, sent, audience>>

CallStep(p, i) ==
  \/ HandlerReturns(p, i) \/ HandlerRaises(p, i)
  \/ Broadcast(p, i) \/ Sent(p, i) \/ SendFails(p, i)

Next ==
  \/ \E h \in Handlers \cup {Forward} : Subscribe(h) \/ Unsubscribe(h)
  \/ \E c \in Clients : Connect(c) \/ Break(c) \/ Disconnect(c)
  \/ \E p \in Publications :
       \/ Publish(p) \/ PublishReturns(p) \/ PublishCancelled(p)
       \/ \E i \in 1 .. MaxSubscriptions : CallStep(p, i)

Spec == Init /\ [][Next]_vars

-----------------------------------------------------------------------------
(* Properties *)

TypeOK ==
  /\ subscribers \in Seq(Handlers \cup {Forward}) /\ Len(subscribers) <= MaxSubscriptions
  /\ pub \in [Publications -> {"waiting", "gathering", "returned", "raised", "cancelled"}]
  /\ \A p \in Publications :
       /\ \A i \in DOMAIN calls[p] :
            /\ calls[p][i].handler \in Handlers \cup {Forward}
            /\ calls[p][i].stage \in {"due", "running", "returned", "raised"}
       /\ Casting(p) => cast[p].to \in Clients
  /\ nameless \subseteq Handlers /\ disturbed \subseteq Publications
  /\ connections \in Seq(Clients)
  /\ client \in [Clients -> {"away", "connected", "broken", "gone"}]

\* A failing subscriber keeps no other one from handling the event: publish ends
\* when all have.  And unless a subscriber has left meanwhile, the log blames those
\* that failed, whoever has subscribed in between, and publish raises itself only
\* if one of them has no name to log (events.py:70-82).
FailuresStayApart ==
  [][\A p \in Publications : pub[p] = "gathering" /\ pub'[p] \in {"returned", "raised"} =>
       /\ \A i \in DOMAIN calls[p] : Ended(p, i)
       /\ p \notin disturbed =>
            /\ \A i \in DOMAIN calls[p] : Raised(p, i) =>
                 i \in DOMAIN subscribers /\ subscribers[i] = calls[p][i].handler
            /\ pub'[p] = "raised" =>
                 \E i \in DOMAIN calls[p] : Raised(p, i) /\ calls[p][i].handler \in nameless]_vars

\* The clients that are connected from the beginning of a broadcast to its end,
\* in this step, and were not sent the event.
LeftOut(p) ==
  {c \in audience[p] : /\ client'[c] = "connected" /\ c \in Range(connections')
                       /\ c \notin Range(sent'[p])}

\* A client that was connected all the time a broadcast took is left out only
\* when others were removed from the list meanwhile, and at most as many are
\* left out (websocket.py:41-48).
OnlyRemovalsHide ==
  [][\A p \in Publications :
       Casting(p) /\ ~Casting(p)' /\ pub'[p] = "gathering" =>
         Cardinality(LeftOut(p)) <= removals[p]]_vars

\* However the list of connections changes, no client is sent an event twice.
NobodyHearsTwice == \A p \in Publications : IsInjective(sent[p])
=============================================================================
