------------------------------ MODULE Realtime ------------------------------
(***************************************************************************)
(* The realtime bus of several API nodes: an event gets its number from a  *)
(* counter in Redis, goes to the streams of the node that publishes it,    *)
(* and through Redis publish/subscribe to the other nodes.  Redis may be   *)
(* unreachable for a while and may lose its data.                          *)
(***************************************************************************)
EXTENDS Naturals, Sequences, FiniteSets

CONSTANTS Nodes, Events, Streams,
          Capacity,   \* of the broadcast channel of a node
          Worlds

VARIABLES world, up,      \* Redis answers
          counter,        \* <channel>:sequence, 0 when the key is missing
          clock,          \* milliseconds
          local,          \* local[n]: BroadcastEventPublisher::seq
          hub,            \* hub[n]: what node n broadcast so far
          link,           \* link[n]: node n is subscribed
          queue,          \* queue[n]: messages on the subscription of n
          ev,             \* ev[e]: the publish call of e
          str,            \* str[s]: the response stream of a browser
          left            \* outages, losses, faults and broken links to come

vars == <<world, up, counter, clock, local, hub, link, queue, ev, str, left>>

\* RealtimeEvent with the state of its publish call; from: which counter gave
\* the number; floor: the clock of its node, read before SET NX; raced: the
\* key that SET NX wrote was lost after that reading.
NewEvent == [pc |-> "new", seq |-> 0, from |-> "none", floor |-> 0, raced |-> FALSE]
NoStream == [on |-> FALSE, since |-> 0, pos |-> 0, sent |-> <<>>, told |-> FALSE]

Init ==
    /\ world \in Worlds
    /\ up = TRUE /\ counter = 0 /\ clock = world.clock
    /\ local = [n \in Nodes |-> 1] /\ hub = [n \in Nodes |-> <<>>]
    /\ link = [n \in Nodes |-> FALSE] /\ queue = [n \in Nodes |-> <<>>]
    /\ ev = [e \in Events |-> NewEvent]
    /\ str = [s \in Streams |-> NoStream]
    /\ left = [outages |-> world.outages, losses |-> world.losses, errors |-> world.errors,
               breaks |-> world.breaks, ticks |-> world.ticks]

Bus == <<world, link, queue, str>>

-----------------------------------------------------------------------------
(* HybridEventPublisher::publish                                           *)

\* raw_send into the hub of the node.
RawSend(n, e) == hub' = [hub EXCEPT ![n] = Append(@, e)]

\* publish and publish_run start the call in a task of its own, so that two
\* calls of one node may overlap.
Spawned(e) == ev[e].pc = "new" /\ e \in DOMAIN world.node

\* A connection is obtained and unix_millis_floor read, or the event stays on
\* this node with a number of its own (one step: nothing is awaited).
ConnectionOpened(e) ==
    /\ Spawned(e) /\ up
    /\ ev' = [ev EXCEPT ![e] = [@ EXCEPT !.pc = "floor", !.floor = clock + world.ahead[world.node[e]]]]
    /\ UNCHANGED <<Bus, up, counter, clock, local, hub, left>>
ConnectionFails(e) ==
    LET n == world.node[e] IN
    /\ Spawned(e) /\ ~up
    /\ ev' = [ev EXCEPT ![e] = [@ EXCEPT !.pc = "done", !.seq = local[n], !.from = "local"]]
    /\ local' = [local EXCEPT ![n] = @ + 1] /\ RawSend(n, e)
    /\ UNCHANGED <<Bus, up, counter, clock, left>>

\* SET <key> <milliseconds> NX; its outcome is ignored.
SetFloorMissing(e) ==
    /\ ev[e].pc = "floor" /\ ev' = [ev EXCEPT ![e].pc = "incr"]
    /\ UNCHANGED <<Bus, up, counter, clock, local, hub, left>>
SetFloor(e) ==
    /\ ev[e].pc = "floor"
    /\ LET written == up /\ counter = 0 IN
         /\ counter' = IF written THEN ev[e].floor ELSE counter
         /\ ev' = [ev EXCEPT ![e] = [@ EXCEPT !.pc = "incr", !.raced = @ /\ written]]
    /\ UNCHANGED <<Bus, up, clock, local, hub, left>>

\* INCR
Incr(e) ==
    /\ ev[e].pc = "incr" /\ up
    /\ counter' = counter + 1
    /\ ev' = [ev EXCEPT ![e] = [@ EXCEPT !.pc = "send", !.seq = counter + 1, !.from = "redis"]]
    /\ UNCHANGED <<Bus, up, clock, local, hub, left>>
IncrFails(e) ==
    LET n == world.node[e] IN
    /\ ev[e].pc = "incr"
    /\ \/ ~up /\ UNCHANGED left
       \/ up /\ left.errors > 0 /\ left' = [left EXCEPT !.errors = @ - 1]
    /\ ev' = [ev EXCEPT ![e] = [@ EXCEPT !.pc = "send", !.seq = local[n], !.from = "local"]]
    /\ local' = [local EXCEPT ![n] = @ + 1]
    /\ UNCHANGED <<Bus, up, counter, clock, hub>>

SendLocal(e) ==
    /\ ev[e].pc = "send" /\ ev' = [ev EXCEPT ![e].pc = "publish"]
    /\ RawSend(world.node[e], e)
    /\ UNCHANGED <<Bus, up, counter, clock, local, left>>

\* PUBLISH reaches the nodes subscribed at that moment, the sender included; a
\* failure is logged.
PublishRemote(e) ==
    /\ ev[e].pc = "publish" /\ ev' = [ev EXCEPT ![e].pc = "done"]
    /\ queue' = [n \in Nodes |-> IF up /\ link[n] THEN Append(queue[n], e) ELSE queue[n]]
    /\ UNCHANGED <<world, up, counter, clock, local, hub, link, str, left>>

-----------------------------------------------------------------------------
(* run_subscriber_loop of each node                                        *)

Subscribe(n) ==
    /\ ~link[n] /\ up /\ n \in world.linked
    /\ link' = [link EXCEPT ![n] = TRUE]
    /\ UNCHANGED <<world, up, counter, clock, local, hub, queue, ev, str, left>>

\* inject_local, unless the node sees its own message.
Receive(n) ==
    /\ link[n] /\ queue[n] # <<>>
    /\ hub' = IF world.node[Head(queue[n])] = n THEN hub
              ELSE [hub EXCEPT ![n] = Append(@, Head(queue[n]))]
    /\ queue' = [queue EXCEPT ![n] = Tail(@)]
    /\ UNCHANGED <<world, up, counter, clock, local, link, ev, str, left>>

-----------------------------------------------------------------------------
(* The response stream of a browser (build_awd_event_stream, event_stream, *)
(* run_stream)                                                             *)

Connect(s) ==
    LET n == world.at[s] IN
    /\ ~str[s].on /\ s \in DOMAIN world.at
    /\ str' = [str EXCEPT ![s] = [NoStream EXCEPT !.on = TRUE, !.since = Len(hub[n]), !.pos = Len(hub[n])]]
    /\ UNCHANGED <<world, up, counter, clock, local, hub, link, queue, ev, left>>

Behind(s) == Len(hub[world.at[s]]) - str[s].pos
Overrun(s) == Behind(s) > Capacity
\* The next broadcast; one of another event is passed over.
RecvEvent(s) ==
    LET e == hub[world.at[s]][str[s].pos + 1] IN
    /\ str[s].on /\ Behind(s) > 0 /\ ~Overrun(s)
    /\ str' = [str EXCEPT ![s].pos = @ + 1,
                          ![s].sent = IF world.topic[e] = world.wants[s] THEN Append(@, e) ELSE @]
    /\ UNCHANGED <<world, up, counter, clock, local, hub, link, queue, ev, left>>
\* RecvError::Lagged: the receiver moves to the oldest event that is kept, and
\* stream.lagged is sent.
RecvLagged(s) ==
    /\ str[s].on /\ Overrun(s)
    /\ str' = [str EXCEPT ![s].pos = Len(hub[world.at[s]]) - Capacity, ![s].told = TRUE]
    /\ UNCHANGED <<world, up, counter, clock, local, hub, link, queue, ev, left>>

-----------------------------------------------------------------------------
(* Faults                                                                  *)

Outage ==
    /\ up /\ left.outages > 0 /\ left' = [left EXCEPT !.outages = @ - 1]
    /\ up' = FALSE
    /\ link' = [n \in Nodes |-> FALSE] /\ queue' = [n \in Nodes |-> <<>>]
    /\ UNCHANGED <<world, counter, clock, local, hub, ev, str>>
Recover ==
    /\ ~up /\ up' = TRUE
    /\ UNCHANGED <<world, counter, clock, local, hub, link, queue, ev, str, left>>
\* The subscription of one node breaks; what was on it is lost.
BreakLink(n) ==
    /\ link[n] /\ left.breaks > 0 /\ left' = [left EXCEPT !.breaks = @ - 1]
    /\ link' = [link EXCEPT ![n] = FALSE] /\ queue' = [queue EXCEPT ![n] = <<>>]
    /\ UNCHANGED <<world, up, counter, clock, local, hub, ev, str>>
\* Redis loses its data.  Fewer events than milliseconds have passed since the
\* counter was set, so that even the slowest clock is past it.
LoseData ==
    /\ left.losses > 0 /\ left' = [left EXCEPT !.losses = @ - 1]
    /\ counter # 0 /\ clock >= counter
    /\ counter' = 0
    /\ ev' = [e \in Events |-> IF ev[e].pc = "floor" THEN [ev[e] EXCEPT !.raced = TRUE] ELSE ev[e]]
    /\ UNCHANGED <<world, up, clock, local, hub, link, queue, str>>
Tick ==
    /\ left.ticks > 0 /\ left' = [left EXCEPT !.ticks = @ - 1]
    /\ clock' = clock + Cardinality(Events)
    /\ UNCHANGED <<world, up, counter, local, hub, link, queue, ev, str>>

Next ==
    \/ \E e \in Events : \/ ConnectionOpened(e) \/ ConnectionFails(e) \/ SetFloor(e) \/ Incr(e)
                         \/ IncrFails(e) \/ SendLocal(e) \/ PublishRemote(e)
    \/ \E n \in Nodes : Subscribe(n) \/ Receive(n) \/ BreakLink(n)
    \/ \E s \in Streams : Connect(s) \/ RecvEvent(s) \/ RecvLagged(s)
    \/ Outage \/ Recover \/ LoseData \/ Tick

Spec == Init /\ [][Next]_vars

-----------------------------------------------------------------------------
TypeOK ==
    /\ \A e \in Events : ev[e].pc \in {"new", "floor", "incr", "send", "publish", "done"}
    /\ \A n \in Nodes : hub[n] \in Seq(Events) /\ (~link[n] => queue[n] = <<>>)
    /\ \A s \in DOMAIN world.at : str[s].pos <= Len(hub[world.at[s]])

\* Numbers Redis gave out are never given out twice, even after it lost its
\* counter (once): the next counter starts at a clock, past every earlier one,
\* unless the clock was read before the loss and written after it.
StaleFloor == \E e \in Events : ev[e].raced /\ ev[e].pc # "floor"
SequencesDiffer ==
    ~StaleFloor => \A e, f \in Events :
        (e # f /\ ev[e].from = "redis" /\ ev[f].from = "redis") => ev[e].seq # ev[f].seq

\* No stream sends an event twice, although a node's own events come back to it
\* through Redis.
SentOnce == \A s \in Streams : \A i, j \in DOMAIN str[s].sent : i # j => str[s].sent[i] # str[s].sent[j]

\* A stream that has caught up sent every event of its competition that its own
\* node finished publishing since it connected, Redis or not, or told the
\* browser that it lagged.
Index(n, e) == {i \in DOMAIN hub[n] : hub[n][i] = e}
NothingMissedSilently ==
    \A s \in DOMAIN world.at : (str[s].on /\ Behind(s) = 0 /\ ~str[s].told) =>
        \A e \in Events :
            (/\ ev[e].pc = "done" /\ world.node[e] = world.at[s] /\ world.topic[e] = world.wants[s]
             /\ \A i \in Index(world.at[s], e) : i > str[s].since)
                => \E i \in DOMAIN str[s].sent : str[s].sent[i] = e
=============================================================================
