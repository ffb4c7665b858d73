------------------------------ MODULE SQuicUdp ------------------------------
(***************************************************************************)
(* UDP over a ShadowQUIC or SunnyQUIC connection, one direction: the       *)
(* `ShadowQuicPacketConnection`s that send, the control streams that       *)
(* announce context ids, QUIC datagrams and unidirectional streams, and    *)
(* the tasks of the receiving end that route payloads to the associations. *)
(*                                                                         *)
(* `IncomingUdpRegistry::wait` is one step here: it returns the route of   *)
(* an id once there is one, or fails once the registry is closed. Module   *)
(* IncomingUdpRegistry shows that its parts add up to that. A packet is    *)
(* the number of its send call; `sent` tells its association and           *)
(* destination.                                                            *)
(***************************************************************************)
EXTENDS Naturals, Sequences, Functions

CONSTANTS
    Assocs,             \* UDP associations of the connection
    Dests,              \* destination addresses
    NoRoute,            \* a unidirectional stream still waiting for its route
    Setups,             \* what the receiving end may be, "client" or "server", and
                        \* which associations may be in UdpMode::Stream
    IdSpace,            \* 2^16
    ChanCap,            \* capacity of an association's channel, 256
    MaxSends            \* bound on the send calls of a behaviour

ASSUME SQuicUdpAssumption ==
    /\ Setups \subseteq [role : {"client", "server"}, streaming : SUBSET Assocs]
    /\ IdSpace \in Nat \ {0}
    /\ ChanCap \in Nat \ {0}
    /\ MaxSends \in Nat

VARIABLES
    setup,              \* the one of Setups that this connection is
    next_id,            \* AtomicU16 shared by the connection's associations
    contexts,           \* OutgoingUdpState.contexts: association -> dest -> id
    control,            \* announcements in flight on each control stream
    dropped,            \* associations whose sender has dropped its end
    sent,               \* packets sent so far, in order (history)
    datagrams,          \* datagrams in flight, [id, packet]
    uni,                \* payloads in flight on each unidirectional stream
    routes,             \* IncomingUdpRegistry.routes: id -> [assoc, dest]
    ids,                \* ids registered by each control-stream task
    reading,            \* associations whose control-stream task still runs
    tasks,              \* datagrams being handled, [id, packet]
    sending,            \* those with a route, waiting for channel room
    bound,              \* accepted unidirectional streams and their routes
    chan,               \* the channel of each association
    released,           \* associations whose receiver has been dropped
    delivered,          \* packets recv has returned, in order (history)
    conn                \* "alive", "lost", or "ended" once the loop has seen it

senderVars == <<next_id, contexts, control, dropped, sent>>
wireVars == <<datagrams, uni>>
routeVars == <<routes, ids, reading>>
taskVars == <<tasks, sending, bound>>
appVars == <<chan, released, delivered>>
vars == <<setup, senderVars, wireVars, routeVars, taskVars, appVars, conn>>

Put(f, x, v) == [y \in DOMAIN f \cup {x} |-> IF y = x THEN v ELSE f[y]]

\* A client handles the datagrams that arrive one by one.
Serial == setup.role = "client"

Streaming == setup.streaming

Init ==
    /\ setup \in Setups
    /\ next_id = 0
    /\ contexts = [a \in Assocs |-> <<>>]
    /\ control = [a \in Assocs |-> <<>>]
    /\ dropped = {}
    /\ sent = <<>>
    /\ datagrams = {}
    /\ uni = <<>>
    /\ routes = <<>>
    /\ ids = [a \in Assocs |-> {}]
    /\ reading = Assocs
    /\ tasks = {}
    /\ sending = {}
    /\ bound = <<>>
    /\ chan = [a \in Assocs |-> <<>>]
    /\ released = {}
    /\ delivered = <<>>
    /\ conn = "alive"

-----------------------------------------------------------------------------
(***************************************************************************)
(* The sending end.                                                        *)
(***************************************************************************)

\* The payload goes out under the id: as a datagram, or on the stream of the
\* context, which carries the id first.
Emit(a, d, id) ==
    LET n == Len(sent) + 1
        frames == IF <<a, d>> \in DOMAIN uni THEN uni[<<a, d>>].frames ELSE <<>>
    IN  /\ sent' = Append(sent, [assoc |-> a, dest |-> d])
        /\ IF a \in Streaming
           THEN /\ uni' = Put(uni, <<a, d>>, [id |-> id, frames |-> Append(frames, n)])
                /\ UNCHANGED datagrams
           ELSE /\ datagrams' = datagrams \cup {[id |-> id, packet |-> n]}
                /\ UNCHANGED uni

CanSend(a) == conn = "alive" /\ a \notin dropped /\ Len(sent) < MaxSends

\* send to a destination that has a context
SendKnown(a, d) ==
    /\ CanSend(a)
    /\ d \in DOMAIN contexts[a]
    /\ Emit(a, d, contexts[a][d])
    /\ UNCHANGED <<next_id, contexts, control, dropped, routeVars, taskVars, appVars, setup, conn>>

\* A new destination: draw an id, announce it, remember the context.
Announce(a, d) ==
    /\ next_id' = (next_id + 1) % IdSpace
    /\ control' = [control EXCEPT ![a] = Append(@, [dest |-> d, id |-> next_id])]
    /\ contexts' = [contexts EXCEPT ![a] = Put(@, d, next_id)]

\* send to a destination that has no context yet
SendNew(a, d) ==
    /\ CanSend(a)
    /\ d \notin DOMAIN contexts[a]
    /\ Announce(a, d)
    /\ Emit(a, d, next_id)
    /\ UNCHANGED <<dropped, routeVars, taskVars, appVars, setup, conn>>

\* The same with a payload too large for a datagram or a frame: send fails,
\* but the context is announced, its stream is open, and both stay.
SendTooLarge(a, d) ==
    /\ CanSend(a)
    /\ d \notin DOMAIN contexts[a]
    /\ Announce(a, d)
    /\ uni' = IF a \in Streaming
              THEN Put(uni, <<a, d>>, [id |-> next_id, frames |-> <<>>])
              ELSE uni
    /\ UNCHANGED <<dropped, sent, datagrams, routeVars, taskVars, appVars, setup, conn>>

\* The address does not encode: the id is spent and nothing is announced.
SendRejected(a) ==
    /\ CanSend(a)
    /\ next_id' = (next_id + 1) % IdSpace
    /\ UNCHANGED <<contexts, control, dropped, sent, wireVars, routeVars, taskVars,
                   appVars, setup, conn>>

\* Dropping the packet connection finishes its control stream and the
\* streams of its contexts.
DropSender(a) ==
    /\ a \notin dropped
    /\ dropped' = dropped \cup {a}
    /\ UNCHANGED <<next_id, contexts, control, sent, wireVars, routeVars, taskVars,
                   appVars, setup, conn>>

LoseDatagram(g) ==
    /\ datagrams' = datagrams \ {g}
    /\ UNCHANGED <<senderVars, uni, routeVars, taskVars, appVars, setup, conn>>

ConnectionLost ==
    /\ conn = "alive"
    /\ conn' = "lost"
    /\ UNCHANGED <<setup, senderVars, wireVars, routeVars, taskVars, appVars>>

-----------------------------------------------------------------------------
(***************************************************************************)
(* The receiving end: one handle_udp_control_stream task per association.  *)
(***************************************************************************)
ReadControl(a) ==
    LET entry == Head(control[a])
    IN  /\ a \in reading
        /\ control[a] # <<>>
        /\ control' = [control EXCEPT ![a] = Tail(@)]
        /\ routes' = Put(routes, entry.id, [assoc |-> a, dest |-> entry.dest])
        /\ ids' = [ids EXCEPT ![a] = @ \cup {entry.id}]
        /\ UNCHANGED <<next_id, contexts, dropped, sent, wireVars, reading, taskVars,
                       appVars, setup, conn>>

\* Slip: the routes of an ended control stream stay.
EndControlKeepsRoutes(a) ==
    /\ a \in reading
    /\ conn # "alive" \/ (a \in dropped /\ control[a] = <<>>)
    /\ reading' = reading \ {a}
    /\ UNCHANGED <<senderVars, wireVars, routes, ids, taskVars, appVars, setup, conn>>

\* Slip: the routes of all associations are removed.
EndControlClears(a) ==
    /\ a \in reading
    /\ conn # "alive" \/ (a \in dropped /\ control[a] = <<>>)
    /\ routes' = <<>>
    /\ reading' = reading \ {a}
    /\ UNCHANGED <<senderVars, wireVars, ids, taskVars, appVars, setup, conn>>

\* The stream has ended or failed: remove(&ids), whoever they belong to now.
EndControl(a) ==
    /\ a \in reading
    /\ conn # "alive" \/ (a \in dropped /\ control[a] = <<>>)
    /\ routes' = Restrict(routes, DOMAIN routes \ ids[a])
    /\ reading' = reading \ {a}
    /\ UNCHANGED <<senderVars, wireVars, ids, taskVars, appVars, setup, conn>>

\* Slip: the server handles datagrams one by one as well.
LoopSerial == tasks = {} /\ sending = {}

(***************************************************************************)
(* handle_incoming_udp_datagram, in a task of its own on the server and    *)
(* inside the receive loop on the client, which meanwhile accepts nothing. *)
(***************************************************************************)
LoopFree == Serial => tasks = {} /\ sending = {}

\* read_datagram, accept_uni or accept_bi fails and the loop ends; on a server
\* incoming_udp.close() follows.
LoopEnds ==
    /\ conn = "lost"
    /\ LoopFree
    /\ conn' = "ended"
    /\ UNCHANGED <<setup, senderVars, wireVars, routeVars, taskVars, appVars>>

\* What had come before the connection was lost can be taken until the loop
\* sees the end.
Arrive(g) ==
    /\ conn # "ended"
    /\ LoopFree
    /\ datagrams' = datagrams \ {g}
    /\ tasks' = tasks \cup {g}
    /\ UNCHANGED <<senderVars, uni, routeVars, sending, bound, appVars, setup, conn>>

\* incoming_udp.wait(id) returns a clone of the route.
Route(g) ==
    /\ g.id \in DOMAIN routes
    /\ tasks' = tasks \ {g}
    /\ sending' = sending \cup {[packet |-> g.packet, route |-> routes[g.id]]}
    /\ UNCHANGED <<senderVars, wireVars, routeVars, bound, appVars, setup, conn>>

\* Slip: the server does not close its registry either.
WaitNeverFails(g) == FALSE

\* serve_connection closes its registry after its loop; the registry of a
\* client is never closed.
WaitFails(g) ==
    /\ conn = "ended" /\ ~Serial
    /\ g.id \notin DOMAIN routes
    /\ tasks' = tasks \ {g}
    /\ UNCHANGED <<senderVars, wireVars, routeVars, sending, bound, appVars, setup, conn>>

\* route.sender.send(packet).await: waits for room, fails when the receiver
\* is gone.
Forward(packet, route) ==
    \/ /\ route.assoc \notin released
       /\ Len(chan[route.assoc]) < ChanCap
       /\ chan' = [chan EXCEPT ![route.assoc] =
                       Append(@, [packet |-> packet, assoc |-> route.assoc,
                                  dest |-> route.dest])]
    \/ /\ route.assoc \in released
       /\ UNCHANGED chan

Push(s) ==
    /\ Forward(s.packet, s.route)
    /\ sending' = sending \ {s}
    /\ UNCHANGED <<senderVars, wireVars, routeVars, tasks, bound, released, delivered, setup, conn>>

(***************************************************************************)
(* handle_incoming_udp_stream: one wait, then frame after frame to the     *)
(* route it returned. A frame for a released association ends the task,    *)
(* which is as good as losing that frame and all later ones.               *)
(***************************************************************************)
AcceptUni(c) ==
    /\ conn # "ended"
    /\ LoopFree
    /\ c \notin DOMAIN bound
    /\ bound' = Put(bound, c, NoRoute)
    /\ UNCHANGED <<senderVars, wireVars, routeVars, tasks, sending, appVars, setup, conn>>

Bind(c) ==
    /\ bound[c] = NoRoute
    /\ uni[c].id \in DOMAIN routes
    /\ bound' = [bound EXCEPT ![c] = routes[uni[c].id]]
    /\ UNCHANGED <<senderVars, wireVars, routeVars, tasks, sending, appVars, setup, conn>>

\* Slip: the newest frame goes first.
PushFrameNewest(c) ==
    /\ bound[c] # NoRoute
    /\ uni[c].frames # <<>>
    /\ Forward(uni[c].frames[Len(uni[c].frames)], bound[c])
    /\ uni' = [uni EXCEPT ![c].frames = SubSeq(@, 1, Len(@) - 1)]
    /\ UNCHANGED <<senderVars, datagrams, routeVars, taskVars, released, delivered, setup, conn>>

PushFrame(c) ==
    /\ bound[c] # NoRoute
    /\ uni[c].frames # <<>>
    /\ Forward(Head(uni[c].frames), bound[c])
    /\ uni' = [uni EXCEPT ![c].frames = Tail(@)]
    /\ UNCHANGED <<senderVars, datagrams, routeVars, taskVars, released, delivered, setup, conn>>

\* The stream is finished by its sender, or fails with the connection.
EndUni(c) ==
    /\ conn # "alive" \/ (bound[c] # NoRoute /\ c[1] \in dropped /\ uni[c].frames = <<>>)
    /\ conn # "alive" /\ Serial => bound[c] # NoRoute
    /\ uni' = Restrict(uni, DOMAIN uni \ {c})
    /\ bound' = Restrict(bound, DOMAIN bound \ {c})
    /\ UNCHANGED <<senderVars, datagrams, routeVars, tasks, sending, appVars, setup, conn>>

(***************************************************************************)
(* The application of the receiving end.                                   *)
(***************************************************************************)
Recv(a) ==
    /\ a \notin released
    /\ chan[a] # <<>>
    /\ delivered' = Append(delivered, Head(chan[a]))
    /\ chan' = [chan EXCEPT ![a] = Tail(@)]
    /\ UNCHANGED <<senderVars, wireVars, routeVars, taskVars, released, setup, conn>>

Release(a) ==
    /\ a \notin released
    /\ released' = released \cup {a}
    /\ chan' = [chan EXCEPT ![a] = <<>>]
    /\ UNCHANGED <<senderVars, wireVars, routeVars, taskVars, delivered, setup, conn>>

-----------------------------------------------------------------------------
(***************************************************************************)
(* The code draws ids without looking whether they are free; there are     *)
(* 2^16 of them per direction. The specification assumes that an id that   *)
(* comes round again is no longer in use anywhere: that no context is      *)
(* still alive when 2^16 later ones have been drawn.                       *)
(***************************************************************************)
IdUnused(id) ==
    /\ \A a \in Assocs \ dropped : id \notin Range(contexts[a])
    /\ \A a \in Assocs : \A i \in 1..Len(control[a]) : control[a][i].id # id
    /\ \A a \in reading : id \notin ids[a]
    /\ \A g \in datagrams \cup tasks : g.id # id
    /\ \A c \in DOMAIN uni : uni[c].id # id

Next ==
    \/ \E a \in Assocs, d \in Dests :
         \/ SendKnown(a, d)
         \/ IdUnused(next_id) /\ (SendNew(a, d) \/ SendTooLarge(a, d))
    \/ \E a \in Assocs : \/ SendRejected(a) \/ DropSender(a)
                         \/ ReadControl(a) \/ EndControl(a)
                         \/ Recv(a) \/ Release(a)
    \/ \E g \in datagrams : LoseDatagram(g) \/ Arrive(g)
    \/ \E g \in tasks : Route(g) \/ WaitFails(g)
    \/ \E s \in sending : Push(s)
    \/ \E c \in DOMAIN uni : AcceptUni(c)
    \/ \E c \in DOMAIN bound : Bind(c) \/ PushFrame(c) \/ EndUni(c)
    \/ ConnectionLost \/ LoopEnds

(***************************************************************************)
(* Data that has arrived is read and runnable tasks run: the steps of the  *)
(* receiving end are weakly fair, those of one packet or stream each on    *)
(* its own. An application that keeps an association reads from it.        *)
(***************************************************************************)
PacketStep(n) ==
    \/ \E g \in datagrams : g.packet = n /\ Arrive(g)
    \/ \E g \in tasks : g.packet = n /\ (Route(g) \/ WaitFails(g))
    \/ \E s \in sending : s.packet = n /\ Push(s)

StreamStep(c) ==
    \/ c \in DOMAIN uni /\ AcceptUni(c)
    \/ c \in DOMAIN bound /\ (Bind(c) \/ PushFrame(c) \/ EndUni(c))

Fairness ==
    /\ \A n \in 1..MaxSends : WF_vars(PacketStep(n))
    /\ \A c \in Assocs \X Dests : WF_vars(StreamStep(c))
    /\ \A a \in Assocs : WF_vars(ReadControl(a) \/ EndControl(a)) /\ WF_vars(Recv(a))
    /\ WF_vars(LoopEnds)

Spec == Init /\ [][Next]_vars /\ Fairness

-----------------------------------------------------------------------------
RouteType == [assoc : Assocs, dest : Dests]
Id == 0..(IdSpace - 1)
Datagram == [id : Id, packet : 1..MaxSends]
Delivery == [packet : 1..MaxSends, assoc : Assocs, dest : Dests]

(***************************************************************************)
(* Types of both ends and of what is in flight between them.               *)
(***************************************************************************)
TypeOK ==
    /\ setup \in Setups
    /\ next_id \in Id
    /\ DOMAIN contexts = Assocs
    /\ \A a \in Assocs : DOMAIN contexts[a] \subseteq Dests /\ Range(contexts[a]) \subseteq Id
    /\ control \in [Assocs -> Seq([dest : Dests, id : Id])]
    /\ ids \in [Assocs -> SUBSET Id]
    /\ chan \in [Assocs -> Seq(Delivery)]
    /\ \A a \in Assocs : Len(chan[a]) <= ChanCap
    /\ dropped \subseteq Assocs /\ released \subseteq Assocs /\ reading \subseteq Assocs
    /\ sent \in Seq(RouteType)
    /\ datagrams \subseteq Datagram /\ tasks \subseteq Datagram
    /\ DOMAIN uni \subseteq Streaming \X Dests
    /\ \A c \in DOMAIN uni : uni[c] \in [id : Id, frames : Seq(1..MaxSends)]
    /\ DOMAIN bound \subseteq DOMAIN uni
    /\ \A c \in DOMAIN bound : bound[c] \in RouteType \cup {NoRoute}
    /\ DOMAIN routes \subseteq Id /\ Range(routes) \subseteq RouteType
    /\ sending \subseteq [packet : 1..MaxSends, route : RouteType]
    /\ delivered \in Seq(Delivery)
    /\ conn \in {"alive", "lost", "ended"}

(***************************************************************************)
(* The registry holds the ids that running control streams have announced, *)
(* each routed to its own association: no association takes over or        *)
(* removes the route of another, and none is left behind by remove.        *)
(***************************************************************************)
RoutesOwned ==
    /\ DOMAIN routes = UNION {ids[a] : a \in reading}
    /\ \A a \in reading : \A id \in ids[a] : routes[id].assoc = a

(***************************************************************************)
(* The state of the connection is well formed, and its registry is exact.  *)
(***************************************************************************)
WellFormed == TypeOK /\ RoutesOwned

ContextOf(c) == [assoc |-> c[1], dest |-> c[2]]

On(c, m) == m.assoc = c[1] /\ m.dest = c[2]

(***************************************************************************)
(* Over streams, the packets of one context arrive in the order they were  *)
(* sent and without gaps: what came before a packet was sent before it,    *)
(* and whatever was sent before it has come before it.                     *)
(***************************************************************************)
StreamsInOrder ==
    \A c \in Streaming \X Dests :
        LET got == delivered \o chan[c[1]]
        IN  \A j \in 1..Len(got) :
                On(c, got[j]) =>
                    /\ \A i \in 1..(j - 1) : On(c, got[i]) => got[i].packet < got[j].packet
                    /\ \A n \in 1..(got[j].packet - 1) :
                          sent[n] = ContextOf(c) =>
                              \E i \in 1..(j - 1) : On(c, got[i]) /\ got[i].packet = n

Service == INSTANCE DatagramService
    WITH offered <- {[packet |-> n, assoc |-> sent[n].assoc, dest |-> sent[n].dest]
                        : n \in 1..Len(sent)},
         delivered <- delivered

(***************************************************************************)
(* The connection implements the datagram service: a packet is received on *)
(* the association it was sent on, with the destination it was sent to,    *)
(* and once, although the id it travels under is announced on another      *)
(* stream, withdrawn with that stream and used again.                      *)
(***************************************************************************)
ServiceSpec == Service!Spec

(***************************************************************************)
(* The receive loop keeps up. On a server one datagram does not hold up    *)
(* another: a datagram that has arrived for an announced id is taken off   *)
(* the connection, even while datagrams of unknown ids wait for their      *)
(* announcement. The serial loop of a client takes off every datagram, as  *)
(* long as no association ends on either side.                             *)
(***************************************************************************)
LoopKeepsUp ==
    ~<>[](/\ conn = "alive"
          /\ IF Serial THEN dropped = {} /\ released = {} /\ datagrams # {}
                       ELSE \E g \in datagrams : g.id \in DOMAIN routes)

\* Something on the receiving end still has the sender of a's channel.
Attached(a) ==
    \/ a \in reading
    \/ \E id \in DOMAIN routes : routes[id].assoc = a
    \/ \E s \in sending : s.route.assoc = a
    \/ \E c \in DOMAIN bound : bound[c] # NoRoute /\ bound[c].assoc = a

(***************************************************************************)
(* A server leaves nothing behind. After the connection is lost all its    *)
(* datagram tasks end; and when the sender of an association drops it, the *)
(* last clone of the channel's sender goes away, so that the application's *)
(* recv returns Closed.                                                    *)
(***************************************************************************)
NothingStays ==
    ~<>[](/\ ~Serial
          /\ \/ conn # "alive" /\ (tasks # {} \/ sending # {})
             \/ \E a \in dropped : Attached(a))

=============================================================================
