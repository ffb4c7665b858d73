--------------------------- MODULE SQuicUdpProofs ---------------------------
(***************************************************************************)
(* Proofs about UDP over SQuic, for any number of associations and         *)
(* destinations, any id space and any capacity of the channels: the        *)
(* registry is exact and the connection implements DatagramService.        *)
(* SQuicUdpOrderProofs continues with the order of streams.                *)
(***************************************************************************)
EXTENDS SQuicUdp, TLAPS

(***************************************************************************)
(* The heart of the invariant. An id names a context wherever it is in     *)
(* use: in the contexts of a live sender, in an announcement on its way,   *)
(* in the registry, and in whatever travels under it. At any time an id    *)
(* names one context at most.                                              *)
(***************************************************************************)
Claims(id, a, d) ==
    \/ a \in Assocs \ dropped /\ d \in DOMAIN contexts[a] /\ contexts[a][d] = id
    \/ a \in Assocs /\ \E i \in 1..Len(control[a]) : control[a][i] = [dest |-> d, id |-> id]
    \/ id \in DOMAIN routes /\ routes[id] = [assoc |-> a, dest |-> d]
    \/ \E g \in datagrams \cup tasks : g.id = id /\ sent[g.packet] = [assoc |-> a, dest |-> d]
    \/ <<a, d>> \in DOMAIN uni /\ uni[<<a, d>>].id = id

OneContext ==
    \A id \in Id, a, b \in Assocs, d, e \in Dests :
        Claims(id, a, d) /\ Claims(id, b, e) => a = b /\ d = e

(***************************************************************************)
(* Whatever has a route has that of its own packet: what is received       *)
(* carries the association and the destination the packet was sent with.   *)
(***************************************************************************)
OfSent(n, log) == [packet |-> n, assoc |-> log[n].assoc, dest |-> log[n].dest]
Genuine(m, log) == m.packet \in 1..Len(log) /\ m = OfSent(m.packet, log)

WireLabelled == \A g \in datagrams \cup tasks : g.packet \in 1..Len(sent)
SendingLabelled ==
    \A s \in sending : s.packet \in 1..Len(sent) /\ s.route = sent[s.packet]
FramesLabelled ==
    \A c \in DOMAIN uni : \A i \in 1..Len(uni[c].frames) :
        uni[c].frames[i] \in 1..Len(sent) /\ sent[uni[c].frames[i]] = ContextOf(c)
BoundLabelled == \A c \in DOMAIN bound : bound[c] # NoRoute => bound[c] = ContextOf(c)
ChanLabelled ==
    \A a \in Assocs : \A i \in 1..Len(chan[a]) :
        Genuine(chan[a][i], sent) /\ chan[a][i].assoc = a
DeliveredLabelled == \A i \in 1..Len(delivered) : Genuine(delivered[i], sent)

Labelled ==
    /\ WireLabelled /\ SendingLabelled /\ FramesLabelled /\ BoundLabelled
    /\ ChanLabelled /\ DeliveredLabelled

(***************************************************************************)
(* A packet is in one place: on the wire, in a task, waiting for room, in  *)
(* a channel, or received. Packets in streams are told from datagrams by   *)
(* the mode of their association.                                          *)
(***************************************************************************)
Queued(n) == \E a \in Assocs : \E i \in 1..Len(chan[a]) : chan[a][i].packet = n
Received(n) == \E i \in 1..Len(delivered) : delivered[i].packet = n

WireOnce ==
    /\ datagrams \cap tasks = {}
    /\ \A g, h \in datagrams \cup tasks : g.packet = h.packet => g = h
SendingOnce ==
    /\ \A s, t \in sending : s.packet = t.packet => s = t
    /\ \A g \in datagrams \cup tasks, s \in sending : g.packet # s.packet
NotYetPassed ==
    \A g \in datagrams \cup tasks \cup sending :
        sent[g.packet].assoc \notin Streaming /\ ~Queued(g.packet) /\ ~Received(g.packet)
FramesOnce ==
    \A c \in DOMAIN uni :
        /\ \A i, j \in 1..Len(uni[c].frames) : uni[c].frames[i] = uni[c].frames[j] => i = j
        /\ \A i \in 1..Len(uni[c].frames) :
              ~Queued(uni[c].frames[i]) /\ ~Received(uni[c].frames[i])
ChanOnce ==
    \A a \in Assocs :
        /\ \A i, j \in 1..Len(chan[a]) : chan[a][i].packet = chan[a][j].packet => i = j
        /\ \A i \in 1..Len(chan[a]) : ~Received(chan[a][i].packet)
DeliveredOnce ==
    \A i, j \in 1..Len(delivered) : delivered[i].packet = delivered[j].packet => i = j

OnePlace ==
    WireOnce /\ SendingOnce /\ NotYetPassed /\ FramesOnce /\ ChanOnce /\ DeliveredOnce

-----------------------------------------------------------------------------
(***************************************************************************)
(* Types.                                                                  *)
(***************************************************************************)

\* What taking the head off a sequence leaves.
LEMMA HeadTailFacts ==
    ASSUME NEW S, NEW q \in Seq(S), q # <<>>
    PROVE  /\ Len(q) \in Nat /\ Len(q) >= 1 /\ 1 \in 1..Len(q)
           /\ Head(q) = q[1] /\ Head(q) \in S
           /\ Tail(q) \in Seq(S)
           /\ Len(Tail(q)) = Len(q) - 1 /\ Len(Tail(q)) \in Nat
           /\ \A i \in 1..Len(Tail(q)) : i + 1 \in 1..Len(q) /\ Tail(q)[i] = q[i + 1]
<1>1. Len(q) \in Nat /\ Len(q) >= 1
  OBVIOUS
<1>2. Head(q) = q[1]
  OBVIOUS
<1>3. /\ Head(q) \in S /\ Tail(q) \in Seq(S) /\ Len(Tail(q)) = Len(q) - 1
      /\ \A i \in 1..Len(Tail(q)) : Tail(q)[i] = q[i + 1]
  OBVIOUS
<1> QED
  BY <1>1, <1>2, <1>3

\* What appending an element changes.
LEMMA AppendFacts ==
    ASSUME NEW S, NEW q \in Seq(S), NEW x \in S
    PROVE  /\ Append(q, x) \in Seq(S)
           /\ Len(q) \in Nat /\ Len(Append(q, x)) = Len(q) + 1
           /\ Append(q, x)[Len(q) + 1] = x
           /\ \A i \in 1..Len(q) : i \in 1..Len(Append(q, x)) /\ Append(q, x)[i] = q[i]
           /\ \A i \in 1..Len(Append(q, x)) : i \in 1..Len(q) \/ i = Len(q) + 1
<1>1. /\ Append(q, x) \in Seq(S) /\ Len(Append(q, x)) = Len(q) + 1
      /\ Append(q, x)[Len(q) + 1] = x
      /\ \A i \in 1..Len(q) : Append(q, x)[i] = q[i]
  OBVIOUS
<1>2. Len(q) \in Nat
  OBVIOUS
<1> QED
  BY <1>1, <1>2

\* The id counter wraps around inside the id space.
LEMMA NextIdType ==
    ASSUME next_id \in Id
    PROVE  (next_id + 1) % IdSpace \in Id
BY SQuicUdpAssumption DEF Id

\* Announcing a context keeps the types of the counter, of the contexts and of
\* the announcements in flight.
LEMMA AnnounceType ==
    ASSUME TypeOK, NEW a \in Assocs, NEW d \in Dests, Announce(a, d)
    PROVE  /\ next_id' \in Id
           /\ DOMAIN contexts' = Assocs
           /\ \A b \in Assocs : /\ DOMAIN contexts'[b] \subseteq Dests
                                /\ Range(contexts'[b]) \subseteq Id
           /\ control' \in [Assocs -> Seq([dest : Dests, id : Id])]
<1>1. next_id' \in Id
  BY NextIdType, Zenon DEF Announce, TypeOK
<1>2. DOMAIN contexts' = Assocs
  BY Zenon DEF Announce, TypeOK
<1>3. \A b \in Assocs : DOMAIN contexts'[b] \subseteq Dests /\ Range(contexts'[b]) \subseteq Id
  <2> TAKE b \in Assocs
  <2>1. CASE b = a
    <3>1. contexts'[b] = Put(contexts[a], d, next_id)
      BY <2>1, Zenon DEF Announce, TypeOK
    <3>2. DOMAIN contexts'[b] = DOMAIN contexts[a] \cup {d}
      BY <3>1, Zenon DEF Put
    <3>3. \A y \in DOMAIN contexts'[b] : contexts'[b][y] \in Id
      BY <3>1, <3>2, Zenon DEF Put, TypeOK, Range
    <3> QED
      BY <3>2, <3>3 DEF TypeOK, Range
  <2>2. CASE b # a
    BY <2>2, Zenon DEF Announce, TypeOK
  <2> QED
    BY <2>1, <2>2, Zenon
<1>4. control' \in [Assocs -> Seq([dest : Dests, id : Id])]
  <2>1. [dest |-> d, id |-> next_id] \in [dest : Dests, id : Id]
    BY Zenon DEF TypeOK
  <2>2. Append(control[a], [dest |-> d, id |-> next_id]) \in Seq([dest : Dests, id : Id])
    <3>1. control[a] \in Seq([dest : Dests, id : Id])
      BY Zenon DEF TypeOK
    <3> QED
      BY <2>1, <3>1, AppendFacts
  <2>3. control' = [control EXCEPT ![a] = Append(@, [dest |-> d, id |-> next_id])]
    BY Zenon DEF Announce
  <2> QED
    BY <2>2, <2>3, Zenon DEF TypeOK
<1> QED
  BY <1>1, <1>2, <1>3, <1>4, Zenon

\* A packet that is sent gets the next number, and travels as a datagram or in
\* the stream of its context.
LEMMA EmitType ==
    ASSUME TypeOK, Len(sent) < MaxSends,
           NEW a \in Assocs, NEW d \in Dests, NEW id \in Id, Emit(a, d, id)
    PROVE  /\ sent' \in Seq(RouteType)
           /\ datagrams' \subseteq Datagram
           /\ DOMAIN uni \subseteq DOMAIN uni'
           /\ DOMAIN uni' \subseteq Streaming \X Dests
           /\ \A c \in DOMAIN uni' : uni'[c] \in [id : Id, frames : Seq(1..MaxSends)]
<1> DEFINE n == Len(sent) + 1
<1>1. n \in 1..MaxSends
  BY SQuicUdpAssumption DEF TypeOK
<1>2. sent' \in Seq(RouteType)
  BY DEF Emit, TypeOK, RouteType
<1>3. CASE a \in Streaming
  <2> DEFINE frames == IF <<a, d>> \in DOMAIN uni THEN uni[<<a, d>>].frames ELSE <<>>
  <2>1. frames \in Seq(1..MaxSends)
    <3>1. CASE <<a, d>> \in DOMAIN uni
      BY <3>1, Zenon DEF TypeOK
    <3>2. CASE <<a, d>> \notin DOMAIN uni
      BY <3>2
    <3> QED
      BY <3>1, <3>2, Zenon
  <2>2. [id |-> id, frames |-> Append(frames, n)] \in [id : Id, frames : Seq(1..MaxSends)]
    BY <1>1, <2>1
  <2>3. /\ uni' = Put(uni, <<a, d>>, [id |-> id, frames |-> Append(frames, n)])
        /\ datagrams' = datagrams
    BY <1>3, Zenon DEF Emit
  <2> HIDE DEF frames, n
  <2>4. /\ DOMAIN uni' = DOMAIN uni \cup {<<a, d>>}
        /\ uni'[<<a, d>>] \in [id : Id, frames : Seq(1..MaxSends)]
        /\ \A y \in DOMAIN uni : y # <<a, d>> => uni'[y] = uni[y]
    BY <2>2, <2>3, Zenon DEF Put
  <2>5. \A c \in DOMAIN uni' : uni'[c] \in [id : Id, frames : Seq(1..MaxSends)]
    BY <2>4, Zenon DEF TypeOK
  <2>6. DOMAIN uni' \subseteq Streaming \X Dests
    BY <1>3, <2>4 DEF TypeOK
  <2> QED
    BY <1>2, <2>3, <2>4, <2>5, <2>6, Zenon DEF TypeOK
<1>4. CASE a \notin Streaming
  <2>1. datagrams' = datagrams \cup {[id |-> id, packet |-> n]} /\ uni' = uni
    BY <1>4, Zenon DEF Emit
  <2> QED
    BY <1>1, <1>2, <2>1 DEF TypeOK, Datagram
<1> QED
  BY <1>3, <1>4, Zenon

\* Handing a packet to a channel keeps the channels' types and capacities.
LEMMA ForwardType ==
    ASSUME TypeOK, NEW n \in 1..MaxSends, NEW r \in RouteType, Forward(n, r)
    PROVE  chan' \in [Assocs -> Seq(Delivery)] /\ \A a \in Assocs : Len(chan'[a]) <= ChanCap
<1>1. CASE UNCHANGED chan
  BY <1>1, Zenon DEF TypeOK
<1>2. CASE ~UNCHANGED chan
  <2> DEFINE m == [packet |-> n, assoc |-> r.assoc, dest |-> r.dest]
  <2>1. /\ Len(chan[r.assoc]) < ChanCap
        /\ chan' = [chan EXCEPT ![r.assoc] = Append(@, m)]
    BY <1>2, Zenon DEF Forward
  <2>2. r.assoc \in Assocs /\ m \in Delivery /\ chan[r.assoc] \in Seq(Delivery)
    BY Zenon DEF RouteType, Delivery, TypeOK
  <2> HIDE DEF m
  <2>3. /\ Append(chan[r.assoc], m) \in Seq(Delivery)
        /\ Len(Append(chan[r.assoc], m)) = Len(chan[r.assoc]) + 1
    BY <2>2
  <2>4. Len(chan[r.assoc]) \in Nat
    BY <2>2
  <2>5. Len(Append(chan[r.assoc], m)) <= ChanCap
    BY <2>1, <2>3, <2>4, SQuicUdpAssumption
  <2> QED
    BY <2>1, <2>2, <2>3, <2>5, Zenon DEF TypeOK
<1> QED
  BY <1>1, <1>2, Zenon

\* No step of either end breaks the types, or fills a channel beyond its
\* capacity.
LEMMA TypeStep == TypeOK /\ [Next]_vars => TypeOK'
<1> SUFFICES ASSUME TypeOK, [Next]_vars PROVE TypeOK'
  BY Zenon
<1> USE DEF senderVars, wireVars, routeVars, taskVars, appVars, Streaming
<1>1. ASSUME NEW a \in Assocs, NEW d \in Dests, SendKnown(a, d) PROVE TypeOK'
  <2>1. contexts[a][d] \in Id
    BY <1>1 DEF SendKnown, TypeOK, Range
  <2>2. Len(sent) < MaxSends /\ Emit(a, d, contexts[a][d])
    BY <1>1, Zenon DEF SendKnown, CanSend
  <2> QED
    BY <1>1, <2>1, <2>2, EmitType, Zenon DEF SendKnown, TypeOK
<1>2. ASSUME NEW a \in Assocs, NEW d \in Dests, SendNew(a, d) PROVE TypeOK'
  <2>1. Len(sent) < MaxSends /\ Emit(a, d, next_id) /\ Announce(a, d) /\ next_id \in Id
    BY <1>2, Zenon DEF SendNew, CanSend, TypeOK
  <2>2. /\ sent' \in Seq(RouteType)
        /\ datagrams' \subseteq Datagram
        /\ DOMAIN uni \subseteq DOMAIN uni'
        /\ DOMAIN uni' \subseteq Streaming \X Dests
        /\ \A c \in DOMAIN uni' : uni'[c] \in [id : Id, frames : Seq(1..MaxSends)]
    BY <2>1, EmitType, Zenon
  <2> QED
    BY <1>2, <2>1, <2>2, AnnounceType, Zenon DEF SendNew, TypeOK
<1>3. ASSUME NEW a \in Assocs, NEW d \in Dests, SendTooLarge(a, d) PROVE TypeOK'
  <2>1. Announce(a, d) /\ next_id \in Id
    BY <1>3, Zenon DEF SendTooLarge, TypeOK
  <2>2. /\ DOMAIN uni \subseteq DOMAIN uni'
        /\ DOMAIN uni' \subseteq Streaming \X Dests
        /\ \A c \in DOMAIN uni' : uni'[c] \in [id : Id, frames : Seq(1..MaxSends)]
    <3>1. CASE a \in Streaming
      <4>1. uni' = Put(uni, <<a, d>>, [id |-> next_id, frames |-> <<>>])
        BY <1>3, <3>1, Zenon DEF SendTooLarge
      <4>2. [id |-> next_id, frames |-> <<>>] \in [id : Id, frames : Seq(1..MaxSends)]
        BY <2>1
      <4>3. /\ DOMAIN uni' = DOMAIN uni \cup {<<a, d>>}
            /\ uni'[<<a, d>>] = [id |-> next_id, frames |-> <<>>]
            /\ \A y \in DOMAIN uni : y # <<a, d>> => uni'[y] = uni[y]
        BY <4>1, Zenon DEF Put
      <4>4. DOMAIN uni' \subseteq Streaming \X Dests
        BY <3>1, <4>3 DEF TypeOK
      <4> QED
        BY <4>2, <4>3, <4>4, Zenon DEF TypeOK
    <3>2. CASE a \notin Streaming
      BY <1>3, <3>2, Zenon DEF SendTooLarge, TypeOK
    <3> QED
      BY <3>1, <3>2, Zenon
  <2> QED
    BY <1>3, <2>1, <2>2, AnnounceType, Zenon DEF SendTooLarge, TypeOK
<1>4. ASSUME NEW a \in Assocs, SendRejected(a) PROVE TypeOK'
  BY <1>4, NextIdType, Zenon DEF SendRejected, TypeOK
<1>5. ASSUME NEW a \in Assocs, DropSender(a) PROVE TypeOK'
  BY <1>5, Zenon DEF DropSender, TypeOK
<1>6. ASSUME NEW a \in Assocs, ReadControl(a) PROVE TypeOK'
  <2> DEFINE e == Head(control[a])
  <2>1. e \in [dest : Dests, id : Id] /\ Tail(control[a]) \in Seq([dest : Dests, id : Id])
    <3>1. control[a] \in Seq([dest : Dests, id : Id]) /\ control[a] # <<>>
      BY <1>6, Zenon DEF ReadControl, TypeOK
    <3> QED
      BY <3>1, HeadTailFacts, Zenon
  <2>2. /\ control' = [control EXCEPT ![a] = Tail(@)]
        /\ routes' = Put(routes, e.id, [assoc |-> a, dest |-> e.dest])
        /\ ids' = [ids EXCEPT ![a] = @ \cup {e.id}]
    BY <1>6, Zenon DEF ReadControl
  <2> HIDE DEF e
  <2>3. /\ DOMAIN routes' = DOMAIN routes \cup {e.id}
        /\ routes'[e.id] = [assoc |-> a, dest |-> e.dest]
        /\ \A y \in DOMAIN routes : y # e.id => routes'[y] = routes[y]
    BY <2>2, Zenon DEF Put
  <2>4. e.id \in Id /\ [assoc |-> a, dest |-> e.dest] \in RouteType
    BY <2>1, Zenon DEF RouteType
  <2>5. DOMAIN routes' \subseteq Id /\ Range(routes') \subseteq RouteType
    BY <2>3, <2>4 DEF TypeOK, Range
  <2>6. control' \in [Assocs -> Seq([dest : Dests, id : Id])]
    BY <2>1, <2>2, Zenon DEF TypeOK
  <2>7. ids' \in [Assocs -> SUBSET Id]
    BY <2>2, <2>4, Zenon DEF TypeOK
  <2> QED
    BY <1>6, <2>5, <2>6, <2>7, Zenon DEF ReadControl, TypeOK
<1>7. ASSUME NEW a \in Assocs, EndControl(a) PROVE TypeOK'
  BY <1>7, ZenonT(30) DEF EndControl, TypeOK, Restrict, Range
<1>8. ASSUME NEW a \in Assocs, Recv(a) PROVE TypeOK'
  <2>1. /\ Head(chan[a]) \in Delivery
        /\ Tail(chan[a]) \in Seq(Delivery)
        /\ Len(Tail(chan[a])) = Len(chan[a]) - 1
        /\ Len(chan[a]) \in Nat
    BY <1>8 DEF Recv, TypeOK
  <2>2. delivered' \in Seq(Delivery)
    BY <1>8, <2>1 DEF Recv, TypeOK
  <2>3. chan' \in [Assocs -> Seq(Delivery)]
    BY <1>8, <2>1, Zenon DEF Recv, TypeOK
  <2>4. Len(chan'[a]) <= ChanCap
    BY <1>8, <2>1, SQuicUdpAssumption DEF Recv, TypeOK
  <2>5. \A b \in Assocs : Len(chan'[b]) <= ChanCap
    BY <1>8, <2>4, Zenon DEF Recv, TypeOK
  <2> QED
    BY <1>8, <2>2, <2>3, <2>5, Zenon DEF Recv, TypeOK
<1>9. ASSUME NEW a \in Assocs, Release(a) PROVE TypeOK'
  <2>1. <<>> \in Seq(Delivery) /\ Len(<<>>) <= ChanCap
    BY SQuicUdpAssumption
  <2> QED
    BY <1>9, <2>1, Zenon DEF Release, TypeOK
<1>10. ASSUME NEW g \in datagrams, LoseDatagram(g) \/ Arrive(g) PROVE TypeOK'
  BY <1>10, Zenon DEF LoseDatagram, Arrive, TypeOK
<1>11. ASSUME NEW g \in tasks, Route(g) \/ WaitFails(g) PROVE TypeOK'
  <2>1. g.packet \in 1..MaxSends
    BY Zenon DEF TypeOK, Datagram
  <2>2. g.id \in DOMAIN routes =>
            [packet |-> g.packet, route |-> routes[g.id]]
                \in [packet : 1..MaxSends, route : RouteType]
    BY <2>1, Zenon DEF TypeOK, Range
  <2> QED
    BY <1>11, <2>2, Zenon DEF Route, WaitFails, TypeOK
<1>12. ASSUME NEW s \in sending, Push(s) PROVE TypeOK'
  <2>1. s.packet \in 1..MaxSends /\ s.route \in RouteType
    BY Zenon DEF TypeOK
  <2> QED
    BY <1>12, <2>1, ForwardType, Zenon DEF Push, TypeOK
<1>13. ASSUME NEW c \in DOMAIN uni, AcceptUni(c) PROVE TypeOK'
  BY <1>13, Zenon DEF AcceptUni, TypeOK, Put
<1>14. ASSUME NEW c \in DOMAIN bound, Bind(c) PROVE TypeOK'
  <2>1. routes[uni[c].id] \in RouteType
    BY <1>14, Zenon DEF Bind, TypeOK, Range
  <2> QED
    BY <1>14, <2>1, Zenon DEF Bind, TypeOK
<1>15. ASSUME NEW c \in DOMAIN bound, PushFrame(c) PROVE TypeOK'
  <2>1. c \in DOMAIN uni /\ uni[c] \in [id : Id, frames : Seq(1..MaxSends)]
    BY Zenon DEF TypeOK
  <2>2. /\ Head(uni[c].frames) \in 1..MaxSends
        /\ Tail(uni[c].frames) \in Seq(1..MaxSends)
    <3>1. uni[c].frames \in Seq(1..MaxSends) /\ uni[c].frames # <<>>
      BY <1>15, <2>1, Zenon DEF PushFrame
    <3> QED
      BY <3>1, HeadTailFacts, Zenon
  <2>3. bound[c] \in RouteType
    BY <1>15, Zenon DEF PushFrame, TypeOK
  <2>4. chan' \in [Assocs -> Seq(Delivery)] /\ \A a \in Assocs : Len(chan'[a]) <= ChanCap
    BY <1>15, <2>2, <2>3, ForwardType, Zenon DEF PushFrame
  <2>5. /\ DOMAIN uni' = DOMAIN uni
        /\ \A y \in DOMAIN uni : uni'[y] \in [id : Id, frames : Seq(1..MaxSends)]
    BY <1>15, <2>1, <2>2, Zenon DEF PushFrame, TypeOK
  <2> QED
    BY <1>15, <2>4, <2>5, Zenon DEF PushFrame, TypeOK
<1>16. ASSUME NEW c \in DOMAIN bound, EndUni(c) PROVE TypeOK'
  BY <1>16, Zenon DEF EndUni, TypeOK, Restrict
<1>17. CASE ConnectionLost \/ LoopEnds
  BY <1>17, Zenon DEF ConnectionLost, LoopEnds, TypeOK
<1>18. CASE UNCHANGED vars
  BY <1>18, Zenon DEF vars, TypeOK
<1> QED
  BY Zenon, <1>1, <1>2, <1>3, <1>4, <1>5, <1>6, <1>7, <1>8, <1>9, <1>10, <1>11, <1>12, <1>13,
     <1>14, <1>15, <1>16, <1>17, <1>18 DEF Next

\* The types hold at the start.
LEMMA TypeInit == Init => TypeOK
BY SQuicUdpAssumption DEF Init, TypeOK, Id, Range

-----------------------------------------------------------------------------
(***************************************************************************)
(* An id names one context, and the registry is exact.                     *)
(***************************************************************************)

\* An id that is drawn names nothing yet: neither a context, an announcement
\* or a route, nor anything that is under way.
LEMMA FreshId ==
    ASSUME TypeOK, RoutesOwned, NEW id, IdUnused(id)
    PROVE  \A a \in Assocs, d \in Dests : ~Claims(id, a, d)
<1> SUFFICES ASSUME NEW a \in Assocs, NEW d \in Dests, Claims(id, a, d) PROVE FALSE
  BY Zenon
<1>1. CASE a \in Assocs \ dropped /\ d \in DOMAIN contexts[a] /\ contexts[a][d] = id
  BY <1>1, Zenon DEF IdUnused, Range
<1>2. CASE \E i \in 1..Len(control[a]) : control[a][i] = [dest |-> d, id |-> id]
  BY <1>2 DEF IdUnused
<1>3. CASE id \in DOMAIN routes
  BY <1>3 DEF IdUnused, RoutesOwned
<1>4. CASE \E g \in datagrams \cup tasks : g.id = id
  BY <1>4, Zenon DEF IdUnused
<1>5. CASE <<a, d>> \in DOMAIN uni /\ uni[<<a, d>>].id = id
  BY <1>5, Zenon DEF IdUnused
<1> QED
  BY <1>1, <1>2, <1>3, <1>4, <1>5, Zenon DEF Claims

\* What a sent packet adds: its id names the context it was sent on.
LEMMA EmitClaims ==
    ASSUME TypeOK, Labelled, NEW a \in Assocs, NEW d \in Dests, NEW id \in Id,
           Emit(a, d, id), UNCHANGED tasks
    PROVE  /\ \A g \in datagrams' \cup tasks' : \A b \in Assocs, e \in Dests :
                 sent'[g.packet] = [assoc |-> b, dest |-> e] =>
                     \/ g \in datagrams \cup tasks /\ sent[g.packet] = [assoc |-> b, dest |-> e]
                     \/ g.id = id /\ b = a /\ e = d
           /\ \A c \in DOMAIN uni' : \/ c \in DOMAIN uni /\ uni'[c] = uni[c]
                                     \/ c = <<a, d>> /\ uni'[c].id = id
<1> DEFINE n == Len(sent) + 1
           r == [assoc |-> a, dest |-> d]
<1>1. sent' = Append(sent, r) /\ sent \in Seq(RouteType) /\ r \in RouteType
  BY Zenon DEF Emit, TypeOK, RouteType
<1> HIDE DEF r
<1>2. sent'[n] = r /\ \A i \in 1..Len(sent) : sent'[i] = sent[i]
  BY <1>1
<1>3. ASSUME NEW g \in datagrams' \cup tasks', NEW b \in Assocs, NEW e \in Dests,
             sent'[g.packet] = [assoc |-> b, dest |-> e]
      PROVE  \/ g \in datagrams \cup tasks /\ sent[g.packet] = [assoc |-> b, dest |-> e]
             \/ g.id = id /\ b = a /\ e = d
  <2>1. CASE g \in datagrams \cup tasks
    BY <1>2, <1>3, <2>1, Zenon DEF Labelled, WireLabelled
  <2>2. CASE g \notin datagrams \cup tasks
    <3>1. g = [id |-> id, packet |-> n]
      BY <2>2 DEF Emit
    <3> QED
      BY <1>2, <1>3, <3>1 DEF r
  <2> QED
    BY <2>1, <2>2, Zenon
<1>4. ASSUME NEW c \in DOMAIN uni'
      PROVE  \/ c \in DOMAIN uni /\ uni'[c] = uni[c]
             \/ c = <<a, d>> /\ uni'[c].id = id
  BY DEF Emit, Put
<1> QED
  BY <1>3, <1>4, Zenon

\* What an announcement adds: the next id, for the announced context.
LEMMA AnnounceClaims ==
    ASSUME TypeOK, NEW a \in Assocs, NEW d \in Dests, Announce(a, d),
           NEW b \in Assocs, NEW e \in Dests, NEW id
    PROVE  /\ e \in DOMAIN contexts'[b] /\ contexts'[b][e] = id =>
                 \/ e \in DOMAIN contexts[b] /\ contexts[b][e] = id
                 \/ id = next_id /\ b = a /\ e = d
           /\ (\E i \in 1..Len(control'[b]) : control'[b][i] = [dest |-> e, id |-> id]) =>
                 \/ \E i \in 1..Len(control[b]) : control[b][i] = [dest |-> e, id |-> id]
                 \/ id = next_id /\ b = a /\ e = d
<1>1. e \in DOMAIN contexts'[b] /\ contexts'[b][e] = id =>
          \/ e \in DOMAIN contexts[b] /\ contexts[b][e] = id
          \/ id = next_id /\ b = a /\ e = d
  BY Zenon DEF Announce, TypeOK, Put
<1>2. ASSUME NEW i \in 1..Len(control'[b]), control'[b][i] = [dest |-> e, id |-> id]
      PROVE  \/ \E j \in 1..Len(control[b]) : control[b][j] = [dest |-> e, id |-> id]
             \/ id = next_id /\ b = a /\ e = d
  <2> DEFINE x == [dest |-> d, id |-> next_id]
  <2>1. CASE b # a
    BY <1>2, <2>1, Zenon DEF Announce, TypeOK
  <2>2. CASE b = a
    <3>1. /\ control'[b] = Append(control[a], x)
          /\ control[a] \in Seq([dest : Dests, id : Id])
          /\ x \in [dest : Dests, id : Id]
      BY <2>2, Zenon DEF Announce, TypeOK
    <3>2. /\ Len(control'[b]) = Len(control[a]) + 1
          /\ control'[b][Len(control[a]) + 1] = x
          /\ \A j \in 1..Len(control[a]) : control'[b][j] = control[a][j]
      BY <3>1
    <3>3. i \in 1..Len(control[a]) \/ i = Len(control[a]) + 1
      BY <3>1, <3>2
    <3> QED
      BY <1>2, <2>2, <3>2, <3>3
  <2> QED
    BY <2>1, <2>2, Zenon
<1> QED
  BY <1>1, <1>2, Zenon

\* A packet under an id that names its context adds no other claim.
LEMMA SendKnownClaims ==
    ASSUME TypeOK, Labelled, NEW a \in Assocs, NEW d \in Dests, SendKnown(a, d),
           NEW b \in Assocs, NEW e \in Dests, NEW id \in Id, Claims(id, b, e)'
    PROVE  Claims(id, b, e)
<1> DEFINE k == contexts[a][d]
<1>1. k \in Id /\ Emit(a, d, k) /\ UNCHANGED <<contexts, control, dropped, routes, tasks>>
  BY Zenon DEF SendKnown, TypeOK, Range, routeVars, taskVars
<1>2. Claims(k, a, d)
  BY Zenon DEF Claims, SendKnown, CanSend
<1> HIDE DEF k
<1>3. CASE a \in Assocs \ dropped /\ b \in Assocs \ dropped' /\ e \in DOMAIN contexts'[b]
           /\ contexts'[b][e] = id
  BY <1>1, <1>3, Zenon DEF Claims
<1>4. CASE \E i \in 1..Len(control'[b]) : control'[b][i] = [dest |-> e, id |-> id]
  BY <1>1, <1>4, Zenon DEF Claims
<1>5. CASE id \in DOMAIN routes' /\ routes'[id] = [assoc |-> b, dest |-> e]
  BY <1>1, <1>5, Zenon DEF Claims
<1>6. CASE \E g \in datagrams' \cup tasks' :
               g.id = id /\ sent'[g.packet] = [assoc |-> b, dest |-> e]
  <2>1. PICK g \in datagrams' \cup tasks' :
               g.id = id /\ sent'[g.packet] = [assoc |-> b, dest |-> e]
    BY <1>6, Zenon
  <2>2. \/ g \in datagrams \cup tasks /\ sent[g.packet] = [assoc |-> b, dest |-> e]
        \/ g.id = k /\ b = a /\ e = d
    <3>1. \A h \in datagrams' \cup tasks' :
              sent'[h.packet] = [assoc |-> b, dest |-> e] =>
                  \/ h \in datagrams \cup tasks /\ sent[h.packet] = [assoc |-> b, dest |-> e]
                  \/ h.id = k /\ b = a /\ e = d
      BY <1>1, EmitClaims
    <3> QED
      BY <2>1, <3>1, Zenon
  <2> QED
    BY <1>2, <2>1, <2>2, Zenon DEF Claims
<1>7. CASE <<b, e>> \in DOMAIN uni' /\ uni'[<<b, e>>].id = id
  <2>1. \/ <<b, e>> \in DOMAIN uni /\ uni'[<<b, e>>] = uni[<<b, e>>]
        \/ <<b, e>> = <<a, d>> /\ uni'[<<b, e>>].id = k
    BY <1>1, <1>7, EmitClaims
  <2> QED
    BY <1>2, <1>7, <2>1, Zenon DEF Claims
<1> QED
  BY <1>3, <1>4, <1>5, <1>6, <1>7, Zenon DEF Claims, SendKnown, CanSend

\* A send that announces a context adds claims of the drawn id for that
\* context, and no others.
LEMMA AnnouncedClaims ==
    ASSUME TypeOK, Labelled, NEW a \in Assocs, NEW d \in Dests,
           SendNew(a, d) \/ SendTooLarge(a, d),
           NEW b \in Assocs, NEW e \in Dests, NEW id \in Id, Claims(id, b, e)'
    PROVE  Claims(id, b, e) \/ (id = next_id /\ b = a /\ e = d)
<1>1. Announce(a, d) /\ UNCHANGED <<dropped, routes, tasks>> /\ next_id \in Id
  BY Zenon DEF SendNew, SendTooLarge, TypeOK, routeVars, taskVars
<1>2. CASE b \in Assocs \ dropped' /\ e \in DOMAIN contexts'[b] /\ contexts'[b][e] = id
  <2>1. \/ e \in DOMAIN contexts[b] /\ contexts[b][e] = id
        \/ id = next_id /\ b = a /\ e = d
    BY <1>1, <1>2, Zenon DEF Announce, TypeOK, Put
  <2>2. b \in Assocs \ dropped
    BY <1>1, <1>2, Zenon
  <2> QED
    BY <2>1, <2>2, Zenon DEF Claims
<1>3. CASE \E i \in 1..Len(control'[b]) : control'[b][i] = [dest |-> e, id |-> id]
  <2>1. \/ \E i \in 1..Len(control[b]) : control[b][i] = [dest |-> e, id |-> id]
        \/ id = next_id /\ b = a /\ e = d
    BY <1>1, <1>3, AnnounceClaims
  <2> QED
    BY <2>1, Zenon DEF Claims
<1>4. CASE id \in DOMAIN routes' /\ routes'[id] = [assoc |-> b, dest |-> e]
  BY <1>1, <1>4, Zenon DEF Claims
<1>5. CASE \E g \in datagrams' \cup tasks' :
               g.id = id /\ sent'[g.packet] = [assoc |-> b, dest |-> e]
  <2>1. PICK g \in datagrams' \cup tasks' :
               g.id = id /\ sent'[g.packet] = [assoc |-> b, dest |-> e]
    BY <1>5, Zenon
  <2>2. \/ g \in datagrams \cup tasks /\ sent[g.packet] = [assoc |-> b, dest |-> e]
        \/ g.id = next_id /\ b = a /\ e = d
    <3>1. CASE SendNew(a, d)
      BY <1>1, <2>1, <3>1, EmitClaims DEF SendNew
    <3>2. CASE SendTooLarge(a, d)
      BY <1>1, <2>1, <3>2, Zenon DEF SendTooLarge
    <3> QED
      BY <3>1, <3>2, Zenon
  <2> QED
    BY <2>1, <2>2, Zenon DEF Claims
<1>6. CASE <<b, e>> \in DOMAIN uni' /\ uni'[<<b, e>>].id = id
  <2>1. \/ <<b, e>> \in DOMAIN uni /\ uni'[<<b, e>>] = uni[<<b, e>>]
        \/ <<b, e>> = <<a, d>> /\ uni'[<<b, e>>].id = next_id
    <3>1. CASE SendNew(a, d)
      BY <1>1, <1>6, <3>1, EmitClaims DEF SendNew
    <3>2. CASE SendTooLarge(a, d)
      BY <1>6, <3>2, Zenon DEF SendTooLarge, Put
    <3> QED
      BY <3>1, <3>2, Zenon
  <2> QED
    BY <1>6, <2>1, Zenon DEF Claims
<1> QED
  BY <1>2, <1>3, <1>4, <1>5, <1>6, Zenon DEF Claims

\* Reading an announcement turns its claim into a route.
LEMMA ReadControlClaims ==
    ASSUME TypeOK, NEW a \in Assocs, ReadControl(a),
           NEW b \in Assocs, NEW e \in Dests, NEW id \in Id, Claims(id, b, e)'
    PROVE  Claims(id, b, e)
<1> DEFINE entry == Head(control[a])
<1>1. /\ control' = [control EXCEPT ![a] = Tail(@)]
      /\ routes' = Put(routes, entry.id, [assoc |-> a, dest |-> entry.dest])
      /\ UNCHANGED <<contexts, dropped, sent, datagrams, uni, tasks>>
  BY Zenon DEF ReadControl, wireVars, taskVars
<1>2. /\ control[a] \in Seq([dest : Dests, id : Id])
      /\ control[a] # <<>>
  BY Zenon DEF ReadControl, TypeOK
<1>3. /\ Len(control[a]) \in Nat /\ Len(control[a]) >= 1
      /\ entry = control[a][1] /\ entry \in [dest : Dests, id : Id]
      /\ \A i \in 1..Len(Tail(control[a])) :
            i + 1 \in 1..Len(control[a]) /\ Tail(control[a])[i] = control[a][i + 1]
  BY <1>2, HeadTailFacts, Zenon
<1> HIDE DEF entry
<1>4. CASE b \in Assocs \ dropped' /\ e \in DOMAIN contexts'[b] /\ contexts'[b][e] = id
  BY <1>1, <1>4, Zenon DEF Claims
<1>5. CASE \E i \in 1..Len(control'[b]) : control'[b][i] = [dest |-> e, id |-> id]
  <2>1. PICK i \in 1..Len(control'[b]) : control'[b][i] = [dest |-> e, id |-> id]
    BY <1>5, Zenon
  <2>2. CASE b = a
    <3>1. control'[b] = Tail(control[a])
      BY <1>1, <2>2, Zenon DEF TypeOK
    <3>2. i + 1 \in 1..Len(control[a]) /\ control[a][i + 1] = [dest |-> e, id |-> id]
      BY <1>3, <2>1, <3>1, Zenon
    <3> QED
      BY <2>2, <3>2, Zenon DEF Claims
  <2>3. CASE b # a
    BY <1>1, <2>1, <2>3, Zenon DEF Claims, TypeOK
  <2> QED
    BY <2>2, <2>3, Zenon
<1>6. CASE id \in DOMAIN routes' /\ routes'[id] = [assoc |-> b, dest |-> e]
  <2>1. CASE id = entry.id
    <3>1. a = b /\ entry.dest = e
      BY <1>1, <1>6, <2>1, Zenon DEF Put
    <3>2. control[a][1] = [dest |-> e, id |-> id] /\ 1 \in 1..Len(control[a])
      BY <1>3, <2>1, <3>1
    <3> QED
      BY <3>1, <3>2, Zenon DEF Claims
  <2>2. CASE id # entry.id
    BY <1>1, <1>6, <2>2, Zenon DEF Put, Claims
  <2> QED
    BY <2>1, <2>2, Zenon
<1>7. CASE \E g \in datagrams' \cup tasks' :
               g.id = id /\ sent'[g.packet] = [assoc |-> b, dest |-> e]
  BY <1>1, <1>7, Zenon DEF Claims
<1>8. CASE <<b, e>> \in DOMAIN uni' /\ uni'[<<b, e>>].id = id
  BY <1>1, <1>8, Zenon DEF Claims
<1> QED
  BY <1>4, <1>5, <1>6, <1>7, <1>8, Zenon DEF Claims

\* Nothing else makes an id name anything new.
LEMMA OtherClaims ==
    ASSUME TypeOK, [Next]_vars,
           NEW b \in Assocs, NEW e \in Dests, NEW id \in Id, Claims(id, b, e)'
    PROVE  \/ Claims(id, b, e)
           \/ \E a \in Assocs, d \in Dests :
                SendKnown(a, d) \/ (IdUnused(next_id) /\ (SendNew(a, d) \/ SendTooLarge(a, d)))
           \/ \E a \in Assocs : ReadControl(a)
<1> USE DEF senderVars, wireVars, routeVars, taskVars, appVars
<1>1. ASSUME NEW a \in Assocs, SendRejected(a) \/ DropSender(a) PROVE Claims(id, b, e)
  BY <1>1, Zenon DEF SendRejected, DropSender, Claims
<1>2. ASSUME NEW a \in Assocs, EndControl(a) PROVE Claims(id, b, e)
  BY <1>2, Zenon DEF EndControl, Claims, Restrict
<1>3. ASSUME NEW a \in Assocs, Recv(a) \/ Release(a) PROVE Claims(id, b, e)
  BY <1>3, Zenon DEF Recv, Release, Claims
<1>4. ASSUME NEW g \in datagrams, LoseDatagram(g) \/ Arrive(g) PROVE Claims(id, b, e)
  BY <1>4, Zenon DEF LoseDatagram, Arrive, Claims
<1>5. ASSUME NEW g \in tasks, Route(g) \/ WaitFails(g) PROVE Claims(id, b, e)
  BY <1>5, Zenon DEF Route, WaitFails, Claims
<1>6. ASSUME NEW s \in sending, Push(s) PROVE Claims(id, b, e)
  BY <1>6, Zenon DEF Push, Claims
<1>7. ASSUME NEW c \in DOMAIN uni, AcceptUni(c) PROVE Claims(id, b, e)
  BY <1>7, Zenon DEF AcceptUni, Claims
<1>8. ASSUME NEW c \in DOMAIN bound, Bind(c) PROVE Claims(id, b, e)
  BY <1>8, Zenon DEF Bind, Claims
<1>9. ASSUME NEW c \in DOMAIN bound, PushFrame(c) PROVE Claims(id, b, e)
  <2>1. DOMAIN uni' = DOMAIN uni /\ \A y \in DOMAIN uni : uni'[y].id = uni[y].id
    BY <1>9, Zenon DEF PushFrame, TypeOK
  <2> QED
    BY <1>9, <2>1, Zenon DEF PushFrame, Claims
<1>10. ASSUME NEW c \in DOMAIN bound, EndUni(c) PROVE Claims(id, b, e)
  BY <1>10, Zenon DEF EndUni, Claims, Restrict
<1>11. CASE ConnectionLost \/ LoopEnds \/ UNCHANGED vars
  BY <1>11, Zenon DEF ConnectionLost, LoopEnds, vars, Claims
<1> QED
  BY <1>1, <1>2, <1>3, <1>4, <1>5, <1>6, <1>7, <1>8, <1>9, <1>10, <1>11, Zenon DEF Next

\* Whatever happens, an id names one context at most.
LEMMA OneContextStep ==
    TypeOK /\ RoutesOwned /\ Labelled /\ OneContext /\ [Next]_vars => OneContext'
<1> SUFFICES ASSUME TypeOK, RoutesOwned, Labelled, OneContext, [Next]_vars,
                    NEW id \in Id, NEW x \in Assocs, NEW y \in Assocs,
                    NEW d \in Dests, NEW e \in Dests, Claims(id, x, d)', Claims(id, y, e)'
             PROVE  x = y /\ d = e
  BY DEF OneContext, Id
<1>1. CASE Claims(id, x, d) /\ Claims(id, y, e)
  BY <1>1, Zenon DEF OneContext
<1>2. ASSUME NEW a \in Assocs, NEW f \in Dests, SendKnown(a, f) PROVE x = y /\ d = e
  BY <1>1, <1>2, SendKnownClaims, Zenon
<1>3. ASSUME NEW a \in Assocs, NEW f \in Dests, IdUnused(next_id),
             SendNew(a, f) \/ SendTooLarge(a, f)
      PROVE  x = y /\ d = e
  <2>1. /\ Claims(id, x, d) \/ (id = next_id /\ x = a /\ d = f)
        /\ Claims(id, y, e) \/ (id = next_id /\ y = a /\ e = f)
    BY <1>3, AnnouncedClaims
  <2>2. ~Claims(next_id, x, d) /\ ~Claims(next_id, y, e)
    BY <1>3, FreshId, Zenon
  <2> QED
    BY <1>1, <2>1, <2>2, Zenon
<1>4. ASSUME NEW a \in Assocs, ReadControl(a) PROVE x = y /\ d = e
  BY <1>1, <1>4, ReadControlClaims, Zenon
<1> QED
  BY <1>1, <1>2, <1>3, <1>4, OtherClaims, Zenon

\* Registering and removing keep the registry exact: the id of an announcement
\* is not a route of another association, nor is one that is removed.
LEMMA RoutesOwnedStep ==
    TypeOK /\ RoutesOwned /\ OneContext /\ [Next]_vars => RoutesOwned'
<1> SUFFICES ASSUME TypeOK, RoutesOwned, OneContext, [Next]_vars PROVE RoutesOwned'
  BY Zenon
<1>1. ASSUME NEW a \in Assocs, ReadControl(a) PROVE RoutesOwned'
  <2> DEFINE entry == Head(control[a])
  <2>1. control[a] \in Seq([dest : Dests, id : Id]) /\ control[a] # <<>> /\ a \in reading
    BY <1>1, Zenon DEF ReadControl, TypeOK
  <2>2. entry = control[a][1] /\ 1 \in 1..Len(control[a]) /\ entry \in [dest : Dests, id : Id]
    BY <2>1, HeadTailFacts, Zenon
  <2>3. /\ routes' = Put(routes, entry.id, [assoc |-> a, dest |-> entry.dest])
        /\ ids' = [ids EXCEPT ![a] = @ \cup {entry.id}]
        /\ reading' = reading
    BY <1>1, Zenon DEF ReadControl
  <2> HIDE DEF entry
  <2>4. Claims(entry.id, a, entry.dest)
    BY <2>2, Zenon DEF Claims
  <2>5. /\ DOMAIN routes' = DOMAIN routes \cup {entry.id}
        /\ routes'[entry.id].assoc = a
        /\ \A id \in DOMAIN routes : id # entry.id => routes'[id] = routes[id]
    BY <2>3, Zenon DEF Put
  <2>6. /\ ids'[a] = ids[a] \cup {entry.id}
        /\ \A b \in Assocs : b # a => ids'[b] = ids[b]
    BY <2>3, Zenon DEF TypeOK
  <2>7. ASSUME NEW b \in reading, entry.id \in ids[b] PROVE b = a
    <3>1. entry.id \in DOMAIN routes /\ routes[entry.id].assoc = b /\ b \in Assocs
      BY <2>7 DEF RoutesOwned, TypeOK
    <3>2. routes[entry.id] \in RouteType
      BY <3>1, Zenon DEF TypeOK, Range
    <3>3. PICK e \in Dests : routes[entry.id] = [assoc |-> b, dest |-> e]
      BY <3>1, <3>2, Zenon DEF RouteType
    <3>4. Claims(entry.id, b, e)
      BY <3>1, <3>3, Zenon DEF Claims
    <3> QED
      BY <2>2, <2>4, <3>1, <3>4 DEF OneContext
  <2>8. /\ reading \subseteq Assocs
        /\ \A id \in DOMAIN routes : \E b \in reading : id \in ids[b]
        /\ \A b \in reading : \A id \in ids[b] : id \in DOMAIN routes /\ routes[id].assoc = b
    BY DEF RoutesOwned, TypeOK
  <2>9. DOMAIN routes' = UNION {ids'[b] : b \in reading}
    <3>1. ASSUME NEW id \in DOMAIN routes' PROVE \E b \in reading : id \in ids'[b]
      BY <2>1, <2>5, <2>6, <2>8
    <3>2. ASSUME NEW b \in reading, NEW id \in ids'[b] PROVE id \in DOMAIN routes'
      BY <2>5, <2>6, <2>8, Zenon
    <3> QED
      BY <3>1, <3>2, Zenon
  <2>10. ASSUME NEW b \in reading, NEW id \in ids'[b] PROVE routes'[id].assoc = b
    <3>1. CASE id = entry.id
      BY <2>5, <2>6, <2>7, <2>8, <3>1, Zenon
    <3>2. CASE id # entry.id
      BY <2>5, <2>6, <2>8, <3>2
    <3> QED
      BY <3>1, <3>2, Zenon
  <2> QED
    BY <2>3, <2>9, <2>10, Zenon DEF RoutesOwned
<1>2. ASSUME NEW a \in Assocs, EndControl(a) PROVE RoutesOwned'
  <2>1. /\ routes' = Restrict(routes, DOMAIN routes \ ids[a])
        /\ reading' = reading \ {a} /\ ids' = ids /\ a \in reading
    BY <1>2, Zenon DEF EndControl
  <2>2. /\ DOMAIN routes' = DOMAIN routes \ ids[a]
        /\ \A id \in DOMAIN routes' : routes'[id] = routes[id]
    BY <2>1, Zenon DEF Restrict
  <2>3. ASSUME NEW b \in reading, b # a, NEW id \in ids[b] PROVE id \notin ids[a]
    BY <2>1, <2>3, Zenon DEF RoutesOwned
  <2>4. DOMAIN routes' = UNION {ids[b] : b \in reading'}
    <3>1. ASSUME NEW id \in DOMAIN routes' PROVE \E b \in reading' : id \in ids[b]
      BY <2>1, <2>2 DEF RoutesOwned
    <3>2. ASSUME NEW b \in reading', NEW id \in ids[b] PROVE id \in DOMAIN routes'
      BY <2>1, <2>2, <2>3, Zenon DEF RoutesOwned
    <3> QED
      BY <3>1, <3>2, Zenon
  <2>5. \A b \in reading' : \A id \in ids[b] : routes'[id].assoc = b
    BY <2>1, <2>2, <2>3 DEF RoutesOwned
  <2> QED
    BY <2>1, <2>4, <2>5 DEF RoutesOwned
<1>3. CASE UNCHANGED <<routes, ids, reading>>
  BY <1>3 DEF RoutesOwned
<1>4. \/ UNCHANGED <<routes, ids, reading>>
      \/ \E a \in Assocs : ReadControl(a) \/ EndControl(a)
  BY Zenon DEF Next, vars, routeVars, SendKnown, SendNew, SendTooLarge, SendRejected, DropSender,
         Recv, Release, LoseDatagram, Arrive, Route, WaitFails, Push, AcceptUni, Bind,
         PushFrame, EndUni, ConnectionLost, LoopEnds
<1> QED
  BY <1>1, <1>2, <1>3, <1>4, Zenon

-----------------------------------------------------------------------------
(***************************************************************************)
(* Packets keep their labels.                                              *)
(***************************************************************************)

\* The numbers of the packets sent so far keep their meaning.
LEMMA SentGrows ==
    ASSUME TypeOK, NEW a \in Assocs, NEW d \in Dests, NEW id, Emit(a, d, id)
    PROVE  /\ Len(sent) \in Nat /\ Len(sent') = Len(sent) + 1
           /\ sent'[Len(sent) + 1] = ContextOf(<<a, d>>)
           /\ \A n \in 1..Len(sent) : n \in 1..Len(sent') /\ sent'[n] = sent[n]
<1> DEFINE r == [assoc |-> a, dest |-> d]
<1>1. sent' = Append(sent, r) /\ sent \in Seq(RouteType) /\ r \in RouteType
  BY Zenon DEF Emit, TypeOK, RouteType
<1> HIDE DEF r
<1>2. /\ Len(sent) \in Nat /\ Len(sent') = Len(sent) + 1
      /\ sent'[Len(sent) + 1] = r
      /\ \A n \in 1..Len(sent) : n \in 1..Len(sent') /\ sent'[n] = sent[n]
  BY <1>1, AppendFacts
<1>3. r = ContextOf(<<a, d>>)
  BY Zenon DEF r, ContextOf
<1> QED
  BY <1>2, <1>3, Zenon

\* The frames of the stream of a context after a send on it.
LEMMA EmitFrames ==
    ASSUME TypeOK, NEW a \in Assocs, NEW d \in Dests, NEW id \in Id, Emit(a, d, id),
           a \in Streaming, Len(sent) < MaxSends
    PROVE  LET c == <<a, d>>
               old == IF c \in DOMAIN uni THEN uni[c].frames ELSE <<>>
           IN  /\ datagrams' = datagrams
               /\ DOMAIN uni' = DOMAIN uni \cup {c}
               /\ \A y \in DOMAIN uni : y # c => uni'[y] = uni[y]
               /\ old \in Seq(1..MaxSends)
               /\ uni'[c].frames = Append(old, Len(sent) + 1)
               /\ Len(sent) + 1 \in 1..MaxSends
<1> DEFINE c == <<a, d>>
           old == IF c \in DOMAIN uni THEN uni[c].frames ELSE <<>>
<1>1. uni' = Put(uni, c, [id |-> id, frames |-> Append(old, Len(sent) + 1)])
      /\ datagrams' = datagrams
  BY Zenon DEF Emit
<1>2. old \in Seq(1..MaxSends)
  <2>1. CASE c \in DOMAIN uni
    BY <2>1, Zenon DEF TypeOK
  <2>2. CASE c \notin DOMAIN uni
    BY <2>2
  <2> QED
    BY <2>1, <2>2, Zenon
<1> HIDE DEF old
<1>3. /\ DOMAIN uni' = DOMAIN uni \cup {c}
      /\ uni'[c].frames = Append(old, Len(sent) + 1)
      /\ \A y \in DOMAIN uni : y # c => uni'[y] = uni[y]
  BY <1>1, Zenon DEF Put
<1>4. Len(sent) + 1 \in 1..MaxSends
  BY SQuicUdpAssumption DEF TypeOK
<1> QED
  BY <1>1, <1>2, <1>3, <1>4, Zenon DEF old

\* A packet that is sent is labelled with the context it was sent on.
LEMMA EmitLabelled ==
    ASSUME TypeOK, Labelled, NEW a \in Assocs, NEW d \in Dests, NEW id \in Id,
           Emit(a, d, id), Len(sent) < MaxSends,
           UNCHANGED <<tasks, sending, bound, chan, delivered>>
    PROVE  Labelled'
<1> DEFINE n == Len(sent) + 1
<1>1. /\ Len(sent) \in Nat /\ Len(sent') = n
      /\ sent'[n] = ContextOf(<<a, d>>)
      /\ \A i \in 1..Len(sent) : i \in 1..Len(sent') /\ sent'[i] = sent[i]
  BY SentGrows, Zenon
<1>2. n \in 1..Len(sent')
  BY <1>1
<1>3. WireLabelled'
  <2>1. ASSUME NEW g \in datagrams' \cup tasks', g \notin datagrams \cup tasks
        PROVE  g = [id |-> id, packet |-> n]
    BY <2>1 DEF Emit
  <2> HIDE DEF n
  <2> QED
    BY <1>1, <1>2, <2>1 DEF Labelled, WireLabelled
<1> HIDE DEF n
<1>4. SendingLabelled'
  BY <1>1, Zenon DEF Labelled, SendingLabelled
<1>5. ASSUME NEW c \in DOMAIN uni', NEW i \in 1..Len(uni'[c].frames)
      PROVE  uni'[c].frames[i] \in 1..Len(sent') /\ sent'[uni'[c].frames[i]] = ContextOf(c)
  <2>1. CASE c \in DOMAIN uni /\ uni'[c] = uni[c]
    BY <1>1, <2>1 DEF Labelled, FramesLabelled
  <2>2. CASE ~(c \in DOMAIN uni /\ uni'[c] = uni[c])
    <3> DEFINE old == IF c \in DOMAIN uni THEN uni[c].frames ELSE <<>>
    <3>1. a \in Streaming
      BY <2>2, Zenon DEF Emit
    <3>2. c = <<a, d>>
      BY <2>2, <3>1, EmitFrames, Zenon
    <3>3. /\ old \in Seq(1..MaxSends)
          /\ uni'[c].frames = Append(old, n)
          /\ n \in 1..MaxSends
      BY <3>1, <3>2, EmitFrames, Zenon DEF n
    <3>4. \A j \in 1..Len(old) : old[j] \in 1..Len(sent) /\ sent[old[j]] = ContextOf(c)
      BY DEF Labelled, FramesLabelled
    <3> HIDE DEF old
    <3>5. /\ uni'[c].frames[Len(old) + 1] = n
          /\ \A j \in 1..Len(old) : uni'[c].frames[j] = old[j]
          /\ i \in 1..Len(old) \/ i = Len(old) + 1
      BY <3>3, AppendFacts
    <3> QED
      BY <1>1, <1>2, <3>2, <3>4, <3>5, Zenon
  <2> QED
    BY <2>1, <2>2, Zenon
<1>6. FramesLabelled'
  BY <1>5, Zenon DEF FramesLabelled
<1>7. BoundLabelled'
  BY Zenon DEF Labelled, BoundLabelled
<1>8. \A m : Genuine(m, sent) => Genuine(m, sent')
  BY <1>1, Zenon DEF Genuine, OfSent
<1>9. ChanLabelled' /\ DeliveredLabelled'
  BY <1>8, Zenon DEF Labelled, ChanLabelled, DeliveredLabelled
<1> QED
  BY <1>3, <1>4, <1>6, <1>7, <1>9, Zenon DEF Labelled

\* The channel of an association that is kept takes the packet at its end.
LEMMA ForwardEffect ==
    ASSUME TypeOK, NEW n \in 1..MaxSends, NEW r \in RouteType, Forward(n, r), r.assoc \notin released
    PROVE  /\ r.assoc \in Assocs
           /\ \A b \in Assocs : b # r.assoc => chan'[b] = chan[b]
           /\ Len(chan[r.assoc]) \in Nat
           /\ Len(chan'[r.assoc]) = Len(chan[r.assoc]) + 1
           /\ chan'[r.assoc][Len(chan[r.assoc]) + 1] =
                 [packet |-> n, assoc |-> r.assoc, dest |-> r.dest]
           /\ \A i \in 1..Len(chan[r.assoc]) :
                 i \in 1..Len(chan'[r.assoc]) /\ chan'[r.assoc][i] = chan[r.assoc][i]
           /\ \A i \in 1..Len(chan'[r.assoc]) :
                 i \in 1..Len(chan[r.assoc]) \/ i = Len(chan[r.assoc]) + 1
<1> DEFINE m == [packet |-> n, assoc |-> r.assoc, dest |-> r.dest]
<1>1. chan' = [chan EXCEPT ![r.assoc] = Append(@, m)]
  BY Zenon DEF Forward
<1>2. r.assoc \in Assocs /\ m \in Delivery /\ chan[r.assoc] \in Seq(Delivery)
  BY Zenon DEF RouteType, Delivery, TypeOK
<1> HIDE DEF m
<1>3. /\ chan'[r.assoc] = Append(chan[r.assoc], m)
      /\ \A b \in Assocs : b # r.assoc => chan'[b] = chan[b]
  BY <1>1, <1>2, Zenon DEF TypeOK
<1>4. /\ Len(chan[r.assoc]) \in Nat
      /\ Len(chan'[r.assoc]) = Len(chan[r.assoc]) + 1
      /\ chan'[r.assoc][Len(chan[r.assoc]) + 1] = m
      /\ \A i \in 1..Len(chan[r.assoc]) :
            i \in 1..Len(chan'[r.assoc]) /\ chan'[r.assoc][i] = chan[r.assoc][i]
      /\ \A i \in 1..Len(chan'[r.assoc]) :
            i \in 1..Len(chan[r.assoc]) \/ i = Len(chan[r.assoc]) + 1
  BY <1>2, <1>3, AppendFacts
<1> QED
  BY <1>1, <1>2, <1>3, <1>4, Zenon DEF m

\* A packet enters the channel of the association it was sent on.
LEMMA ForwardLabelled ==
    ASSUME TypeOK, Labelled, NEW n \in 1..Len(sent), n \in 1..MaxSends,
           Forward(n, sent[n]), UNCHANGED sent
    PROVE  ChanLabelled'
<1> DEFINE a == sent[n].assoc
           m == [packet |-> n, assoc |-> a, dest |-> sent[n].dest]
<1>1. CASE a \in released
  BY <1>1, Zenon DEF Forward, Labelled, ChanLabelled
<1>2. CASE a \notin released
  <2>1. sent[n] \in RouteType
    BY DEF TypeOK
  <2>2. Genuine(m, sent) /\ m.assoc = a
    BY <2>1, Zenon DEF Genuine, OfSent
  <2>3. /\ a \in Assocs
        /\ \A b \in Assocs : b # a => chan'[b] = chan[b]
        /\ chan'[a][Len(chan[a]) + 1] = m
        /\ \A i \in 1..Len(chan[a]) : chan'[a][i] = chan[a][i]
        /\ \A i \in 1..Len(chan'[a]) : i \in 1..Len(chan[a]) \/ i = Len(chan[a]) + 1
    BY <1>2, <2>1, ForwardEffect, Zenon
  <2> HIDE DEF a, m
  <2>4. ASSUME NEW b \in Assocs, NEW i \in 1..Len(chan'[b])
        PROVE  Genuine(chan'[b][i], sent) /\ chan'[b][i].assoc = b
    <3>1. CASE b = a
      BY <2>2, <2>3, <3>1 DEF Labelled, ChanLabelled
    <3>2. CASE b # a
      BY <2>3, <3>2, Zenon DEF Labelled, ChanLabelled
    <3> QED
      BY <3>1, <3>2, Zenon
  <2> QED
    BY <2>4, Zenon DEF ChanLabelled
<1> QED
  BY <1>1, <1>2, Zenon

\* What the registry says of an id in use is the context that uses it.
LEMMA RouteOfClaim ==
    ASSUME TypeOK, OneContext, NEW id \in DOMAIN routes, NEW r \in RouteType,
           Claims(id, r.assoc, r.dest)
    PROVE  routes[id] = r
<1>1. routes[id] \in RouteType /\ id \in Id
  BY Zenon DEF TypeOK, Range
<1>2. Claims(id, routes[id].assoc, routes[id].dest)
  BY <1>1, Zenon DEF Claims, RouteType
<1>3. routes[id].assoc = r.assoc /\ routes[id].dest = r.dest
  <2>1. /\ routes[id].assoc \in Assocs /\ routes[id].dest \in Dests
        /\ r.assoc \in Assocs /\ r.dest \in Dests
    BY <1>1, Zenon DEF RouteType
  <2> QED
    BY <1>1, <1>2, <2>1 DEF OneContext
<1> QED
  BY <1>1, <1>3 DEF RouteType

\* Labels stay right: a packet gets its route from the registry while its id
\* names its context.
LEMMA LabelledStep ==
    TypeOK /\ OneContext /\ Labelled /\ [Next]_vars => Labelled'
<1> SUFFICES ASSUME TypeOK, OneContext, Labelled, [Next]_vars PROVE Labelled'
  BY Zenon
<1> USE DEF senderVars, wireVars, routeVars, taskVars, appVars
<1>1. ASSUME NEW a \in Assocs, NEW d \in Dests, SendKnown(a, d) PROVE Labelled'
  <2>1. /\ contexts[a][d] \in Id /\ Len(sent) < MaxSends /\ Emit(a, d, contexts[a][d])
        /\ UNCHANGED <<tasks, sending, bound, chan, delivered>>
    BY <1>1, Zenon DEF SendKnown, CanSend, TypeOK, Range
  <2> QED
    BY <2>1, EmitLabelled, Zenon
<1>2. ASSUME NEW a \in Assocs, NEW d \in Dests, SendNew(a, d) PROVE Labelled'
  <2>1. /\ next_id \in Id /\ Len(sent) < MaxSends /\ Emit(a, d, next_id)
        /\ UNCHANGED <<tasks, sending, bound, chan, delivered>>
    BY <1>2, Zenon DEF SendNew, CanSend, TypeOK
  <2> QED
    BY <2>1, EmitLabelled, Zenon
<1>3. ASSUME NEW a \in Assocs, NEW d \in Dests, SendTooLarge(a, d) PROVE Labelled'
  <2>1. UNCHANGED <<sent, datagrams, tasks, sending, bound, chan, delivered>>
    BY <1>3, Zenon DEF SendTooLarge
  <2>2. \A c \in DOMAIN uni' : \/ c \in DOMAIN uni /\ uni'[c] = uni[c]
                               \/ uni'[c].frames = <<>>
    BY <1>3, Zenon DEF SendTooLarge, Put
  <2>3. FramesLabelled'
    BY <2>1, <2>2 DEF Labelled, FramesLabelled
  <2> QED
    BY <2>1, <2>3, Zenon DEF Labelled, WireLabelled, SendingLabelled, BoundLabelled, ChanLabelled,
                      DeliveredLabelled
<1>4. CASE UNCHANGED <<sent, datagrams, tasks, sending, uni, bound, chan, delivered>>
  BY <1>4, Zenon DEF Labelled, WireLabelled, SendingLabelled, FramesLabelled, BoundLabelled,
              ChanLabelled, DeliveredLabelled
<1>5. ASSUME NEW a \in Assocs, Recv(a) PROVE Labelled'
  <2>1. chan[a] \in Seq(Delivery) /\ chan[a] # <<>> /\ delivered \in Seq(Delivery)
    BY <1>5, Zenon DEF Recv, TypeOK
  <2>2. /\ delivered' = Append(delivered, Head(chan[a]))
        /\ chan'[a] = Tail(chan[a])
        /\ \A b \in Assocs : b # a => chan'[b] = chan[b]
        /\ UNCHANGED <<sent, datagrams, tasks, sending, uni, bound>>
    BY <1>5, Zenon DEF Recv, TypeOK
  <2>3. /\ Head(chan[a]) = chan[a][1] /\ 1 \in 1..Len(chan[a]) /\ Head(chan[a]) \in Delivery
        /\ \A i \in 1..Len(Tail(chan[a])) :
              i + 1 \in 1..Len(chan[a]) /\ Tail(chan[a])[i] = chan[a][i + 1]
    BY <2>1, HeadTailFacts, Zenon
  <2>4. ChanLabelled'
    <3>1. \A i \in 1..Len(chan'[a]) :
              Genuine(chan'[a][i], sent) /\ chan'[a][i].assoc = a
      BY <2>2, <2>3 DEF Labelled, ChanLabelled
    <3>2. \A b \in Assocs : \A i \in 1..Len(chan'[b]) :
              Genuine(chan'[b][i], sent) /\ chan'[b][i].assoc = b
      BY <2>2, <3>1, Zenon DEF Labelled, ChanLabelled
    <3> QED
      BY <2>2, <3>2, Zenon DEF ChanLabelled
  <2>5. DeliveredLabelled'
    <3>1. Genuine(Head(chan[a]), sent)
      BY <2>3, Zenon DEF Labelled, ChanLabelled
    <3>2. ASSUME NEW i \in 1..Len(delivered') PROVE Genuine(delivered'[i], sent)
      <4>1. CASE i \in 1..Len(delivered)
        BY <2>1, <2>2, <2>3, <4>1, AppendFacts DEF Labelled, DeliveredLabelled
      <4>2. CASE i = Len(delivered) + 1
        BY <2>1, <2>2, <2>3, <3>1, <4>2, AppendFacts
      <4> QED
        BY <2>1, <2>2, <2>3, <4>1, <4>2, AppendFacts
    <3> QED
      BY <2>2, <3>2, Zenon DEF DeliveredLabelled
  <2> QED
    BY <2>2, <2>4, <2>5, Zenon DEF Labelled, WireLabelled, SendingLabelled, FramesLabelled,
                            BoundLabelled
<1>6. ASSUME NEW a \in Assocs, Release(a) PROVE Labelled'
  <2>1. /\ chan'[a] = <<>>
        /\ \A b \in Assocs : b # a => chan'[b] = chan[b]
        /\ UNCHANGED <<sent, datagrams, tasks, sending, uni, bound, delivered>>
    BY <1>6, Zenon DEF Release, TypeOK
  <2>2. ChanLabelled'
    BY <2>1 DEF Labelled, ChanLabelled
  <2> QED
    BY <2>1, <2>2, Zenon DEF Labelled, WireLabelled, SendingLabelled, FramesLabelled,
                      BoundLabelled, DeliveredLabelled
<1>7. ASSUME NEW g \in datagrams, LoseDatagram(g) \/ Arrive(g) PROVE Labelled'
  BY <1>7 DEF LoseDatagram, Arrive, Labelled, WireLabelled, SendingLabelled, FramesLabelled,
              BoundLabelled, ChanLabelled, DeliveredLabelled
<1>8. ASSUME NEW g \in tasks, Route(g) PROVE Labelled'
  <2> DEFINE r == sent[g.packet]
  <2>1. g.packet \in 1..Len(sent) /\ g.id \in DOMAIN routes
    BY <1>8, Zenon DEF Route, Labelled, WireLabelled
  <2>2. r \in RouteType
    BY <2>1 DEF TypeOK
  <2>3. Claims(g.id, r.assoc, r.dest)
    BY <2>2, Zenon DEF Claims, RouteType
  <2> HIDE DEF r
  <2>4. routes[g.id] = r
    BY <2>1, <2>2, <2>3, RouteOfClaim, Zenon
  <2>5. /\ tasks' = tasks \ {g}
        /\ sending' = sending \cup {[packet |-> g.packet, route |-> routes[g.id]]}
        /\ UNCHANGED <<sent, datagrams, uni, bound, chan, delivered>>
    BY <1>8, Zenon DEF Route
  <2>6. SendingLabelled'
    BY <2>1, <2>4, <2>5 DEF r, Labelled, SendingLabelled
  <2> QED
    BY <2>5, <2>6, Zenon DEF Labelled, WireLabelled, FramesLabelled, BoundLabelled, ChanLabelled,
                      DeliveredLabelled
<1>9. ASSUME NEW g \in tasks, WaitFails(g) PROVE Labelled'
  BY <1>9, Zenon DEF WaitFails, Labelled, WireLabelled, SendingLabelled, FramesLabelled,
              BoundLabelled, ChanLabelled, DeliveredLabelled
<1>10. ASSUME NEW s \in sending, Push(s) PROVE Labelled'
  <2>1. /\ s.packet \in 1..Len(sent) /\ s.route = sent[s.packet] /\ s.packet \in 1..MaxSends
    BY Zenon DEF Labelled, SendingLabelled, TypeOK
  <2>2. /\ Forward(s.packet, sent[s.packet]) /\ sending' = sending \ {s}
        /\ UNCHANGED <<sent, datagrams, tasks, uni, bound, delivered>>
    BY <1>10, <2>1, Zenon DEF Push
  <2>3. ChanLabelled'
    BY <2>1, <2>2, ForwardLabelled, Zenon
  <2> QED
    BY <2>2, <2>3, Zenon DEF Labelled, WireLabelled, SendingLabelled, FramesLabelled, BoundLabelled,
                      DeliveredLabelled
<1>11. ASSUME NEW c \in DOMAIN uni, AcceptUni(c) PROVE Labelled'
  BY <1>11, Zenon DEF AcceptUni, Put, Labelled, WireLabelled, SendingLabelled, FramesLabelled,
               BoundLabelled, ChanLabelled, DeliveredLabelled
<1>12. ASSUME NEW c \in DOMAIN bound, Bind(c) PROVE Labelled'
  <2>1. c \in DOMAIN uni /\ c \in Streaming \X Dests /\ uni[c].id \in DOMAIN routes
    BY <1>12, Zenon DEF Bind, TypeOK
  <2>2. c = <<c[1], c[2]>> /\ ContextOf(c) \in RouteType
    BY <2>1, SQuicUdpAssumption DEF ContextOf, RouteType, Streaming, TypeOK
  <2>3. Claims(uni[c].id, c[1], c[2])
    BY <2>1, <2>2, Zenon DEF Claims
  <2>4. ContextOf(c).assoc = c[1] /\ ContextOf(c).dest = c[2]
    BY Zenon DEF ContextOf
  <2>5. routes[uni[c].id] = ContextOf(c)
    BY <2>1, <2>2, <2>3, <2>4, RouteOfClaim, Zenon
  <2>6. BoundLabelled'
    BY <1>12, <2>5, Zenon DEF Bind, Labelled, BoundLabelled
  <2> QED
    BY <1>12, <2>6, Zenon DEF Bind, Labelled, WireLabelled, SendingLabelled, FramesLabelled,
                       ChanLabelled, DeliveredLabelled
<1>13. ASSUME NEW c \in DOMAIN bound, PushFrame(c) PROVE Labelled'
  <2> DEFINE n == Head(uni[c].frames)
  <2>1. /\ c \in DOMAIN uni /\ uni[c] \in [id : Id, frames : Seq(1..MaxSends)]
        /\ uni[c].frames # <<>>
    BY <1>13, Zenon DEF PushFrame, TypeOK
  <2>2. /\ n = uni[c].frames[1] /\ 1 \in 1..Len(uni[c].frames) /\ n \in 1..MaxSends
        /\ \A i \in 1..Len(Tail(uni[c].frames)) :
              /\ i + 1 \in 1..Len(uni[c].frames)
              /\ Tail(uni[c].frames)[i] = uni[c].frames[i + 1]
    BY <2>1, HeadTailFacts, Zenon
  <2>3. n \in 1..Len(sent) /\ sent[n] = ContextOf(c)
    BY <2>1, <2>2 DEF Labelled, FramesLabelled
  <2>4. bound[c] = ContextOf(c)
    BY <1>13, Zenon DEF PushFrame, Labelled, BoundLabelled
  <2>5. /\ Forward(n, sent[n])
        /\ uni' = [uni EXCEPT ![c].frames = Tail(@)]
        /\ UNCHANGED <<sent, datagrams, tasks, sending, bound, delivered>>
    BY <1>13, <2>3, <2>4, Zenon DEF PushFrame
  <2> HIDE DEF n
  <2>6. ChanLabelled'
    BY <2>2, <2>3, <2>5, ForwardLabelled, Zenon
  <2>7. /\ DOMAIN uni' = DOMAIN uni /\ uni'[c].frames = Tail(uni[c].frames)
        /\ \A y \in DOMAIN uni : y # c => uni'[y] = uni[y]
    BY <2>1, <2>5, Zenon
  <2>8. FramesLabelled'
    BY <2>1, <2>2, <2>5, <2>7 DEF Labelled, FramesLabelled
  <2> QED
    BY <2>5, <2>6, <2>8, Zenon DEF Labelled, WireLabelled, SendingLabelled, BoundLabelled,
                            DeliveredLabelled
<1>14. ASSUME NEW c \in DOMAIN bound, EndUni(c) PROVE Labelled'
  BY <1>14, Zenon DEF EndUni, Restrict, Labelled, WireLabelled, SendingLabelled, FramesLabelled,
               BoundLabelled, ChanLabelled, DeliveredLabelled
<1>15. \/ \E a \in Assocs, d \in Dests : SendKnown(a, d) \/ SendNew(a, d) \/ SendTooLarge(a, d)
       \/ \E a \in Assocs : Recv(a) \/ Release(a)
       \/ \E g \in datagrams : LoseDatagram(g) \/ Arrive(g)
       \/ \E g \in tasks : Route(g) \/ WaitFails(g)
       \/ \E s \in sending : Push(s)
       \/ \E c \in DOMAIN uni : AcceptUni(c)
       \/ \E c \in DOMAIN bound : Bind(c) \/ PushFrame(c) \/ EndUni(c)
       \/ UNCHANGED <<sent, datagrams, tasks, sending, uni, bound, chan, delivered>>
  BY Zenon DEF Next, vars, SendRejected, DropSender, ReadControl, EndControl, ConnectionLost,
         LoopEnds
<1> QED
  BY Zenon, <1>1, <1>2, <1>3, <1>4, <1>5, <1>6, <1>7, <1>8, <1>9, <1>10, <1>11, <1>12, <1>13,
     <1>14, <1>15

-----------------------------------------------------------------------------
(***************************************************************************)
(* A packet is in one place.                                               *)
(***************************************************************************)

\* The roles of the ends and the modes of the associations do not change.
LEMMA SetupFixed == [Next]_vars => setup' = setup
BY Zenon DEF Next, vars, SendKnown, SendNew, SendTooLarge, SendRejected, DropSender, ReadControl,
       EndControl, Recv, Release, LoseDatagram, Arrive, Route, WaitFails, Push, AcceptUni,
       Bind, PushFrame, EndUni, ConnectionLost, LoopEnds

\* A packet that is queued or received has been sent, and is queued in the
\* channel of its own association.
LEMMA PassedIsSent ==
    ASSUME Labelled, NEW n
    PROVE  /\ Queued(n) => n \in 1..Len(sent)
           /\ Received(n) => n \in 1..Len(sent)
           /\ \A a \in Assocs : \A i \in 1..Len(chan[a]) :
                 chan[a][i].packet = n => sent[n].assoc = a
<1>1. ASSUME NEW a \in Assocs, NEW i \in 1..Len(chan[a]), chan[a][i].packet = n
      PROVE  n \in 1..Len(sent) /\ sent[n].assoc = a
  <2>1. Genuine(chan[a][i], sent) /\ chan[a][i].assoc = a
    BY Zenon DEF Labelled, ChanLabelled
  <2>2. n \in 1..Len(sent) /\ chan[a][i] = OfSent(n, sent)
    BY <1>1, <2>1, Zenon DEF Genuine
  <2>3. OfSent(n, sent).assoc = sent[n].assoc
    BY Zenon DEF OfSent
  <2> QED
    BY <2>1, <2>2, <2>3, Zenon
<1>2. \A i \in 1..Len(delivered) : delivered[i].packet = n => n \in 1..Len(sent)
  BY Zenon DEF Labelled, DeliveredLabelled, Genuine
<1> QED
  BY <1>1, <1>2, Zenon DEF Queued, Received

\* A new packet has a number that is nowhere yet.
LEMMA EmitOnePlace ==
    ASSUME TypeOK, Labelled, OnePlace, NEW a \in Assocs, NEW d \in Dests, NEW id \in Id,
           Emit(a, d, id), Len(sent) < MaxSends,
           UNCHANGED <<setup, tasks, sending, bound, chan, delivered>>
    PROVE  OnePlace'
<1> DEFINE n == Len(sent) + 1
<1>1. /\ Len(sent) \in Nat /\ Len(sent') = n
      /\ sent'[n] = ContextOf(<<a, d>>)
      /\ \A i \in 1..Len(sent) : sent'[i] = sent[i]
  BY SentGrows, Zenon
<1>2. n \notin 1..Len(sent)
  BY <1>1
<1>3. ~Queued(n) /\ ~Received(n)
  BY <1>2, PassedIsSent, Zenon
<1>4. \A x : (Queued(x)' <=> Queued(x)) /\ (Received(x)' <=> Received(x))
  BY Zenon DEF Queued, Received
<1>5. \A g \in datagrams \cup tasks \cup sending : g.packet # n /\ g.packet \in 1..Len(sent)
  BY <1>2, Zenon DEF Labelled, WireLabelled, SendingLabelled
<1>6. \A g \in datagrams' : \/ g \in datagrams
                            \/ g = [id |-> id, packet |-> n] /\ a \notin Streaming
  BY Zenon DEF Emit
<1>7. datagrams \subseteq datagrams'
  BY Zenon DEF Emit
<1>8. ContextOf(<<a, d>>).assoc = a
  BY Zenon DEF ContextOf
<1>9. a \in Streaming => n \in 1..MaxSends /\ datagrams' = datagrams
  BY EmitFrames, Zenon
<1> HIDE DEF n
<1>10. WireOnce'
  BY <1>5, <1>6, <1>7 DEF OnePlace, WireOnce
<1>11. SendingOnce'
  BY <1>5, <1>6 DEF OnePlace, SendingOnce
<1>12. NotYetPassed'
  <2>1. ASSUME NEW g \in datagrams' \cup tasks' \cup sending'
        PROVE  sent'[g.packet].assoc \notin Streaming /\ ~Queued(g.packet) /\ ~Received(g.packet)
    <3>1. CASE g \in datagrams \cup tasks \cup sending
      BY <1>1, <1>5, <3>1, Zenon DEF OnePlace, NotYetPassed
    <3>2. CASE g = [id |-> id, packet |-> n] /\ a \notin Streaming
      BY <1>1, <1>3, <1>8, <3>2, Zenon
    <3> QED
      BY <1>6, <3>1, <3>2, Zenon
  <2>2. Streaming' = Streaming
    BY Zenon DEF Streaming
  <2> QED
    BY <1>4, <2>1, <2>2, Zenon DEF NotYetPassed
<1>13. ASSUME NEW c \in DOMAIN uni'
       PROVE  /\ \A i, j \in 1..Len(uni'[c].frames) : uni'[c].frames[i] = uni'[c].frames[j] => i = j
              /\ \A i \in 1..Len(uni'[c].frames) :
                    ~Queued(uni'[c].frames[i]) /\ ~Received(uni'[c].frames[i])
  <2>1. CASE c \in DOMAIN uni /\ uni'[c] = uni[c]
    BY <2>1, Zenon DEF OnePlace, FramesOnce
  <2>2. CASE ~(c \in DOMAIN uni /\ uni'[c] = uni[c])
    <3> DEFINE old == IF c \in DOMAIN uni THEN uni[c].frames ELSE <<>>
    <3>1. a \in Streaming
      BY <2>2, Zenon DEF Emit
    <3>2. c = <<a, d>>
      BY <2>2, <3>1, EmitFrames, Zenon
    <3>3. /\ old \in Seq(1..MaxSends)
          /\ uni'[c].frames = Append(old, n)
          /\ n \in 1..MaxSends
      BY <1>9, <3>1, <3>2, EmitFrames, Zenon DEF n
    <3>4. /\ \A i, j \in 1..Len(old) : old[i] = old[j] => i = j
          /\ \A i \in 1..Len(old) : ~Queued(old[i]) /\ ~Received(old[i])
      BY DEF OnePlace, FramesOnce
    <3>5. \A i \in 1..Len(old) : old[i] # n
      BY <1>2 DEF Labelled, FramesLabelled
    <3> HIDE DEF old
    <3>6. /\ uni'[c].frames[Len(old) + 1] = n
          /\ \A j \in 1..Len(old) : uni'[c].frames[j] = old[j]
          /\ \A i \in 1..Len(uni'[c].frames) : i \in 1..Len(old) \/ i = Len(old) + 1
      BY <3>3, AppendFacts
    <3> QED
      BY <1>3, <3>4, <3>5, <3>6, Zenon
  <2> QED
    BY <2>1, <2>2, Zenon
<1>14. FramesOnce'
  BY <1>4, <1>13, Zenon DEF FramesOnce
<1>15. ChanOnce' /\ DeliveredOnce'
  BY <1>4 DEF OnePlace, ChanOnce, DeliveredOnce
<1> QED
  BY <1>10, <1>11, <1>12, <1>14, <1>15, Zenon DEF OnePlace

\* Handing over a packet that is neither queued nor received queues it once.
LEMMA ForwardOnePlace ==
    ASSUME TypeOK, Labelled, ChanOnce, NEW n \in 1..Len(sent), n \in 1..MaxSends,
           ~Queued(n), ~Received(n), Forward(n, sent[n]), UNCHANGED <<sent, delivered>>
    PROVE  /\ ChanOnce'
           /\ \A x : Queued(x)' => Queued(x) \/ x = n
           /\ \A x : Received(x)' <=> Received(x)
<1> DEFINE a == sent[n].assoc
           m == [packet |-> n, assoc |-> a, dest |-> sent[n].dest]
<1>1. \A x : Received(x)' <=> Received(x)
  BY Zenon DEF Received
<1>2. CASE a \in released
  <2>1. UNCHANGED chan
    BY <1>2, Zenon DEF Forward
  <2> QED
    BY <1>1, <2>1, Zenon DEF ChanOnce, Queued
<1>3. CASE a \notin released
  <2>0. sent[n] \in RouteType
    BY DEF TypeOK
  <2>1. m.packet = n
    BY Zenon
  <2>2. /\ a \in Assocs
        /\ \A b \in Assocs : b # a => chan'[b] = chan[b]
        /\ chan'[a][Len(chan[a]) + 1] = m
        /\ \A i \in 1..Len(chan[a]) : chan'[a][i] = chan[a][i]
        /\ \A i \in 1..Len(chan'[a]) : i \in 1..Len(chan[a]) \/ i = Len(chan[a]) + 1
    BY <1>3, <2>0, ForwardEffect, Zenon
  <2> HIDE DEF a, m
  <2>3. \A b \in Assocs : \A i \in 1..Len(chan[b]) : chan[b][i].packet # n
    BY Zenon DEF Queued
  <2>4. \A x : Queued(x)' => Queued(x) \/ x = n
    <3> SUFFICES ASSUME NEW x, NEW b \in Assocs, NEW i \in 1..Len(chan'[b]),
                        chan'[b][i].packet = x
                 PROVE  Queued(x) \/ x = n
      BY Zenon DEF Queued
    <3>1. CASE b = a
      BY <2>1, <2>2, <3>1, Zenon DEF Queued
    <3>2. CASE b # a
      BY <2>2, <3>2, Zenon DEF Queued
    <3> QED
      BY <3>1, <3>2, Zenon
  <2>5. ASSUME NEW b \in Assocs
        PROVE  /\ \A i, j \in 1..Len(chan'[b]) : chan'[b][i].packet = chan'[b][j].packet => i = j
               /\ \A i \in 1..Len(chan'[b]) : ~Received(chan'[b][i].packet)
    <3>1. CASE b = a
      <4>1. /\ \A i, j \in 1..Len(chan[a]) : chan[a][i].packet = chan[a][j].packet => i = j
            /\ \A i \in 1..Len(chan[a]) : ~Received(chan[a][i].packet)
            /\ \A i \in 1..Len(chan[a]) : chan[a][i].packet # n
        BY <2>2, <2>3, Zenon DEF ChanOnce
      <4>2. \A i, j \in 1..Len(chan'[a]) : chan'[a][i].packet = chan'[a][j].packet => i = j
        BY <2>1, <2>2, <4>1, Zenon
      <4>3. \A i \in 1..Len(chan'[a]) : ~Received(chan'[a][i].packet)
        BY <2>1, <2>2, <4>1, Zenon
      <4> QED
        BY <3>1, <4>2, <4>3, Zenon
    <3>2. CASE b # a
      BY <2>2, <3>2, Zenon DEF ChanOnce
    <3> QED
      BY <3>1, <3>2, Zenon
  <2> QED
    BY <1>1, <2>4, <2>5, Zenon DEF ChanOnce
<1> QED
  BY <1>2, <1>3, Zenon

\* No step puts a packet in a second place.
LEMMA OnePlaceStep ==
    TypeOK /\ Labelled /\ OneContext /\ OnePlace /\ [Next]_vars => OnePlace'
<1> SUFFICES ASSUME TypeOK, Labelled, OneContext, OnePlace, [Next]_vars PROVE OnePlace'
  BY Zenon
<1> USE DEF senderVars, wireVars, routeVars, taskVars, appVars
<1>0. setup' = setup /\ Streaming' = Streaming
  BY SetupFixed, Zenon DEF Streaming
<1>1. ASSUME NEW a \in Assocs, NEW d \in Dests, SendKnown(a, d) PROVE OnePlace'
  <2>1. /\ contexts[a][d] \in Id /\ Len(sent) < MaxSends /\ Emit(a, d, contexts[a][d])
        /\ UNCHANGED <<setup, tasks, sending, bound, chan, delivered>>
    BY <1>1, Zenon DEF SendKnown, CanSend, TypeOK, Range
  <2> QED
    BY <2>1, EmitOnePlace, Zenon
<1>2. ASSUME NEW a \in Assocs, NEW d \in Dests, SendNew(a, d) PROVE OnePlace'
  <2>1. /\ next_id \in Id /\ Len(sent) < MaxSends /\ Emit(a, d, next_id)
        /\ UNCHANGED <<setup, tasks, sending, bound, chan, delivered>>
    BY <1>2, Zenon DEF SendNew, CanSend, TypeOK
  <2> QED
    BY <2>1, EmitOnePlace, Zenon
<1>3. ASSUME UNCHANGED <<sent, chan, delivered>>
      PROVE  /\ \A x : (Queued(x)' <=> Queued(x)) /\ (Received(x)' <=> Received(x))
             /\ ChanOnce' /\ DeliveredOnce'
  <2>1. \A x : (Queued(x)' <=> Queued(x)) /\ (Received(x)' <=> Received(x))
    BY <1>3, Zenon DEF Queued, Received
  <2> QED
    BY <1>3, <2>1 DEF OnePlace, ChanOnce, DeliveredOnce
<1>4. ASSUME NEW a \in Assocs, NEW d \in Dests, SendTooLarge(a, d) PROVE OnePlace'
  <2>1. UNCHANGED <<sent, datagrams, tasks, sending, chan, delivered>>
    BY <1>4, Zenon DEF SendTooLarge
  <2>2. \A c \in DOMAIN uni' : \/ c \in DOMAIN uni /\ uni'[c] = uni[c]
                               \/ uni'[c].frames = <<>>
    BY <1>4, Zenon DEF SendTooLarge, Put
  <2>3. FramesOnce'
    BY <1>3, <2>1, <2>2 DEF OnePlace, FramesOnce
  <2>4. NotYetPassed'
    BY <1>0, <1>3, <2>1, Zenon DEF OnePlace, NotYetPassed
  <2> QED
    BY <1>3, <2>1, <2>3, <2>4, Zenon DEF OnePlace, WireOnce, SendingOnce
<1>5. CASE UNCHANGED <<sent, datagrams, tasks, sending, uni, chan, delivered>>
  <2>1. NotYetPassed'
    BY <1>0, <1>3, <1>5, Zenon DEF OnePlace, NotYetPassed
  <2> QED
    BY <1>3, <1>5, <2>1 DEF OnePlace, WireOnce, SendingOnce, FramesOnce
<1>6. ASSUME NEW a \in Assocs, Recv(a) PROVE OnePlace'
  <2> DEFINE m == Head(chan[a])
  <2>1. chan[a] \in Seq(Delivery) /\ chan[a] # <<>> /\ delivered \in Seq(Delivery)
    BY <1>6, Zenon DEF Recv, TypeOK
  <2>2. /\ delivered' = Append(delivered, m)
        /\ chan'[a] = Tail(chan[a])
        /\ \A b \in Assocs : b # a => chan'[b] = chan[b]
        /\ UNCHANGED <<sent, datagrams, tasks, sending, uni>>
    BY <1>6, Zenon DEF Recv, TypeOK
  <2>3. /\ m = chan[a][1] /\ 1 \in 1..Len(chan[a]) /\ m \in Delivery
        /\ Len(Tail(chan[a])) \in Nat
        /\ \A i \in 1..Len(Tail(chan[a])) :
              i + 1 \in 1..Len(chan[a]) /\ Tail(chan[a])[i] = chan[a][i + 1]
    BY <2>1, HeadTailFacts, Zenon
  <2> HIDE DEF m
  <2>4. /\ Len(delivered) \in Nat /\ Len(delivered') = Len(delivered) + 1
        /\ delivered'[Len(delivered) + 1] = m
        /\ \A i \in 1..Len(delivered) : i \in 1..Len(delivered') /\ delivered'[i] = delivered[i]
        /\ \A i \in 1..Len(delivered') : i \in 1..Len(delivered) \/ i = Len(delivered) + 1
    <3>1. delivered \in Seq(Delivery) /\ m \in Delivery
      BY <2>1, <2>3, Zenon
    <3>2. /\ Len(delivered) \in Nat /\ Len(Append(delivered, m)) = Len(delivered) + 1
          /\ Append(delivered, m)[Len(delivered) + 1] = m
          /\ \A i \in 1..Len(delivered) :
                i \in 1..Len(Append(delivered, m)) /\ Append(delivered, m)[i] = delivered[i]
          /\ \A i \in 1..Len(Append(delivered, m)) :
                i \in 1..Len(delivered) \/ i = Len(delivered) + 1
      BY <3>1, AppendFacts
    <3> QED
      BY <2>2, <3>2, Zenon
  <2>5. ~Received(m.packet) /\ Queued(m.packet)
    BY <2>3, Zenon DEF OnePlace, ChanOnce, Queued
  <2>6. \A x : Received(x)' => Received(x) \/ x = m.packet
    BY <2>4, Zenon DEF Received
  <2>7. ASSUME NEW b \in Assocs, NEW i \in 1..Len(chan'[b])
        PROVE  /\ Queued(chan'[b][i].packet)
               /\ chan'[b][i].packet # m.packet
               /\ ~Received(chan'[b][i].packet)
    <3>1. CASE b = a
      <4>1. i \in 1..Len(Tail(chan[a])) /\ chan'[b][i] = Tail(chan[a])[i]
        BY <2>2, <2>7, <3>1, Zenon
      <4>2. i + 1 \in 1..Len(chan[a]) /\ chan'[b][i] = chan[a][i + 1]
        BY <2>3, <4>1, Zenon
      <4>3. i + 1 # 1
        BY <2>3, <4>1
      <4> QED
        BY <2>3, <4>2, <4>3 DEF OnePlace, ChanOnce, Queued
    <3>2. CASE b # a
      <4>1. i \in 1..Len(chan[b]) /\ chan'[b][i] = chan[b][i]
        BY <2>2, <2>7, <3>2, Zenon
      <4>2. sent[chan[b][i].packet].assoc = b /\ sent[m.packet].assoc = a
        BY <2>3, <4>1, PassedIsSent, Zenon
      <4> QED
        BY <3>2, <4>1, <4>2, Zenon DEF OnePlace, ChanOnce, Queued
    <3> QED
      BY <3>1, <3>2, Zenon
  <2>8. \A x : Queued(x)' => Queued(x) /\ x # m.packet
    BY <2>7 DEF Queued
  <2>9. ASSUME NEW b \in Assocs, NEW i \in 1..Len(chan'[b]), NEW j \in 1..Len(chan'[b]),
               chan'[b][i].packet = chan'[b][j].packet
        PROVE  i = j
    <3>1. CASE b = a
      <4>1. /\ i + 1 \in 1..Len(chan[a]) /\ chan'[b][i] = chan[a][i + 1]
            /\ j + 1 \in 1..Len(chan[a]) /\ chan'[b][j] = chan[a][j + 1]
        BY <2>2, <2>3, <2>9, <3>1, Zenon
      <4>2. i + 1 = j + 1
        BY <2>9, <4>1, Zenon DEF OnePlace, ChanOnce
      <4> QED
        BY <4>2
    <3>2. CASE b # a
      BY <2>2, <2>9, <3>2, Zenon DEF OnePlace, ChanOnce
    <3> QED
      BY <3>1, <3>2, Zenon
  <2>10. ChanOnce'
    BY <2>6, <2>7, <2>9, Zenon DEF ChanOnce
  <2>11. DeliveredOnce'
    BY <2>4, <2>5, Zenon DEF OnePlace, DeliveredOnce, Received
  <2>12. ASSUME NEW g \in datagrams \cup tasks \cup sending
         PROVE  /\ sent[g.packet].assoc \notin Streaming
                /\ ~Queued(g.packet)' /\ ~Received(g.packet)'
    BY <2>5, <2>6, <2>8, Zenon DEF OnePlace, NotYetPassed
  <2>13. NotYetPassed'
    BY <1>0, <2>2, <2>12, Zenon DEF NotYetPassed
  <2>14. FramesOnce'
    BY <2>2, <2>5, <2>6, <2>8 DEF OnePlace, FramesOnce
  <2> QED
    BY <2>2, <2>10, <2>11, <2>13, <2>14, Zenon DEF OnePlace, WireOnce, SendingOnce
<1>7. ASSUME NEW a \in Assocs, Release(a) PROVE OnePlace'
  <2>1. /\ chan'[a] = <<>>
        /\ \A b \in Assocs : b # a => chan'[b] = chan[b]
        /\ UNCHANGED <<sent, datagrams, tasks, sending, uni, delivered>>
    BY <1>7, Zenon DEF Release, TypeOK
  <2>2. \A x : (Queued(x)' => Queued(x)) /\ (Received(x)' <=> Received(x))
    BY <2>1 DEF Queued, Received
  <2>3. ChanOnce' /\ DeliveredOnce'
    BY <2>1, <2>2 DEF OnePlace, ChanOnce, DeliveredOnce
  <2>4. NotYetPassed'
    BY <1>0, <2>1, <2>2, Zenon DEF OnePlace, NotYetPassed
  <2>5. FramesOnce'
    BY <2>1, <2>2 DEF OnePlace, FramesOnce
  <2> QED
    BY <2>1, <2>3, <2>4, <2>5, Zenon DEF OnePlace, WireOnce, SendingOnce
<1>8. ASSUME NEW g \in datagrams, LoseDatagram(g) \/ Arrive(g) PROVE OnePlace'
  <2>1. /\ datagrams' = datagrams \ {g} /\ tasks' \subseteq tasks \cup {g}
        /\ UNCHANGED <<sent, sending, uni, chan, delivered>>
    BY <1>8, Zenon DEF LoseDatagram, Arrive
  <2>2. WireOnce' /\ SendingOnce'
    BY <1>8, <2>1 DEF OnePlace, WireOnce, SendingOnce, LoseDatagram, Arrive
  <2>3. NotYetPassed'
    BY <1>0, <1>3, <2>1, Zenon DEF OnePlace, NotYetPassed
  <2> QED
    BY <1>3, <2>1, <2>2, <2>3 DEF OnePlace, FramesOnce
<1>9. ASSUME NEW g \in tasks, Route(g) \/ WaitFails(g) PROVE OnePlace'
  <2> DEFINE s == [packet |-> g.packet, route |-> routes[g.id]]
  <2>1. /\ tasks' = tasks \ {g} /\ sending' \subseteq sending \cup {s}
        /\ sending \subseteq sending'
        /\ UNCHANGED <<sent, datagrams, uni, chan, delivered>>
    BY <1>9, Zenon DEF Route, WaitFails
  <2>2. s.packet = g.packet
    BY Zenon
  <2> HIDE DEF s
  <2>3. WireOnce'
    BY <2>1, Zenon DEF OnePlace, WireOnce
  <2>4. SendingOnce'
    BY <2>1, <2>2 DEF OnePlace, WireOnce, SendingOnce
  <2>5. NotYetPassed'
    BY <1>0, <1>3, <2>1, <2>2, Zenon DEF OnePlace, NotYetPassed
  <2> QED
    BY <1>3, <2>1, <2>3, <2>4, <2>5 DEF OnePlace, FramesOnce
<1>10. ASSUME NEW s \in sending, Push(s) PROVE OnePlace'
  <2> DEFINE n == s.packet
  <2>1. n \in 1..Len(sent) /\ s.route = sent[n] /\ n \in 1..MaxSends
    BY Zenon DEF Labelled, SendingLabelled, TypeOK
  <2>2. ~Queued(n) /\ ~Received(n) /\ sent[n].assoc \notin Streaming
    BY Zenon DEF OnePlace, NotYetPassed
  <2>3. /\ Forward(n, sent[n]) /\ sending' = sending \ {s}
        /\ UNCHANGED <<sent, datagrams, tasks, uni, delivered>>
    BY <1>10, <2>1, Zenon DEF Push
  <2>4. \A g \in datagrams \cup tasks \cup sending' : g.packet # n
    BY <2>3, Zenon DEF OnePlace, SendingOnce
  <2> HIDE DEF n
  <2>5. /\ ChanOnce'
        /\ \A x : Queued(x)' => Queued(x) \/ x = n
        /\ \A x : Received(x)' <=> Received(x)
    BY <2>1, <2>2, <2>3, ForwardOnePlace, Zenon DEF OnePlace
  <2>6. WireOnce' /\ SendingOnce' /\ DeliveredOnce'
    BY <2>3, Zenon DEF OnePlace, WireOnce, SendingOnce, DeliveredOnce
  <2>7. NotYetPassed'
    BY <1>0, <2>3, <2>4, <2>5, Zenon DEF OnePlace, NotYetPassed
  <2>8. ASSUME NEW c \in DOMAIN uni, NEW i \in 1..Len(uni[c].frames)
        PROVE  uni[c].frames[i] # n
    <3>1. sent[uni[c].frames[i]] = ContextOf(c) /\ c \in Streaming \X Dests
      BY Zenon DEF Labelled, FramesLabelled, TypeOK
    <3>2. ContextOf(c).assoc \in Streaming
      BY <3>1, Zenon DEF ContextOf
    <3> QED
      BY <2>2, <3>1, <3>2, Zenon
  <2>9. FramesOnce'
    BY <2>3, <2>5, <2>8 DEF OnePlace, FramesOnce
  <2> QED
    BY <2>5, <2>6, <2>7, <2>9, Zenon DEF OnePlace
<1>11. ASSUME NEW c \in DOMAIN bound, PushFrame(c) PROVE OnePlace'
  <2> DEFINE n == Head(uni[c].frames)
  <2>1. /\ c \in DOMAIN uni /\ uni[c] \in [id : Id, frames : Seq(1..MaxSends)]
        /\ uni[c].frames # <<>> /\ c \in Streaming \X Dests
    BY <1>11, Zenon DEF PushFrame, TypeOK
  <2>2. /\ n = uni[c].frames[1] /\ 1 \in 1..Len(uni[c].frames) /\ n \in 1..MaxSends
        /\ Len(Tail(uni[c].frames)) \in Nat
        /\ \A i \in 1..Len(Tail(uni[c].frames)) :
              /\ i + 1 \in 1..Len(uni[c].frames)
              /\ Tail(uni[c].frames)[i] = uni[c].frames[i + 1]
    BY <2>1, HeadTailFacts, Zenon
  <2>3. n \in 1..Len(sent) /\ sent[n] = ContextOf(c) /\ ~Queued(n) /\ ~Received(n)
    BY <2>1, <2>2 DEF Labelled, FramesLabelled, OnePlace, FramesOnce
  <2>4. bound[c] = ContextOf(c)
    BY <1>11, Zenon DEF PushFrame, Labelled, BoundLabelled
  <2>5. /\ Forward(n, sent[n])
        /\ uni' = [uni EXCEPT ![c].frames = Tail(@)]
        /\ UNCHANGED <<sent, datagrams, tasks, sending, delivered>>
    BY <1>11, <2>3, <2>4, Zenon DEF PushFrame
  <2> HIDE DEF n
  <2>6. /\ ChanOnce'
        /\ \A x : Queued(x)' => Queued(x) \/ x = n
        /\ \A x : Received(x)' <=> Received(x)
    BY <2>2, <2>3, <2>5, ForwardOnePlace, Zenon DEF OnePlace
  <2>7. ContextOf(c).assoc \in Streaming
    BY <2>1, Zenon DEF ContextOf
  <2>8. NotYetPassed'
    BY <1>0, <2>3, <2>5, <2>6, <2>7, Zenon DEF OnePlace, NotYetPassed
  <2>9. /\ DOMAIN uni' = DOMAIN uni /\ uni'[c].frames = Tail(uni[c].frames)
        /\ \A y \in DOMAIN uni : y # c => uni'[y] = uni[y]
    BY <2>1, <2>5, Zenon
  <2>10. ASSUME NEW y \in DOMAIN uni, y # c, NEW i \in 1..Len(uni[y].frames)
         PROVE  uni[y].frames[i] # n
    <3>1. sent[uni[y].frames[i]] = ContextOf(y) /\ y \in Streaming \X Dests
      BY Zenon DEF Labelled, FramesLabelled, TypeOK
    <3>2. ContextOf(y) # ContextOf(c)
      BY <2>1, <2>10, <3>1 DEF ContextOf
    <3> QED
      BY <2>3, <3>1, <3>2, Zenon
  <2>11. ASSUME NEW y \in DOMAIN uni, NEW i \in 1..Len(uni'[y].frames)
         PROVE  /\ uni'[y].frames[i] # n
                /\ ~Queued(uni'[y].frames[i]) /\ ~Received(uni'[y].frames[i])
    <3>1. CASE y = c
      <4>1. i \in 1..Len(Tail(uni[c].frames)) /\ uni'[y].frames[i] = Tail(uni[c].frames)[i]
        BY <2>9, <2>11, <3>1, Zenon
      <4>2. i + 1 \in 1..Len(uni[c].frames) /\ uni'[y].frames[i] = uni[c].frames[i + 1]
        BY <2>2, <4>1, Zenon
      <4>3. i + 1 # 1
        <5>1. \A j \in 1..Len(Tail(uni[c].frames)) : j \in Nat /\ j >= 1
          BY <2>2
        <5>2. i \in Nat /\ i >= 1
          BY <4>1, <5>1, Zenon
        <5> QED
          BY <5>2
      <4> QED
        BY <2>1, <2>2, <4>2, <4>3, Zenon DEF OnePlace, FramesOnce
    <3>2. CASE y # c
      BY <2>9, <2>10, <2>11, <3>2 DEF OnePlace, FramesOnce
    <3> QED
      BY <3>1, <3>2, Zenon
  <2>12. ASSUME NEW y \in DOMAIN uni, NEW i \in 1..Len(uni'[y].frames),
                NEW j \in 1..Len(uni'[y].frames), uni'[y].frames[i] = uni'[y].frames[j]
         PROVE  i = j
    <3>1. CASE y = c
      <4>1. /\ i + 1 \in 1..Len(uni[c].frames) /\ uni'[y].frames[i] = uni[c].frames[i + 1]
            /\ j + 1 \in 1..Len(uni[c].frames) /\ uni'[y].frames[j] = uni[c].frames[j + 1]
        BY <2>2, <2>9, <2>12, <3>1, Zenon
      <4>2. i + 1 = j + 1
        BY <2>1, <2>12, <4>1, Zenon DEF OnePlace, FramesOnce
      <4> QED
        BY <4>2
    <3>2. CASE y # c
      BY <2>9, <2>12, <3>2, Zenon DEF OnePlace, FramesOnce
    <3> QED
      BY <3>1, <3>2, Zenon
  <2>13. FramesOnce'
    BY <2>6, <2>9, <2>11, <2>12, Zenon DEF FramesOnce
  <2> QED
    BY <2>5, <2>6, <2>8, <2>13, Zenon DEF OnePlace, WireOnce, SendingOnce, DeliveredOnce
<1>12. ASSUME NEW c \in DOMAIN bound, EndUni(c) PROVE OnePlace'
  <2>1. /\ UNCHANGED <<sent, datagrams, tasks, sending, chan, delivered>>
        /\ uni' = Restrict(uni, DOMAIN uni \ {c})
    BY <1>12, Zenon DEF EndUni
  <2>2. NotYetPassed'
    BY <1>0, <1>3, <2>1, Zenon DEF OnePlace, NotYetPassed
  <2>3. FramesOnce'
    BY <1>3, <2>1, SMTT(20) DEF OnePlace, FramesOnce, Restrict
  <2> QED
    BY <1>3, <2>1, <2>2, <2>3, Zenon DEF OnePlace, WireOnce, SendingOnce
<1>13. \/ \E a \in Assocs, d \in Dests : SendKnown(a, d) \/ SendNew(a, d) \/ SendTooLarge(a, d)
       \/ \E a \in Assocs : Recv(a) \/ Release(a)
       \/ \E g \in datagrams : LoseDatagram(g) \/ Arrive(g)
       \/ \E g \in tasks : Route(g) \/ WaitFails(g)
       \/ \E s \in sending : Push(s)
       \/ \E c \in DOMAIN bound : PushFrame(c) \/ EndUni(c)
       \/ UNCHANGED <<sent, datagrams, tasks, sending, uni, chan, delivered>>
  BY Zenon DEF Next, vars, SendRejected, DropSender, ReadControl, EndControl, AcceptUni, Bind,
         ConnectionLost, LoopEnds
<1> QED
  BY <1>1, <1>2, <1>4, <1>5, <1>6, <1>7, <1>8, <1>9, <1>10, <1>11, <1>12, <1>13, Zenon

-----------------------------------------------------------------------------
(***************************************************************************)
(* The inductive invariant.                                                *)
(***************************************************************************)
UdpInv == TypeOK /\ RoutesOwned /\ OneContext /\ Labelled /\ OnePlace

\* At the start nothing is in use and nothing is on its way.
LEMMA UdpInvInit == Init => UdpInv
<1> SUFFICES ASSUME Init PROVE UdpInv
  BY Zenon
<1>1. TypeOK
  BY TypeInit, Zenon
<1>2. RoutesOwned
  BY DEF Init, RoutesOwned
<1>3. \A id, a, d : ~Claims(id, a, d)
  BY SMTT(20) DEF Init, Claims
<1>4. OneContext
  BY <1>3, Zenon DEF OneContext
<1>5. Labelled
  BY SMTT(20) DEF Init, Labelled, WireLabelled, SendingLabelled, FramesLabelled, BoundLabelled,
         ChanLabelled, DeliveredLabelled
<1>6. OnePlace
  <2>1. datagrams = {} /\ tasks = {} /\ sending = {} /\ uni = <<>> /\ delivered = <<>>
    BY Zenon DEF Init
  <2>2. \A a \in Assocs : chan[a] = <<>>
    BY Zenon DEF Init
  <2>3. DOMAIN uni = {} /\ Len(delivered) = 0 /\ \A a \in Assocs : Len(chan[a]) = 0
    BY <2>1, <2>2
  <2> QED
    BY <2>1, <2>3 DEF OnePlace, WireOnce, SendingOnce, NotYetPassed, FramesOnce, ChanOnce,
                      DeliveredOnce
<1> QED
  BY <1>1, <1>2, <1>4, <1>5, <1>6, Zenon DEF UdpInv

\* Every step keeps the invariant.
LEMMA UdpInvStep == UdpInv /\ [Next]_vars => UdpInv'
BY TypeStep, RoutesOwnedStep, OneContextStep, LabelledStep, OnePlaceStep, Zenon DEF UdpInv

\* The invariant holds throughout.
LEMMA UdpInvAlways == Spec => []UdpInv
<1>1. Spec => Init /\ [][Next]_vars
  BY Zenon DEF Spec
<1> QED
  BY <1>1, UdpInvInit, UdpInvStep, PTL

(***************************************************************************)
(* The state of both ends is well formed in every reachable state, and the *)
(* registry holds exactly the ids announced by control streams that are    *)
(* still read, each under its own association: `remove(&ids)` at the end   *)
(* of a control stream never takes away a route of another association.    *)
(***************************************************************************)
THEOREM WellFormedAlways == Spec => []WellFormed
<1>1. UdpInv => WellFormed
  BY Zenon DEF UdpInv, WellFormed
<1> QED
  BY <1>1, UdpInvAlways, PTL

\* A send offers one packet.
LEMMA EmitOffers ==
    ASSUME TypeOK, NEW a \in Assocs, NEW d \in Dests, NEW id \in Id, Emit(a, d, id),
           UNCHANGED delivered
    PROVE  Service!Next
<1> DEFINE Offered(log) ==
              {[packet |-> n, assoc |-> log[n].assoc, dest |-> log[n].dest] : n \in 1..Len(log)}
           n1 == Len(sent) + 1
           p == [packet |-> n1, assoc |-> sent'[n1].assoc, dest |-> sent'[n1].dest]
<1>1. /\ Len(sent) \in Nat /\ Len(sent') = n1
      /\ \A i \in 1..Len(sent) : i \in 1..Len(sent') /\ sent'[i] = sent[i]
  BY SentGrows, Zenon
<1>2. n1 \in 1..Len(sent') /\ \A i \in 1..Len(sent') : i \in 1..Len(sent) \/ i = n1
  BY <1>1
<1>3. p.packet = n1 /\ n1 \notin 1..Len(sent)
  BY <1>1
<1>4. \A x \in Offered(sent) : x.packet \in 1..Len(sent)
  OBVIOUS
<1>5. p \notin Offered(sent)
  BY <1>3, <1>4, Zenon
<1>6. p \in Offered(sent')
  BY <1>2, Zenon
<1>7. Offered(sent') = Offered(sent) \cup {p}
  <2> HIDE DEF n1
  <2>1. \A x \in Offered(sent') : x \in Offered(sent) \/ x = p
    BY <1>1, <1>2, Zenon
  <2>2. \A x \in Offered(sent) : x \in Offered(sent')
    BY <1>1, Zenon
  <2> HIDE DEF Offered, p
  <2> QED
    BY <1>6, <2>1, <2>2, Zenon
<1>8. \E x \in Offered(sent') : x \notin Offered(sent) /\ Offered(sent') = Offered(sent) \cup {x}
  <2> HIDE DEF Offered, p
  <2> QED
    BY <1>5, <1>6, <1>7, Zenon
<1> QED
  BY <1>8, Zenon DEF Service!Next, Service!Offer

\* recv delivers a packet that was offered and has not been delivered.
LEMMA RecvDelivers ==
    ASSUME UdpInv, NEW a \in Assocs, Recv(a)
    PROVE  Service!Next
<1> DEFINE m == Head(chan[a])
<1>1. TypeOK /\ Labelled /\ OnePlace
  BY Zenon DEF UdpInv
<1>2. chan[a] \in Seq(Delivery) /\ chan[a] # <<>>
  BY <1>1, Zenon DEF Recv, TypeOK
<1>3. m = chan[a][1] /\ 1 \in 1..Len(chan[a])
  BY <1>2, HeadTailFacts, Zenon
<1>4. delivered' = Append(delivered, m) /\ sent' = sent
  BY Zenon DEF Recv, senderVars
<1> HIDE DEF m
<1>5. Genuine(m, sent) /\ ~Received(m.packet)
  BY <1>1, <1>3, Zenon DEF Labelled, ChanLabelled, OnePlace, ChanOnce
<1>6. m \in {[packet |-> n, assoc |-> sent[n].assoc, dest |-> sent[n].dest] : n \in 1..Len(sent)}
  BY <1>5, Zenon DEF Genuine, OfSent
<1>7. \A i \in 1..Len(delivered) : delivered[i] # m
  BY <1>5, Zenon DEF Received
<1> QED
  BY <1>4, <1>6, <1>7, Zenon DEF Service!Next, Service!Deliver

(***************************************************************************)
(* UDP over a connection implements the datagram service: only packets     *)
(* that were sent are received, on their association and with their        *)
(* destination, and each at most once.                                     *)
(***************************************************************************)
THEOREM ImplementsService == Spec => ServiceSpec
<1> DEFINE Offered ==
              {[packet |-> n, assoc |-> sent[n].assoc, dest |-> sent[n].dest] : n \in 1..Len(sent)}
<1>1. Init => Service!Init
  BY DEF Init, Service!Init
<1>2. UdpInv /\ [Next]_vars => [Service!Next]_<<Offered, delivered>>
  <2> SUFFICES ASSUME UdpInv, [Next]_vars PROVE Service!Next \/ UNCHANGED <<sent, delivered>>
    BY Zenon DEF Offered
  <2>0. TypeOK
    BY Zenon DEF UdpInv
  <2> USE DEF senderVars, wireVars, routeVars, taskVars, appVars
  <2>1. ASSUME NEW a \in Assocs, NEW d \in Dests, SendKnown(a, d) PROVE Service!Next
    <3>1. contexts[a][d] \in Id /\ Emit(a, d, contexts[a][d]) /\ UNCHANGED delivered
      BY <2>0, <2>1, Zenon DEF SendKnown, TypeOK, Range
    <3> QED
      BY <2>0, <3>1, EmitOffers, Zenon
  <2>2. ASSUME NEW a \in Assocs, NEW d \in Dests, SendNew(a, d) PROVE Service!Next
    <3>1. next_id \in Id /\ Emit(a, d, next_id) /\ UNCHANGED delivered
      BY <2>0, <2>2, Zenon DEF SendNew, TypeOK
    <3> QED
      BY <2>0, <3>1, EmitOffers, Zenon
  <2>3. ASSUME NEW a \in Assocs, Recv(a) PROVE Service!Next
    BY <2>3, RecvDelivers, Zenon
  <2>4. \/ \E a \in Assocs, d \in Dests : SendKnown(a, d) \/ SendNew(a, d)
        \/ \E a \in Assocs : Recv(a)
        \/ UNCHANGED <<sent, delivered>>
    BY Zenon DEF Next, vars, SendTooLarge, SendRejected, DropSender, ReadControl, EndControl, Release,
           LoseDatagram, Arrive, Route, WaitFails, Push, AcceptUni, Bind, PushFrame, EndUni,
           ConnectionLost, LoopEnds
  <2> QED
    BY <2>1, <2>2, <2>3, <2>4, Zenon
<1>3. Spec => Init /\ [][Next]_vars
  BY Zenon DEF Spec
<1> QED
  BY <1>1, <1>2, <1>3, UdpInvAlways, PTL DEF ServiceSpec, Service!Spec
=============================================================================
