------------------------- MODULE SQuicUdpOrderProofs -------------------------
(***************************************************************************)
(* Proofs about UDP over SQuic, continued: the packets of a stream context *)
(* are received in the order they were sent and without a gap.             *)
(***************************************************************************)
EXTENDS SQuicUdpProofs

(***************************************************************************)
(* A stream context is known to its sender once something was sent on it,  *)
(* and its stream stays open while its sender can send.                    *)
(***************************************************************************)
StreamsOpen ==
    /\ \A n \in 1..Len(sent) : sent[n].dest \in DOMAIN contexts[sent[n].assoc]
    /\ \A c \in DOMAIN uni : c[2] \in DOMAIN contexts[c[1]]
    /\ conn = "alive" =>
          \A n \in 1..Len(sent) :
              sent[n].assoc \in Streaming \ dropped =>
                  <<sent[n].assoc, sent[n].dest>> \in DOMAIN uni

(***************************************************************************)
(* Along a stream context, packets are in the order they were sent: first  *)
(* the received, then the queued, then the frames still in the stream; and *)
(* as long as the association is kept, none is missing.                    *)
(***************************************************************************)
ReceivedInOrder(c) ==
    \A i, j \in 1..Len(delivered) :
        i < j /\ On(c, delivered[i]) /\ On(c, delivered[j]) =>
            delivered[i].packet < delivered[j].packet
QueuedInOrder(c) ==
    \A i, j \in 1..Len(chan[c[1]]) :
        i < j /\ On(c, chan[c[1]][i]) /\ On(c, chan[c[1]][j]) =>
            chan[c[1]][i].packet < chan[c[1]][j].packet
ReceivedFirst(c) ==
    \A i \in 1..Len(delivered), j \in 1..Len(chan[c[1]]) :
        On(c, delivered[i]) /\ On(c, chan[c[1]][j]) =>
            delivered[i].packet < chan[c[1]][j].packet
FramesLast(c) ==
    c \in DOMAIN uni =>
        /\ \A i, j \in 1..Len(uni[c].frames) :
              i < j => uni[c].frames[i] < uni[c].frames[j]
        /\ \A i \in 1..Len(delivered), j \in 1..Len(uni[c].frames) :
              On(c, delivered[i]) => delivered[i].packet < uni[c].frames[j]
        /\ \A i \in 1..Len(chan[c[1]]), j \in 1..Len(uni[c].frames) :
              On(c, chan[c[1]][i]) => chan[c[1]][i].packet < uni[c].frames[j]

Ordered(c) == ReceivedInOrder(c) /\ QueuedInOrder(c) /\ ReceivedFirst(c) /\ FramesLast(c)

QueuedOn(a, n) == \E i \in 1..Len(chan[a]) : chan[a][i].packet = n

ReceivedGapless(c) ==
    \A i \in 1..Len(delivered) : On(c, delivered[i]) =>
        \A n \in 1..Len(sent) :
            n < delivered[i].packet /\ sent[n] = ContextOf(c) => Received(n)
QueuedGapless(c) ==
    \A i \in 1..Len(chan[c[1]]) : On(c, chan[c[1]][i]) =>
        \A n \in 1..Len(sent) :
            n < chan[c[1]][i].packet /\ sent[n] = ContextOf(c) =>
                Received(n) \/ QueuedOn(c[1], n)
Covered(c) ==
    c \in DOMAIN uni /\ c[1] \notin released =>
        \A n \in 1..Len(sent) : sent[n] = ContextOf(c) =>
            \/ Received(n) \/ QueuedOn(c[1], n)
            \/ \E i \in 1..Len(uni[c].frames) : uni[c].frames[i] = n

Gapless(c) == ReceivedGapless(c) /\ QueuedGapless(c) /\ Covered(c)

StreamInv == StreamsOpen /\ \A c \in Streaming \X Dests : Ordered(c) /\ Gapless(c)

-----------------------------------------------------------------------------
(***************************************************************************)
(* Streams keep their order.                                               *)
(***************************************************************************)

\* The elements of a sequence.
LEMMA ElementType ==
    ASSUME NEW S, NEW q \in Seq(S), NEW i \in 1..Len(q)
    PROVE  q[i] \in S
OBVIOUS

\* A genuine packet is on the context it was sent on.
LEMMA OnSent ==
    ASSUME NEW c, NEW m, Genuine(m, sent), sent \in Seq(RouteType)
    PROVE  On(c, m) <=> sent[m.packet] = ContextOf(c)
<1>1. m.packet \in 1..Len(sent) /\ m = OfSent(m.packet, sent)
  BY Zenon DEF Genuine
<1>2. sent[m.packet] \in RouteType
  BY <1>1
<1>3. m.assoc = sent[m.packet].assoc /\ m.dest = sent[m.packet].dest
  BY <1>1 DEF OfSent
<1> QED
  BY <1>2, <1>3 DEF On, ContextOf, RouteType

\* The contexts of a sender only grow, and grow by announcements.
LEMMA ContextsGrow ==
    ASSUME TypeOK, NEW a \in Assocs, NEW d \in Dests, Announce(a, d)
    PROVE  /\ \A b \in Assocs : DOMAIN contexts[b] \subseteq DOMAIN contexts'[b]
           /\ d \in DOMAIN contexts'[a]
<1>1. contexts'[a] = Put(contexts[a], d, next_id)
  BY Zenon DEF Announce, TypeOK
<1>2. \A b \in Assocs : b # a => contexts'[b] = contexts[b]
  BY Zenon DEF Announce, TypeOK
<1> QED
  BY <1>1, <1>2, Zenon DEF Put

\* A sent packet goes on an open stream of a known context.
LEMMA EmitStreamsOpen ==
    ASSUME TypeOK, StreamsOpen, NEW a \in Assocs, NEW d \in Dests, NEW id \in Id,
           Emit(a, d, id), Len(sent) < MaxSends,
           \A b \in Assocs : DOMAIN contexts[b] \subseteq DOMAIN contexts'[b],
           d \in DOMAIN contexts'[a], UNCHANGED <<setup, dropped, conn>>
    PROVE  StreamsOpen'
<1> DEFINE n == Len(sent) + 1
<1>1. /\ Len(sent) \in Nat /\ Len(sent') = n
      /\ sent'[n] = ContextOf(<<a, d>>)
      /\ \A i \in 1..Len(sent) : sent'[i] = sent[i]
  BY SentGrows, Zenon
<1>2. ContextOf(<<a, d>>).assoc = a /\ ContextOf(<<a, d>>).dest = d
  BY Zenon DEF ContextOf
<1>3. /\ \A i \in 1..Len(sent') : i \in 1..Len(sent) \/ i = n
      /\ \A i \in 1..Len(sent) : sent[i].assoc \in Assocs
  <2>1. ASSUME NEW i \in 1..Len(sent) PROVE sent[i].assoc \in Assocs
    <3>1. sent[i] \in RouteType
      BY DEF TypeOK
    <3> QED
      BY <3>1, Zenon DEF RouteType
  <2> QED
    BY <1>1, <2>1
<1>4. /\ DOMAIN uni \subseteq DOMAIN uni'
      /\ a \in Streaming => <<a, d>> \in DOMAIN uni'
      /\ \A c \in DOMAIN uni' : c \in DOMAIN uni \/ c = <<a, d>>
  BY DEF Emit, Put
<1> HIDE DEF n
<1>5. \A i \in 1..Len(sent') : sent'[i].dest \in DOMAIN contexts'[sent'[i].assoc]
  BY <1>1, <1>2, <1>3 DEF StreamsOpen
<1>6. \A c \in DOMAIN uni' : c[2] \in DOMAIN contexts'[c[1]]
  <2>1. \A c \in DOMAIN uni : c[1] \in Assocs
    BY SQuicUdpAssumption, Zenon DEF TypeOK, Streaming
  <2> QED
    BY <1>4, <2>1 DEF StreamsOpen
<1>7. ASSUME conn' = "alive", NEW i \in 1..Len(sent'), sent'[i].assoc \in Streaming \ dropped
      PROVE  <<sent'[i].assoc, sent'[i].dest>> \in DOMAIN uni'
  BY <1>1, <1>2, <1>3, <1>4, <1>7, Zenon DEF StreamsOpen
<1>8. Streaming' = Streaming
  BY Zenon DEF Streaming
<1> QED
  BY <1>5, <1>6, <1>7, <1>8, Zenon DEF StreamsOpen

\* Streams stay open and contexts stay known.
LEMMA StreamsOpenStep ==
    TypeOK /\ StreamsOpen /\ [Next]_vars => StreamsOpen'
<1> SUFFICES ASSUME TypeOK, StreamsOpen, [Next]_vars PROVE StreamsOpen'
  BY Zenon
<1> USE DEF senderVars, wireVars, routeVars, taskVars, appVars
<1>0. setup' = setup /\ Streaming' = Streaming
  BY SetupFixed, Zenon DEF Streaming
<1>1. ASSUME NEW a \in Assocs, NEW d \in Dests, SendKnown(a, d) PROVE StreamsOpen'
  <2>1. /\ contexts[a][d] \in Id /\ Len(sent) < MaxSends /\ Emit(a, d, contexts[a][d])
        /\ d \in DOMAIN contexts[a] /\ UNCHANGED <<setup, contexts, dropped, conn>>
    BY <1>1, Zenon DEF SendKnown, CanSend, TypeOK, Range
  <2> QED
    BY <2>1, EmitStreamsOpen, Zenon
<1>2. ASSUME NEW a \in Assocs, NEW d \in Dests, SendNew(a, d) PROVE StreamsOpen'
  <2>1. /\ next_id \in Id /\ Len(sent) < MaxSends /\ Emit(a, d, next_id) /\ Announce(a, d)
        /\ UNCHANGED <<setup, dropped, conn>>
    BY <1>2, Zenon DEF SendNew, CanSend, TypeOK
  <2> QED
    BY <2>1, ContextsGrow, EmitStreamsOpen, Zenon
<1>3. ASSUME NEW a \in Assocs, NEW d \in Dests, SendTooLarge(a, d) PROVE StreamsOpen'
  <2>1. /\ \A b \in Assocs : DOMAIN contexts[b] \subseteq DOMAIN contexts'[b]
        /\ d \in DOMAIN contexts'[a]
    BY <1>3, ContextsGrow, Zenon DEF SendTooLarge
  <2>2. /\ DOMAIN uni \subseteq DOMAIN uni'
        /\ \A c \in DOMAIN uni' : c \in DOMAIN uni \/ c = <<a, d>>
    BY <1>3, Zenon DEF SendTooLarge, Put
  <2>3. \A c \in DOMAIN uni : c[1] \in Assocs
    BY SQuicUdpAssumption, Zenon DEF TypeOK, Streaming
  <2>4. ASSUME NEW i \in 1..Len(sent) PROVE sent[i].assoc \in Assocs
    <3>1. sent[i] \in RouteType
      BY DEF TypeOK
    <3> QED
      BY <3>1, Zenon DEF RouteType
  <2>5. UNCHANGED <<sent, dropped, conn>>
    BY <1>3, Zenon DEF SendTooLarge
  <2>6. \A c \in DOMAIN uni' : c[2] \in DOMAIN contexts'[c[1]]
    BY <2>1, <2>2, <2>3 DEF StreamsOpen
  <2> QED
    BY <1>0, <2>1, <2>2, <2>4, <2>5, <2>6, Zenon DEF StreamsOpen
<1>4. ASSUME NEW c \in DOMAIN bound, PushFrame(c) PROVE StreamsOpen'
  <2>1. DOMAIN uni' = DOMAIN uni /\ UNCHANGED <<sent, contexts, dropped, conn>>
    BY <1>4, Zenon DEF PushFrame
  <2> QED
    BY <1>0, <2>1, Zenon DEF StreamsOpen
<1>5. ASSUME NEW c \in DOMAIN bound, EndUni(c) PROVE StreamsOpen'
  <2>1. /\ DOMAIN uni' = DOMAIN uni \ {c} /\ UNCHANGED <<sent, contexts, dropped, conn>>
        /\ conn # "alive" \/ c[1] \in dropped
    BY <1>5, Zenon DEF EndUni, Restrict
  <2>2. ASSUME conn = "alive", NEW n \in 1..Len(sent), sent[n].assoc \in Streaming \ dropped
        PROVE  <<sent[n].assoc, sent[n].dest>> \in DOMAIN uni'
    <3>1. <<sent[n].assoc, sent[n].dest>> \in DOMAIN uni
      BY <2>2, Zenon DEF StreamsOpen
    <3>2. <<sent[n].assoc, sent[n].dest>> # c
      BY <2>1, <2>2
    <3> QED
      BY <2>1, <3>1, <3>2, Zenon
  <2> QED
    BY <1>0, <2>1, <2>2, Zenon DEF StreamsOpen
<1>6. CASE /\ UNCHANGED <<sent, contexts, uni>> /\ dropped \subseteq dropped'
           /\ conn' = "alive" => conn = "alive"
  BY <1>0, <1>6, Zenon DEF StreamsOpen
<1>7. \/ \E a \in Assocs, d \in Dests : SendKnown(a, d) \/ SendNew(a, d) \/ SendTooLarge(a, d)
      \/ \E c \in DOMAIN bound : PushFrame(c) \/ EndUni(c)
      \/ /\ UNCHANGED <<sent, contexts, uni>> /\ dropped \subseteq dropped'
         /\ conn' = "alive" => conn = "alive"
  BY Zenon DEF Next, vars, SendRejected, DropSender, ReadControl, EndControl, Recv, Release,
         LoseDatagram, Arrive, Route, WaitFails, Push, AcceptUni, Bind, ConnectionLost,
         LoopEnds
<1> QED
  BY <1>1, <1>2, <1>3, <1>4, <1>5, <1>6, <1>7, Zenon

\* A new packet is the last of its context, and is in the stream.
LEMMA EmitStreams ==
    ASSUME TypeOK, Labelled, StreamsOpen, NEW a \in Assocs, NEW d \in Dests, NEW id \in Id,
           CanSend(a), Emit(a, d, id), UNCHANGED <<chan, delivered, released>>,
           NEW c \in Streaming \X Dests, Ordered(c), Gapless(c)
    PROVE  Ordered(c)' /\ Gapless(c)'
<1> DEFINE n == Len(sent) + 1
<1>1. /\ Len(sent) \in Nat /\ Len(sent') = n
      /\ sent'[n] = ContextOf(<<a, d>>)
      /\ \A i \in 1..Len(sent) : i \in 1..Len(sent') /\ sent'[i] = sent[i]
  BY SentGrows, Zenon
<1>2. \A i \in 1..Len(sent') : i \in 1..Len(sent) \/ i = n
  BY <1>1
<1>3. c = <<c[1], c[2]>> /\ c[1] \in Assocs
  BY SQuicUdpAssumption DEF Streaming, TypeOK
<1>4. \A i \in 1..Len(delivered) : delivered[i].packet \in 1..Len(sent)
  BY Zenon DEF Labelled, DeliveredLabelled, Genuine
<1>5. \A i \in 1..Len(chan[c[1]]) : chan[c[1]][i].packet \in 1..Len(sent)
  BY <1>3, Zenon DEF Labelled, ChanLabelled, Genuine
<1>6. /\ \A x : Received(x)' <=> Received(x)
      /\ \A x : QueuedOn(c[1], x)' <=> QueuedOn(c[1], x)
  BY Zenon DEF Received, QueuedOn
<1>7. ReceivedInOrder(c)' /\ QueuedInOrder(c)' /\ ReceivedFirst(c)'
  BY Zenon DEF Ordered, ReceivedInOrder, QueuedInOrder, ReceivedFirst
<1>8. ReceivedGapless(c)'
  <2>1. ASSUME NEW i \in 1..Len(delivered), On(c, delivered[i]), NEW k \in 1..Len(sent'),
               k < delivered[i].packet, sent'[k] = ContextOf(c)
        PROVE  Received(k)
    <3>1. k \in 1..Len(sent)
      BY <1>1, <1>4, <2>1
    <3> QED
      BY <1>1, <2>1, <3>1, Zenon DEF Gapless, ReceivedGapless
  <2> QED
    BY <1>6, <2>1, Zenon DEF ReceivedGapless
<1>9. QueuedGapless(c)'
  <2>1. ASSUME NEW i \in 1..Len(chan[c[1]]), On(c, chan[c[1]][i]), NEW k \in 1..Len(sent'),
               k < chan[c[1]][i].packet, sent'[k] = ContextOf(c)
        PROVE  Received(k) \/ QueuedOn(c[1], k)
    <3>1. k \in 1..Len(sent)
      BY <1>1, <1>5, <2>1
    <3> QED
      BY <1>1, <2>1, <3>1, Zenon DEF Gapless, QueuedGapless
  <2> QED
    BY <1>6, <2>1, Zenon DEF QueuedGapless
<1>10. CASE c # <<a, d>>
  <2>1. ContextOf(c) # ContextOf(<<a, d>>)
    BY <1>3, <1>10, Zenon DEF ContextOf
  <2>2. /\ c \in DOMAIN uni' <=> c \in DOMAIN uni
        /\ c \in DOMAIN uni => uni'[c] = uni[c]
    BY <1>10 DEF Emit, Put
  <2>3. FramesLast(c)'
    BY <2>2, Zenon DEF Ordered, FramesLast
  <2> HIDE DEF n
  <2>4. Covered(c)'
    BY <1>1, <1>2, <1>6, <2>1, <2>2, Zenon DEF Gapless, Covered
  <2> QED
    BY <1>7, <1>8, <1>9, <2>3, <2>4, Zenon DEF Ordered, Gapless
<1>11. CASE c = <<a, d>>
  <2> DEFINE old == IF c \in DOMAIN uni THEN uni[c].frames ELSE <<>>
  <2>1. a \in Streaming /\ Len(sent) < MaxSends
    BY <1>11, Zenon DEF CanSend
  <2>2. old \in Seq(1..MaxSends) /\ uni'[c].frames = Append(old, n) /\ n \in 1..MaxSends
    BY <1>11, <2>1, EmitFrames, Zenon
  <2>3. \A i \in 1..Len(old) : old[i] \in 1..Len(sent)
    BY DEF Labelled, FramesLabelled
  <2>4. /\ \A i, j \in 1..Len(old) : i < j => old[i] < old[j]
        /\ \A i \in 1..Len(delivered), j \in 1..Len(old) :
              On(c, delivered[i]) => delivered[i].packet < old[j]
        /\ \A i \in 1..Len(chan[c[1]]), j \in 1..Len(old) :
              On(c, chan[c[1]][i]) => chan[c[1]][i].packet < old[j]
    BY DEF Ordered, FramesLast
  <2>5. ASSUME NEW k \in 1..Len(sent), sent[k] = ContextOf(c), c[1] \notin released
        PROVE  \/ Received(k) \/ QueuedOn(c[1], k)
               \/ \E i \in 1..Len(old) : old[i] = k
    <3>1. sent[k].assoc = a /\ sent[k].dest = d
      BY <1>11, <2>5 DEF ContextOf
    <3>2. conn = "alive" /\ a \in Streaming \ dropped
      BY <2>1, Zenon DEF CanSend
    <3>3. c \in DOMAIN uni
      BY <1>11, <3>1, <3>2, Zenon DEF StreamsOpen
    <3> QED
      BY <2>5, <3>3, Zenon DEF Gapless, Covered
  <2> HIDE DEF old
  <2>6. /\ Len(old) \in Nat
        /\ uni'[c].frames[Len(old) + 1] = n
        /\ \A j \in 1..Len(old) : j \in 1..Len(uni'[c].frames) /\ uni'[c].frames[j] = old[j]
        /\ \A i \in 1..Len(uni'[c].frames) : i \in 1..Len(old) \/ i = Len(old) + 1
        /\ Len(uni'[c].frames) = Len(old) + 1
    BY <2>2, AppendFacts
  <2>7. ASSUME NEW x \in 1..Len(sent) PROVE x < n
    BY <1>1
  <2> HIDE DEF n
  <2>8. ASSUME NEW i \in 1..Len(uni'[c].frames), NEW j \in 1..Len(uni'[c].frames), i < j
        PROVE  uni'[c].frames[i] < uni'[c].frames[j]
    <3>1. i \in 1..Len(old)
      BY <2>6, <2>8
    <3>2. CASE j \in 1..Len(old)
      BY <2>4, <2>6, <2>8, <3>1, <3>2, Zenon
    <3>3. CASE j = Len(old) + 1
      BY <2>3, <2>6, <2>7, <3>1, <3>3, Zenon
    <3> QED
      BY <2>6, <3>2, <3>3, Zenon
  <2>9. ASSUME NEW i \in 1..Len(delivered), NEW j \in 1..Len(uni'[c].frames), On(c, delivered[i])
        PROVE  delivered[i].packet < uni'[c].frames[j]
    BY <1>4, <2>4, <2>6, <2>7, <2>9, Zenon
  <2>10. ASSUME NEW i \in 1..Len(chan[c[1]]), NEW j \in 1..Len(uni'[c].frames),
                On(c, chan[c[1]][i])
         PROVE  chan[c[1]][i].packet < uni'[c].frames[j]
    BY <1>5, <2>4, <2>6, <2>7, <2>10, Zenon
  <2>11. FramesLast(c)'
    BY <2>8, <2>9, <2>10, Zenon DEF FramesLast
  <2>12. ASSUME NEW k \in 1..Len(sent'), sent'[k] = ContextOf(c), c[1] \notin released
         PROVE  \/ Received(k) \/ QueuedOn(c[1], k)
                \/ \E i \in 1..Len(uni'[c].frames) : uni'[c].frames[i] = k
    <3>1. CASE k \in 1..Len(sent)
      BY <1>1, <2>5, <2>6, <2>12, <3>1, Zenon
    <3>2. CASE k = n
      <4>1. Len(old) + 1 \in 1..Len(uni'[c].frames)
        BY <2>6
      <4> QED
        BY <2>6, <3>2, <4>1, Zenon
    <3> QED
      BY <1>2, <3>1, <3>2, Zenon
  <2>13. Covered(c)'
    BY <1>6, <2>12, Zenon DEF Covered
  <2> QED
    BY <1>7, <1>8, <1>9, <2>11, <2>13, Zenon DEF Ordered, Gapless
<1> QED
  BY <1>10, <1>11, Zenon

\* Receiving moves the first queued packet behind the received ones.
LEMMA RecvStreams ==
    ASSUME TypeOK, Labelled, NEW a \in Assocs, Recv(a),
           NEW c \in Streaming \X Dests, Ordered(c), Gapless(c)
    PROVE  Ordered(c)' /\ Gapless(c)'
<1> DEFINE m == Head(chan[a])
<1>1. chan[a] \in Seq(Delivery) /\ chan[a] # <<>> /\ delivered \in Seq(Delivery)
  BY Zenon DEF Recv, TypeOK
<1>2. /\ delivered' = Append(delivered, m)
      /\ chan'[a] = Tail(chan[a])
      /\ \A b \in Assocs : b # a => chan'[b] = chan[b]
      /\ UNCHANGED <<sent, uni, released>>
  BY Zenon DEF Recv, TypeOK, senderVars, wireVars
<1>3. /\ Len(chan[a]) \in Nat
      /\ m = chan[a][1] /\ 1 \in 1..Len(chan[a]) /\ m \in Delivery
      /\ Len(Tail(chan[a])) = Len(chan[a]) - 1
      /\ \A i \in 1..Len(Tail(chan[a])) :
            i + 1 \in 1..Len(chan[a]) /\ Tail(chan[a])[i] = chan[a][i + 1]
  BY <1>1, HeadTailFacts, Zenon
<1>4. c[1] \in Assocs
  BY SQuicUdpAssumption, Zenon DEF Streaming, TypeOK
<1> HIDE DEF m
<1>5. /\ Len(delivered) \in Nat /\ Len(delivered') = Len(delivered) + 1
      /\ delivered'[Len(delivered) + 1] = m
      /\ \A i \in 1..Len(delivered) : i \in 1..Len(delivered') /\ delivered'[i] = delivered[i]
      /\ \A i \in 1..Len(delivered') : i \in 1..Len(delivered) \/ i = Len(delivered) + 1
  BY <1>1, <1>2, <1>3, AppendFacts
<1>6. Genuine(m, sent) /\ m.assoc = a
  BY <1>3, Zenon DEF Labelled, ChanLabelled
<1>7. /\ \A x : Received(x) => Received(x)'
      /\ \A x : x = m.packet => Received(x)'
  <2>1. Len(delivered) + 1 \in 1..Len(delivered')
    BY <1>5
  <2> QED
    BY <1>5, <2>1, Zenon DEF Received
<1>8. CASE c[1] # a
  <2>1. chan'[c[1]] = chan[c[1]] /\ ~On(c, m)
    BY <1>2, <1>4, <1>6, <1>8, Zenon DEF On
  <2>2. \A x : QueuedOn(c[1], x)' <=> QueuedOn(c[1], x)
    BY <2>1, Zenon DEF QueuedOn
  <2>3. \A i \in 1..Len(delivered') : On(c, delivered'[i]) =>
            i \in 1..Len(delivered) /\ delivered'[i] = delivered[i]
    BY <1>5, <2>1, Zenon
  <2>4. ReceivedInOrder(c)'
    BY <2>3, Zenon DEF Ordered, ReceivedInOrder
  <2>5. QueuedInOrder(c)'
    BY <2>1, Zenon DEF Ordered, QueuedInOrder
  <2>6. ReceivedFirst(c)'
    BY <2>1, <2>3, Zenon DEF Ordered, ReceivedFirst
  <2>7. FramesLast(c)'
    BY <1>2, <2>1, <2>3, Zenon DEF Ordered, FramesLast
  <2>8. ReceivedGapless(c)'
    BY <1>2, <1>7, <2>3, Zenon DEF Gapless, ReceivedGapless
  <2>9. QueuedGapless(c)'
    BY <1>2, <1>7, <2>1, <2>2, Zenon DEF Gapless, QueuedGapless
  <2>10. Covered(c)'
    BY <1>2, <1>7, <2>2, Zenon DEF Gapless, Covered
  <2> QED
    BY <2>4, <2>5, <2>6, <2>7, <2>8, <2>9, <2>10, Zenon DEF Ordered, Gapless
<1>9. CASE c[1] = a
  <2>1. \A i \in 1..Len(chan'[a]) :
            i + 1 \in 1..Len(chan[a]) /\ chan'[a][i] = chan[a][i + 1] /\ i \in Nat /\ 1 < i + 1
    BY <1>2, <1>3
  <2>2. \A x : QueuedOn(a, x) => Received(x)' \/ QueuedOn(a, x)'
    <3> SUFFICES ASSUME NEW x, NEW k \in 1..Len(chan[a]), chan[a][k].packet = x
                 PROVE  Received(x)' \/ QueuedOn(a, x)'
      BY Zenon DEF QueuedOn
    <3>1. CASE k = 1
      BY <1>3, <1>7, <3>1, Zenon
    <3>2. CASE k # 1
      <4>1. k - 1 \in 1..Len(chan'[a]) /\ (k - 1) + 1 = k
        BY <1>2, <1>3, <3>2
      <4>2. chan'[a][k - 1] = chan[a][k]
        BY <2>1, <4>1, Zenon
      <4> QED
        BY <4>1, <4>2, Zenon DEF QueuedOn
    <3> QED
      BY <3>1, <3>2, Zenon
  <2>3. ASSUME NEW k \in 1..Len(sent), k < m.packet, sent[k] = ContextOf(c), On(c, m)
        PROVE  ~QueuedOn(a, k)
    <3> SUFFICES ASSUME NEW i \in 1..Len(chan[a]), chan[a][i].packet = k PROVE FALSE
      BY Zenon DEF QueuedOn
    <3>1. Genuine(chan[a][i], sent)
      BY Zenon DEF Labelled, ChanLabelled
    <3>2. On(c, chan[a][i])
      BY <2>3, <3>1, OnSent, Zenon DEF TypeOK
    <3>3. m.packet \in 1..Len(sent)
      BY <1>6, Zenon DEF Genuine
    <3>4. CASE i = 1
      BY <1>3, <2>3, <3>3, <3>4
    <3>5. CASE 1 < i
      <4>1. m.packet < k
        BY <1>3, <1>9, <2>3, <3>2, <3>5, Zenon DEF Ordered, QueuedInOrder
      <4> QED
        BY <2>3, <3>3, <4>1
    <3> QED
      BY <1>3, <3>4, <3>5
  <2>4. ReceivedInOrder(c)'
    <3> SUFFICES ASSUME NEW i \in 1..Len(delivered'), NEW j \in 1..Len(delivered'), i < j,
                        On(c, delivered'[i]), On(c, delivered'[j])
                 PROVE  delivered'[i].packet < delivered'[j].packet
      BY Zenon DEF ReceivedInOrder, On
    <3>1. i \in 1..Len(delivered)
      BY <1>5
    <3>2. CASE j \in 1..Len(delivered)
      BY <1>5, <3>1, <3>2, Zenon DEF Ordered, ReceivedInOrder
    <3>3. CASE j = Len(delivered) + 1
      BY <1>3, <1>5, <1>9, <3>1, <3>3 DEF Ordered, ReceivedFirst
    <3> QED
      BY <1>5, <3>2, <3>3, Zenon
  <2>5. QueuedInOrder(c)'
    <3> SUFFICES ASSUME NEW i \in 1..Len(chan'[a]), NEW j \in 1..Len(chan'[a]), i < j,
                        On(c, chan'[a][i]), On(c, chan'[a][j])
                 PROVE  chan'[a][i].packet < chan'[a][j].packet
      BY <1>9, Zenon DEF QueuedInOrder, On
    <3>1. i + 1 < j + 1
      BY <2>1
    <3> QED
      BY <1>9, <2>1, <3>1, Zenon DEF Ordered, QueuedInOrder
  <2>6. ReceivedFirst(c)'
    <3> SUFFICES ASSUME NEW i \in 1..Len(delivered'), NEW j \in 1..Len(chan'[a]),
                        On(c, delivered'[i]), On(c, chan'[a][j])
                 PROVE  delivered'[i].packet < chan'[a][j].packet
      BY <1>9, Zenon DEF ReceivedFirst, On
    <3>1. CASE i \in 1..Len(delivered)
      BY <1>5, <1>9, <2>1, <3>1, Zenon DEF Ordered, ReceivedFirst
    <3>2. CASE i = Len(delivered) + 1
      <4>1. delivered'[i] = chan[a][1] /\ On(c, chan[a][1])
        BY <1>3, <1>5, <3>2, Zenon
      <4>2. /\ j + 1 \in 1..Len(chan[a]) /\ chan'[a][j] = chan[a][j + 1]
            /\ 1 < j + 1 /\ On(c, chan[a][j + 1])
        BY <2>1, Zenon
      <4> QED
        BY <1>3, <1>9, <4>1, <4>2, Zenon DEF Ordered, QueuedInOrder
    <3> QED
      BY <1>5, <3>1, <3>2, Zenon
  <2>7. FramesLast(c)'
    <3> SUFFICES ASSUME c \in DOMAIN uni
                 PROVE  /\ \A i, j \in 1..Len(uni[c].frames) :
                              i < j => uni[c].frames[i] < uni[c].frames[j]
                        /\ \A i \in 1..Len(delivered'), j \in 1..Len(uni[c].frames) :
                              On(c, delivered'[i]) => delivered'[i].packet < uni[c].frames[j]
                        /\ \A i \in 1..Len(chan'[a]), j \in 1..Len(uni[c].frames) :
                              On(c, chan'[a][i]) => chan'[a][i].packet < uni[c].frames[j]
      BY <1>2, <1>9, Zenon DEF FramesLast, On
    <3>1. /\ \A i, j \in 1..Len(uni[c].frames) :
                i < j => uni[c].frames[i] < uni[c].frames[j]
          /\ \A i \in 1..Len(delivered), j \in 1..Len(uni[c].frames) :
                On(c, delivered[i]) => delivered[i].packet < uni[c].frames[j]
          /\ \A i \in 1..Len(chan[a]), j \in 1..Len(uni[c].frames) :
                On(c, chan[a][i]) => chan[a][i].packet < uni[c].frames[j]
      BY <1>9, Zenon DEF Ordered, FramesLast
    <3>2. \A i \in 1..Len(delivered'), j \in 1..Len(uni[c].frames) :
              On(c, delivered'[i]) => delivered'[i].packet < uni[c].frames[j]
      BY <1>3, <1>5, <3>1, Zenon
    <3>3. \A i \in 1..Len(chan'[a]), j \in 1..Len(uni[c].frames) :
              On(c, chan'[a][i]) => chan'[a][i].packet < uni[c].frames[j]
      BY <2>1, <3>1, Zenon
    <3> QED
      BY <3>1, <3>2, <3>3, Zenon
  <2>8. ReceivedGapless(c)'
    <3> SUFFICES ASSUME NEW i \in 1..Len(delivered'), On(c, delivered'[i]),
                        NEW k \in 1..Len(sent), k < delivered'[i].packet, sent[k] = ContextOf(c)
                 PROVE  Received(k)'
      BY <1>2, Zenon DEF ReceivedGapless, On, ContextOf
    <3>1. CASE i \in 1..Len(delivered)
      BY <1>5, <1>7, <3>1, Zenon DEF Gapless, ReceivedGapless
    <3>2. CASE i = Len(delivered) + 1
      <4>1. On(c, m) /\ k < m.packet
        BY <1>5, <3>2, Zenon
      <4>2. Received(k) \/ QueuedOn(a, k)
        BY <1>3, <1>9, <4>1, Zenon DEF Gapless, QueuedGapless
      <4> QED
        BY <1>7, <2>3, <4>1, <4>2, Zenon
    <3> QED
      BY <1>5, <3>1, <3>2, Zenon
  <2>9. QueuedGapless(c)'
    <3> SUFFICES ASSUME NEW i \in 1..Len(chan'[a]), On(c, chan'[a][i]),
                        NEW k \in 1..Len(sent), k < chan'[a][i].packet, sent[k] = ContextOf(c)
                 PROVE  Received(k)' \/ QueuedOn(a, k)'
      BY <1>2, <1>9, Zenon DEF QueuedGapless, On, ContextOf
    <3>1. Received(k) \/ QueuedOn(a, k)
      BY <1>9, <2>1, Zenon DEF Gapless, QueuedGapless
    <3> QED
      BY <1>7, <2>2, <3>1, Zenon
  <2>10. Covered(c)'
    BY <1>2, <1>7, <1>9, <2>2, Zenon DEF Gapless, Covered
  <2> QED
    BY <2>4, <2>5, <2>6, <2>7, <2>8, <2>9, <2>10, Zenon DEF Ordered, Gapless
<1> QED
  BY <1>8, <1>9, Zenon

\* What a frame's step does: its packet goes to the end of the channel of its
\* own association, if that is kept.
LEMMA PushFrameEffect ==
    ASSUME TypeOK, Labelled, NEW c \in DOMAIN bound, PushFrame(c)
    PROVE  /\ c \in DOMAIN uni /\ c = <<c[1], c[2]>> /\ c[1] \in Assocs
           /\ uni[c].frames \in Seq(1..MaxSends) /\ uni[c].frames # <<>>
           /\ uni'[c].frames = Tail(uni[c].frames)
           /\ DOMAIN uni' = DOMAIN uni
           /\ \A e \in DOMAIN uni : e # c => uni'[e] = uni[e]
           /\ UNCHANGED <<sent, delivered, released>>
           /\ \A b \in Assocs :
                 /\ Len(chan[b]) \in Nat
                 /\ \A i \in 1..Len(chan[b]) :
                       i \in 1..Len(chan'[b]) /\ chan'[b][i] = chan[b][i]
                 /\ \A i \in 1..Len(chan'[b]) :
                       \/ i \in 1..Len(chan[b])
                       \/ /\ b = c[1] /\ c[1] \notin released /\ i = Len(chan[b]) + 1
                          /\ chan'[b][i] = [packet |-> uni[c].frames[1], assoc |-> c[1],
                                            dest |-> c[2]]
           /\ c[1] \notin released =>
                 \E i \in 1..Len(chan'[c[1]]) : chan'[c[1]][i].packet = uni[c].frames[1]
<1> USE DEF senderVars, wireVars, routeVars, taskVars, appVars
<1>1. c \in DOMAIN uni /\ uni[c] \in [id : Id, frames : Seq(1..MaxSends)]
  BY Zenon DEF TypeOK
<1>2. c = <<c[1], c[2]>> /\ c[1] \in Assocs /\ c[2] \in Dests
  BY <1>1, SQuicUdpAssumption DEF TypeOK, Streaming
<1>3. uni[c].frames \in Seq(1..MaxSends) /\ uni[c].frames # <<>>
  BY <1>1, Zenon DEF PushFrame
<1>4. /\ uni'[c].frames = Tail(uni[c].frames)
      /\ DOMAIN uni' = DOMAIN uni
      /\ \A e \in DOMAIN uni : e # c => uni'[e] = uni[e]
      /\ UNCHANGED <<sent, delivered, released>>
  BY <1>1, Zenon DEF PushFrame
<1>5. /\ Head(uni[c].frames) = uni[c].frames[1]
      /\ uni[c].frames[1] \in 1..MaxSends
  BY <1>3, HeadTailFacts, Zenon
<1> DEFINE r == bound[c]
           n == uni[c].frames[1]
<1>6. r = ContextOf(c) /\ Forward(n, r)
  BY <1>5, Zenon DEF PushFrame, Labelled, BoundLabelled
<1>7. r \in RouteType /\ r.assoc = c[1] /\ r.dest = c[2]
  BY <1>2, <1>6 DEF RouteType, ContextOf
<1>8. \A b \in Assocs : Len(chan[b]) \in Nat
  BY DEF TypeOK
<1> HIDE DEF r, n
<1>9. CASE c[1] \in released
  <2>1. chan' = chan
    BY <1>6, <1>7, <1>9, Zenon DEF Forward
  <2> QED
    BY <1>1, <1>2, <1>3, <1>4, <1>8, <1>9, <2>1, Zenon
<1>10. CASE c[1] \notin released
  <2>1. n \in 1..MaxSends
    BY <1>5, Zenon DEF n
  <2>2. /\ \A b \in Assocs : b # c[1] => chan'[b] = chan[b]
        /\ Len(chan'[c[1]]) = Len(chan[c[1]]) + 1
        /\ chan'[c[1]][Len(chan[c[1]]) + 1] = [packet |-> n, assoc |-> c[1], dest |-> c[2]]
        /\ \A i \in 1..Len(chan[c[1]]) :
              i \in 1..Len(chan'[c[1]]) /\ chan'[c[1]][i] = chan[c[1]][i]
        /\ \A i \in 1..Len(chan'[c[1]]) :
              i \in 1..Len(chan[c[1]]) \/ i = Len(chan[c[1]]) + 1
    <3>1. r.assoc \notin released
      BY <1>7, <1>10, Zenon
    <3>2. /\ \A b \in Assocs : b # r.assoc => chan'[b] = chan[b]
          /\ Len(chan'[r.assoc]) = Len(chan[r.assoc]) + 1
          /\ chan'[r.assoc][Len(chan[r.assoc]) + 1] =
                [packet |-> n, assoc |-> r.assoc, dest |-> r.dest]
          /\ \A i \in 1..Len(chan[r.assoc]) :
                i \in 1..Len(chan'[r.assoc]) /\ chan'[r.assoc][i] = chan[r.assoc][i]
          /\ \A i \in 1..Len(chan'[r.assoc]) :
                i \in 1..Len(chan[r.assoc]) \/ i = Len(chan[r.assoc]) + 1
      BY <1>6, <1>7, <2>1, <3>1, ForwardEffect, Zenon
    <3> QED
      BY <1>7, <3>2, Zenon
  <2>3. \E i \in 1..Len(chan'[c[1]]) : chan'[c[1]][i].packet = n
    <3>1. Len(chan[c[1]]) + 1 \in 1..Len(chan'[c[1]])
      BY <1>2, <1>8, <2>2
    <3> QED
      BY <2>2, <3>1
  <2>4. ASSUME NEW b \in Assocs
        PROVE  /\ \A i \in 1..Len(chan[b]) :
                     i \in 1..Len(chan'[b]) /\ chan'[b][i] = chan[b][i]
               /\ \A i \in 1..Len(chan'[b]) :
                     \/ i \in 1..Len(chan[b])
                     \/ /\ b = c[1] /\ c[1] \notin released /\ i = Len(chan[b]) + 1
                        /\ chan'[b][i] = [packet |-> n, assoc |-> c[1], dest |-> c[2]]
    <3>1. CASE b = c[1]
      BY <1>10, <2>2, <3>1, Zenon
    <3>2. CASE b # c[1]
      BY <2>2, <3>2, Zenon
    <3> QED
      BY <3>1, <3>2, Zenon
  <2> QED
    BY <1>1, <1>2, <1>3, <1>4, <1>8, <2>3, <2>4, Zenon DEF n
<1> QED
  BY <1>9, <1>10, Zenon

\* The first frame of a stream comes after what its context has passed on, and
\* before its other frames.
LEMMA PushFrameStreams ==
    ASSUME TypeOK, Labelled, NEW c0 \in DOMAIN bound, PushFrame(c0),
           NEW c \in Streaming \X Dests, Ordered(c), Gapless(c)
    PROVE  Ordered(c)' /\ Gapless(c)'
<1> DEFINE n == uni[c0].frames[1]
           m == [packet |-> n, assoc |-> c0[1], dest |-> c0[2]]
<1>1. /\ c0 \in DOMAIN uni /\ c0 = <<c0[1], c0[2]>>
      /\ uni[c0].frames \in Seq(1..MaxSends) /\ uni[c0].frames # <<>>
      /\ uni'[c0].frames = Tail(uni[c0].frames)
      /\ DOMAIN uni' = DOMAIN uni
      /\ \A e \in DOMAIN uni : e # c0 => uni'[e] = uni[e]
      /\ UNCHANGED <<sent, delivered, released>>
  BY PushFrameEffect, Zenon
<1>2. c = <<c[1], c[2]>> /\ c[1] \in Assocs
  BY SQuicUdpAssumption DEF Streaming, TypeOK
<1>3. /\ Len(chan[c[1]]) \in Nat
      /\ \A i \in 1..Len(chan[c[1]]) : i \in 1..Len(chan'[c[1]]) /\ chan'[c[1]][i] = chan[c[1]][i]
      /\ \A i \in 1..Len(chan'[c[1]]) :
            \/ i \in 1..Len(chan[c[1]])
            \/ c[1] = c0[1] /\ i = Len(chan[c[1]]) + 1 /\ chan'[c[1]][i] = m
  BY <1>2, PushFrameEffect
<1>4. /\ \A x : Received(x)' <=> Received(x)
      /\ \A x : QueuedOn(c[1], x) => QueuedOn(c[1], x)'
  BY <1>1, <1>3, Zenon DEF Received, QueuedOn
<1>5. ReceivedInOrder(c)' /\ ReceivedGapless(c)'
  BY <1>1, <1>4, Zenon DEF Ordered, Gapless, ReceivedInOrder, ReceivedGapless
<1>6. CASE c # c0
  <2>1. ~On(c, m)
    BY <1>1, <1>2, <1>6, Zenon DEF On
  <2>2. \A i \in 1..Len(chan'[c[1]]) : On(c, chan'[c[1]][i]) =>
            i \in 1..Len(chan[c[1]]) /\ chan'[c[1]][i] = chan[c[1]][i]
    BY <1>3, <2>1, Zenon
  <2>3. c \in DOMAIN uni => uni'[c] = uni[c]
    BY <1>1, <1>6, Zenon
  <2>4. QueuedInOrder(c)' /\ ReceivedFirst(c)'
    BY <1>1, <2>2, Zenon DEF Ordered, QueuedInOrder, ReceivedFirst
  <2>5. FramesLast(c)'
    BY <1>1, <2>2, <2>3, Zenon DEF Ordered, FramesLast
  <2>6. QueuedGapless(c)'
    BY <1>1, <1>4, <2>2, Zenon DEF Gapless, QueuedGapless
  <2>7. Covered(c)'
    BY <1>1, <1>4, <2>3, Zenon DEF Gapless, Covered
  <2> QED
    BY <1>5, <2>4, <2>5, <2>6, <2>7, Zenon DEF Ordered, Gapless
<1>7. CASE c = c0
  <2> DEFINE f == uni[c].frames
             q == chan[c[1]]
             g == chan'[c[1]]
  <2>1. /\ Len(f) \in Nat /\ 1 \in 1..Len(f) /\ n = f[1]
        /\ Len(Tail(f)) = Len(f) - 1
        /\ \A i \in 1..Len(Tail(f)) : i + 1 \in 1..Len(f) /\ Tail(f)[i] = f[i + 1]
    BY <1>1, <1>7, HeadTailFacts, Zenon
  <2>2. /\ \A i, j \in 1..Len(f) : i < j => f[i] < f[j]
        /\ \A i \in 1..Len(delivered), j \in 1..Len(f) :
              On(c, delivered[i]) => delivered[i].packet < f[j]
        /\ \A i \in 1..Len(q), j \in 1..Len(f) : On(c, q[i]) => q[i].packet < f[j]
    BY <1>1, <1>7, Zenon DEF Ordered, FramesLast
  <2>3. /\ \A i \in 1..Len(q) : i \in 1..Len(g) /\ g[i] = q[i]
        /\ \A i \in 1..Len(g) : i \in 1..Len(q) \/ (i = Len(q) + 1 /\ g[i] = m)
        /\ Len(q) \in Nat
    BY <1>3, Zenon
  <2>4. m.packet = f[1]
    BY <2>1, Zenon
  <2>5. /\ uni'[c].frames = Tail(f)
        /\ c \in DOMAIN uni
    BY <1>1, <1>7, Zenon
  <2>6. /\ \A i, j \in 1..Len(q) : i < j /\ On(c, q[i]) /\ On(c, q[j]) => q[i].packet < q[j].packet
        /\ \A i \in 1..Len(delivered), j \in 1..Len(q) :
              On(c, delivered[i]) /\ On(c, q[j]) => delivered[i].packet < q[j].packet
    BY Zenon DEF Ordered, QueuedInOrder, ReceivedFirst
  <2>7. \A i \in 1..Len(f) : f[i] \in 1..MaxSends
    <3>1. f \in Seq(1..MaxSends)
      BY <1>1, <1>7, Zenon
    <3> QED
      BY <3>1, ElementType, Zenon
  <2>8. ASSUME NEW k \in 1..Len(sent), sent[k] = ContextOf(c), c[1] \notin released
        PROVE  \/ Received(k) \/ QueuedOn(c[1], k)
               \/ \E i \in 1..Len(f) : f[i] = k
    BY <2>5, <2>8, Zenon DEF Gapless, Covered
  <2>9. c[1] \notin released => \E i \in 1..Len(g) : g[i].packet = f[1]
    BY <1>7, PushFrameEffect, Zenon
  <2>10. c[1] \in released => \A i \in 1..Len(g) : i \in 1..Len(q)
    BY <1>2, <1>7, PushFrameEffect, Zenon
  <2> HIDE DEF n, m, f
  <2>11. QueuedInOrder(c)'
    <3> SUFFICES ASSUME NEW i \in 1..Len(g), NEW j \in 1..Len(g), i < j, On(c, g[i]), On(c, g[j])
                 PROVE  g[i].packet < g[j].packet
      BY Zenon DEF QueuedInOrder, On
    <3> HIDE DEF q, g
    <3>1. i \in 1..Len(q) /\ g[i] = q[i]
      BY <2>3
    <3>2. CASE j \in 1..Len(q)
      BY <2>3, <2>6, <3>1, <3>2, Zenon
    <3>3. CASE j = Len(q) + 1 /\ g[j] = m
      BY <2>1, <2>2, <2>4, <3>1, <3>3, Zenon
    <3> QED
      BY <2>3, <3>2, <3>3, Zenon
  <2>12. ReceivedFirst(c)'
    <3> SUFFICES ASSUME NEW i \in 1..Len(delivered), NEW j \in 1..Len(g),
                        On(c, delivered[i]), On(c, g[j])
                 PROVE  delivered[i].packet < g[j].packet
      BY <1>1, Zenon DEF ReceivedFirst, On
    <3> HIDE DEF q, g
    <3> QED
      BY <2>1, <2>2, <2>3, <2>4, <2>6, Zenon
  <2>13. FramesLast(c)'
    <3> SUFFICES /\ \A i, j \in 1..Len(Tail(f)) : i < j => Tail(f)[i] < Tail(f)[j]
                 /\ \A i \in 1..Len(delivered), j \in 1..Len(Tail(f)) :
                       On(c, delivered[i]) => delivered[i].packet < Tail(f)[j]
                 /\ \A i \in 1..Len(g), j \in 1..Len(Tail(f)) :
                       On(c, g[i]) => g[i].packet < Tail(f)[j]
      BY <1>1, <2>5, Zenon DEF FramesLast, On
    <3> HIDE DEF q, g
    <3>1. ASSUME NEW i \in 1..Len(Tail(f)), NEW j \in 1..Len(Tail(f)), i < j
          PROVE  Tail(f)[i] < Tail(f)[j]
      <4>1. i + 1 < j + 1
        BY <3>1
      <4> QED
        BY <2>1, <2>2, <4>1, Zenon
    <3>2. ASSUME NEW i \in 1..Len(g), NEW j \in 1..Len(Tail(f)), On(c, g[i])
          PROVE  g[i].packet < Tail(f)[j]
      <4>1. j + 1 \in 1..Len(f) /\ Tail(f)[j] = f[j + 1] /\ 1 < j + 1
        BY <2>1
      <4>2. CASE i \in 1..Len(q)
        BY <2>2, <2>3, <3>2, <4>1, <4>2, Zenon
      <4>3. CASE g[i] = m
        BY <2>1, <2>2, <2>4, <4>1, <4>3, Zenon
      <4> QED
        BY <2>3, <4>2, <4>3, Zenon
    <3> QED
      BY <2>1, <2>2, <3>1, <3>2, Zenon
  <2>14. ASSUME NEW k \in 1..Len(sent), sent[k] = ContextOf(c), NEW i \in 1..Len(g),
                On(c, g[i]), k < g[i].packet
         PROVE  Received(k) \/ QueuedOn(c[1], k)
    <3>1. CASE i \in 1..Len(q)
      <4>1. g[i] = q[i]
        BY <2>3, <3>1, Zenon
      <4> QED
        BY <2>14, <3>1, <4>1, Zenon DEF Gapless, QueuedGapless
    <3>2. CASE i \notin 1..Len(q)
      <4> HIDE DEF q, g
      <4>1. k < f[1] /\ c[1] \notin released
        BY <2>3, <2>4, <2>10, <2>14, <3>2, Zenon
      <4>2. \A j \in 1..Len(f) : f[j] # k
        <5> SUFFICES ASSUME NEW j \in 1..Len(f), f[j] = k PROVE FALSE
          BY Zenon
        <5>1. f[1] \in 1..MaxSends /\ f[j] \in 1..MaxSends
          BY <2>1, <2>7, Zenon
        <5>2. j = 1 \/ f[1] < f[j]
          BY <2>1, <2>2
        <5> QED
          BY <4>1, <5>1, <5>2
      <4> QED
        BY <2>8, <2>14, <4>1, <4>2, Zenon
    <3> QED
      BY <3>1, <3>2, Zenon
  <2>15. QueuedGapless(c)'
    BY <1>1, <1>4, <2>14, Zenon DEF QueuedGapless, On, ContextOf
  <2>16. ASSUME NEW k \in 1..Len(sent), sent[k] = ContextOf(c), c[1] \notin released
         PROVE  \/ Received(k) \/ QueuedOn(c[1], k)'
                \/ \E i \in 1..Len(Tail(f)) : Tail(f)[i] = k
    <3>1. ASSUME NEW i \in 1..Len(f), f[i] = k
          PROVE  QueuedOn(c[1], k)' \/ \E j \in 1..Len(Tail(f)) : Tail(f)[j] = k
      <4>1. CASE i = 1
        BY <2>9, <2>16, <3>1, <4>1, Zenon DEF QueuedOn
      <4>2. CASE i # 1
        <5>1. i - 1 \in 1..Len(Tail(f)) /\ (i - 1) + 1 = i
          BY <2>1, <4>2
        <5>2. Tail(f)[i - 1] = k
          BY <2>1, <3>1, <5>1, Zenon
        <5> QED
          BY <5>1, <5>2, Zenon
      <4> QED
        BY <4>1, <4>2, Zenon
    <3> QED
      BY <1>4, <2>8, <2>16, <3>1, Zenon
  <2>17. Covered(c)'
    BY <1>1, <1>4, <2>5, <2>16 DEF Covered, ContextOf
  <2> QED
    BY <1>5, <2>11, <2>12, <2>13, <2>15, <2>17, Zenon DEF Ordered, Gapless
<1> QED
  BY <1>6, <1>7, Zenon

\* A step that changes neither what was sent on a stream context nor what it
\* has passed on, nor its frames, keeps its order.
LEMMA SameStreams ==
    ASSUME NEW c, Ordered(c), Gapless(c),
           UNCHANGED <<sent, delivered>>, chan'[c[1]] = chan[c[1]], released \subseteq released',
           c \in DOMAIN uni' => c \in DOMAIN uni /\ uni'[c] = uni[c]
    PROVE  Ordered(c)' /\ Gapless(c)'
<1>1. /\ \A x : Received(x)' <=> Received(x)
      /\ \A x : QueuedOn(c[1], x)' <=> QueuedOn(c[1], x)
  BY Zenon DEF Received, QueuedOn
<1>2. ReceivedInOrder(c)' /\ QueuedInOrder(c)' /\ ReceivedFirst(c)'
  BY Zenon DEF Ordered, ReceivedInOrder, QueuedInOrder, ReceivedFirst
<1>3. FramesLast(c)'
  BY Zenon DEF Ordered, FramesLast
<1>4. ReceivedGapless(c)' /\ QueuedGapless(c)'
  BY <1>1, Zenon DEF Gapless, ReceivedGapless, QueuedGapless
<1>5. Covered(c)'
  BY <1>1, Zenon DEF Gapless, Covered
<1> QED
  BY <1>2, <1>3, <1>4, <1>5, Zenon DEF Ordered, Gapless

\* The order along every stream context is kept by every step.
LEMMA StreamsStep ==
    ASSUME TypeOK, Labelled, OneContext, OnePlace, StreamInv, [Next]_vars
    PROVE  StreamInv'
<1> USE DEF senderVars, wireVars, routeVars, taskVars, appVars
<1>0. setup' = setup /\ Streaming' = Streaming /\ StreamsOpen'
  BY SetupFixed, StreamsOpenStep, Zenon DEF Streaming, StreamInv
<1> SUFFICES ASSUME NEW c \in Streaming \X Dests PROVE Ordered(c)' /\ Gapless(c)'
  BY <1>0, Zenon DEF StreamInv
<1>1. Ordered(c) /\ Gapless(c) /\ StreamsOpen
  BY Zenon DEF StreamInv
<1>2. c = <<c[1], c[2]>> /\ c[1] \in Assocs
  BY SQuicUdpAssumption DEF Streaming, TypeOK
<1>3. ASSUME NEW a \in Assocs, NEW d \in Dests, SendKnown(a, d)
      PROVE  Ordered(c)' /\ Gapless(c)'
  <2>1. /\ contexts[a][d] \in Id /\ CanSend(a) /\ Emit(a, d, contexts[a][d])
        /\ UNCHANGED <<chan, delivered, released>>
    BY <1>3, Zenon DEF SendKnown, TypeOK, Range
  <2> QED
    BY <1>1, <2>1, EmitStreams, Zenon
<1>4. ASSUME NEW a \in Assocs, NEW d \in Dests, SendNew(a, d)
      PROVE  Ordered(c)' /\ Gapless(c)'
  <2>1. /\ next_id \in Id /\ CanSend(a) /\ Emit(a, d, next_id)
        /\ UNCHANGED <<chan, delivered, released>>
    BY <1>4, Zenon DEF SendNew, TypeOK
  <2> QED
    BY <1>1, <2>1, EmitStreams, Zenon
<1>5. ASSUME NEW a \in Assocs, NEW d \in Dests, SendTooLarge(a, d)
      PROVE  Ordered(c)' /\ Gapless(c)'
  <2>1. /\ UNCHANGED <<sent, chan, delivered, released>> /\ d \notin DOMAIN contexts[a]
        /\ c # <<a, d>> /\ c \in DOMAIN uni' => c \in DOMAIN uni /\ uni'[c] = uni[c]
        /\ <<a, d>> \in DOMAIN uni' => \/ <<a, d>> \in DOMAIN uni
                                       \/ uni'[<<a, d>>].frames = <<>>
    BY <1>5, Zenon DEF SendTooLarge, Put
  <2>2. CASE c # <<a, d>>
    BY <1>1, <2>1, <2>2, SameStreams, Zenon
  <2>3. CASE c = <<a, d>>
    <3>1. /\ c \notin DOMAIN uni
          /\ \A n \in 1..Len(sent) : sent[n] # ContextOf(c)
      BY <1>1, <2>1, <2>3 DEF StreamsOpen, ContextOf
    <3>2. c \in DOMAIN uni' => uni'[c].frames = <<>>
      BY <2>1, <2>3, <3>1, Zenon
    <3>3. ReceivedInOrder(c)' /\ QueuedInOrder(c)' /\ ReceivedFirst(c)'
      BY <1>1, <2>1, Zenon DEF Ordered, ReceivedInOrder, QueuedInOrder, ReceivedFirst
    <3>4. FramesLast(c)'
      BY <3>2 DEF FramesLast
    <3>5. ReceivedGapless(c)' /\ QueuedGapless(c)' /\ Covered(c)'
      BY <2>1, <3>1, Zenon DEF ReceivedGapless, QueuedGapless, Covered
    <3> QED
      BY <3>3, <3>4, <3>5, Zenon DEF Ordered, Gapless
  <2> QED
    BY <2>2, <2>3, Zenon
<1>6. ASSUME NEW a \in Assocs, Recv(a) PROVE Ordered(c)' /\ Gapless(c)'
  BY <1>1, <1>6, RecvStreams, Zenon
<1>7. ASSUME NEW e \in DOMAIN bound, PushFrame(e) PROVE Ordered(c)' /\ Gapless(c)'
  BY <1>1, <1>7, PushFrameStreams, Zenon
<1>8. ASSUME NEW a \in Assocs, Release(a) PROVE Ordered(c)' /\ Gapless(c)'
  <2>1. /\ UNCHANGED <<sent, uni, delivered>> /\ released' = released \cup {a}
        /\ chan'[a] = <<>>
        /\ \A b \in Assocs : b # a => chan'[b] = chan[b]
    BY <1>8, Zenon DEF Release, TypeOK
  <2>2. CASE c[1] # a
    <3>1. chan'[c[1]] = chan[c[1]] /\ released \subseteq released'
      BY <1>2, <2>1, <2>2, Zenon
    <3> QED
      BY <1>1, <2>1, <3>1, SameStreams, Zenon
  <2>3. CASE c[1] = a
    <3>1. chan'[c[1]] = <<>> /\ c[1] \in released'
      BY <2>1, <2>3, Zenon
    <3>2. \A x : Received(x)' <=> Received(x)
      BY <2>1, Zenon DEF Received
    <3>3. ReceivedInOrder(c)' /\ QueuedInOrder(c)' /\ ReceivedFirst(c)'
      BY <1>1, <2>1, <3>1 DEF Ordered, ReceivedInOrder, QueuedInOrder, ReceivedFirst
    <3>4. FramesLast(c)'
      BY <1>1, <2>1, <3>1 DEF Ordered, FramesLast
    <3>5. Len(chan'[c[1]]) = 0
      BY <3>1
    <3>6. ReceivedGapless(c)'
      BY <1>1, <2>1, <3>2, Zenon DEF Gapless, ReceivedGapless
    <3>7. QueuedGapless(c)' /\ Covered(c)'
      BY <3>1, <3>5 DEF QueuedGapless, Covered
    <3> QED
      BY <3>3, <3>4, <3>6, <3>7, Zenon DEF Ordered, Gapless
  <2> QED
    BY <2>2, <2>3, Zenon
<1>9. ASSUME NEW s \in sending, Push(s) PROVE Ordered(c)' /\ Gapless(c)'
  <2>1. s \in [packet : 1..MaxSends, route : RouteType] /\ s.route = sent[s.packet]
    BY Zenon DEF TypeOK, Labelled, SendingLabelled
  <2>2. s.route.assoc \in Assocs /\ s.route.assoc \notin Streaming
    BY <2>1, Zenon DEF OnePlace, NotYetPassed, RouteType
  <2>3. s.route.assoc # c[1]
    BY <2>2, Zenon
  <2>4. /\ Forward(s.packet, s.route)
        /\ UNCHANGED <<sent, uni, delivered, released>>
    BY <1>9, Zenon DEF Push
  <2>5. chan'[c[1]] = chan[c[1]]
    BY <1>2, <2>3, <2>4, Zenon DEF Forward, TypeOK
  <2> QED
    BY <1>1, <2>4, <2>5, SameStreams, Zenon
<1>10. ASSUME NEW e \in DOMAIN bound, EndUni(e) PROVE Ordered(c)' /\ Gapless(c)'
  <2>1. /\ UNCHANGED <<sent, chan, delivered, released>>
        /\ c \in DOMAIN uni' => c \in DOMAIN uni /\ uni'[c] = uni[c]
    BY <1>10, Zenon DEF EndUni, Restrict
  <2> QED
    BY <1>1, <2>1, SameStreams, Zenon
<1>11. CASE UNCHANGED <<sent, uni, chan, delivered, released>>
  BY <1>1, <1>11, SameStreams, Zenon
<1>12. \/ \E a \in Assocs, d \in Dests : SendKnown(a, d) \/ SendNew(a, d) \/ SendTooLarge(a, d)
       \/ \E a \in Assocs : Recv(a) \/ Release(a)
       \/ \E s \in sending : Push(s)
       \/ \E e \in DOMAIN bound : PushFrame(e) \/ EndUni(e)
       \/ UNCHANGED <<sent, uni, chan, delivered, released>>
  BY Zenon DEF Next, vars, SendRejected, DropSender, ReadControl, EndControl,
         LoseDatagram, Arrive, Route, WaitFails, AcceptUni, Bind, ConnectionLost, LoopEnds
<1> QED
  BY <1>3, <1>4, <1>5, <1>6, <1>7, <1>8, <1>9, <1>10, <1>11, <1>12, Zenon

(***************************************************************************)
(* The inductive invariant.                                                *)
(***************************************************************************)
IInv == UdpInv /\ StreamInv

\* At the start nothing has been sent.
LEMMA InvInit == Init => IInv
<1> SUFFICES ASSUME Init PROVE IInv
  BY Zenon
<1>1. StreamsOpen
  BY DEF Init, StreamsOpen
<1>2. ASSUME NEW c \in Streaming \X Dests PROVE Ordered(c) /\ Gapless(c)
  <2>1. c[1] \in Assocs
    BY SQuicUdpAssumption, Zenon DEF Streaming, Init
  <2>2. chan[c[1]] = <<>> /\ delivered = <<>> /\ uni = <<>>
    BY <2>1, Zenon DEF Init
  <2> QED
    BY <2>2 DEF Ordered, Gapless, ReceivedInOrder, QueuedInOrder, ReceivedFirst, FramesLast,
                ReceivedGapless, QueuedGapless, Covered
<1> QED
  BY <1>1, <1>2, UdpInvInit, Zenon DEF IInv, StreamInv

\* Every step keeps the invariant.
LEMMA InvStep == IInv /\ [Next]_vars => IInv'
BY UdpInvStep, StreamsStep, Zenon DEF IInv, UdpInv

\* The invariant holds throughout.
LEMMA InvAlways == Spec => []IInv
<1>1. Spec => Init /\ [][Next]_vars
  BY Zenon DEF Spec
<1> QED
  BY <1>1, InvInit, InvStep, PTL

\* Where the elements of two sequences are in their concatenation.
LEMMA ConcatFacts ==
    ASSUME NEW S, NEW p \in Seq(S), NEW q \in Seq(S)
    PROVE  /\ Len(p) \in Nat /\ Len(q) \in Nat /\ Len(p \o q) = Len(p) + Len(q)
           /\ \A i \in 1..Len(p) : i \in 1..Len(p \o q) /\ (p \o q)[i] = p[i]
           /\ \A i \in 1..Len(q) :
                 Len(p) + i \in 1..Len(p \o q) /\ (p \o q)[Len(p) + i] = q[i]
           /\ \A i \in 1..Len(p \o q) :
                 i \in 1..Len(p) \/ (i - Len(p) \in 1..Len(q) /\ i = Len(p) + (i - Len(p)))
<1>1. /\ Len(p) \in Nat /\ Len(q) \in Nat /\ Len(p \o q) = Len(p) + Len(q)
      /\ \A i \in 1..(Len(p) + Len(q)) :
            (p \o q)[i] = IF i <= Len(p) THEN p[i] ELSE q[i - Len(p)]
  OBVIOUS
<1> QED
  BY <1>1

\* The order and the completeness of what has been passed on, position by
\* position.
LEMMA InvStreamsInOrder == IInv => StreamsInOrder
<1> SUFFICES ASSUME IInv, NEW c \in Streaming \X Dests,
                    NEW j \in 1..Len(delivered \o chan[c[1]]),
                    On(c, (delivered \o chan[c[1]])[j])
             PROVE  LET got == delivered \o chan[c[1]]
                    IN  /\ \A i \in 1..(j - 1) : On(c, got[i]) => got[i].packet < got[j].packet
                        /\ \A n \in 1..(got[j].packet - 1) :
                              sent[n] = ContextOf(c) =>
                                  \E i \in 1..(j - 1) : On(c, got[i]) /\ got[i].packet = n
  BY Zenon DEF StreamsInOrder
<1>1. TypeOK /\ Labelled /\ Ordered(c) /\ Gapless(c)
  BY Zenon DEF IInv, UdpInv, StreamInv
<1>2. c[1] \in Assocs
  BY <1>1, SQuicUdpAssumption DEF Streaming, TypeOK
<1> DEFINE D == delivered
           Q == chan[c[1]]
           got == D \o Q
<1>3. D \in Seq(Delivery) /\ Q \in Seq(Delivery) /\ sent \in Seq(RouteType)
  BY <1>1, <1>2, Zenon DEF TypeOK
<1>4. /\ \A i \in 1..Len(D) : Genuine(D[i], sent)
      /\ \A i \in 1..Len(Q) : Genuine(Q[i], sent)
  BY <1>1, <1>2, Zenon DEF Labelled, DeliveredLabelled, ChanLabelled
<1>5. /\ \A i, k \in 1..Len(D) : i < k /\ On(c, D[i]) /\ On(c, D[k]) => D[i].packet < D[k].packet
      /\ \A i, k \in 1..Len(Q) : i < k /\ On(c, Q[i]) /\ On(c, Q[k]) => Q[i].packet < Q[k].packet
      /\ \A i \in 1..Len(D), k \in 1..Len(Q) :
            On(c, D[i]) /\ On(c, Q[k]) => D[i].packet < Q[k].packet
  BY <1>1, Zenon DEF Ordered, ReceivedInOrder, QueuedInOrder, ReceivedFirst
<1>6. /\ \A i \in 1..Len(D) : On(c, D[i]) =>
            \A n \in 1..Len(sent) : n < D[i].packet /\ sent[n] = ContextOf(c) =>
                \E k \in 1..Len(D) : D[k].packet = n
      /\ \A i \in 1..Len(Q) : On(c, Q[i]) =>
            \A n \in 1..Len(sent) : n < Q[i].packet /\ sent[n] = ContextOf(c) =>
                \/ \E k \in 1..Len(D) : D[k].packet = n
                \/ \E k \in 1..Len(Q) : Q[k].packet = n
  BY <1>1, Zenon DEF Gapless, ReceivedGapless, QueuedGapless, Received, QueuedOn
<1> HIDE DEF D, Q
<1>7. /\ Len(D) \in Nat /\ Len(Q) \in Nat /\ Len(got) = Len(D) + Len(Q)
      /\ \A i \in 1..Len(D) : i \in 1..Len(got) /\ got[i] = D[i]
      /\ \A i \in 1..Len(Q) : Len(D) + i \in 1..Len(got) /\ got[Len(D) + i] = Q[i]
      /\ \A i \in 1..Len(got) :
            i \in 1..Len(D) \/ (i - Len(D) \in 1..Len(Q) /\ i = Len(D) + (i - Len(D)))
  BY <1>3, ConcatFacts, Zenon
<1>8. j \in 1..Len(got) /\ On(c, got[j])
  BY Zenon DEF D, Q
<1> HIDE DEF got
<1>9. ASSUME NEW i \in 1..(j - 1), On(c, got[i]) PROVE got[i].packet < got[j].packet
  <2>1. i \in 1..Len(got) /\ i < j
    BY <1>7, <1>8
  <2>2. CASE j \in 1..Len(D)
    <3>1. i \in 1..Len(D) /\ got[i] = D[i] /\ got[j] = D[j]
      BY <1>7, <2>1, <2>2
    <3> QED
      BY <1>5, <1>8, <1>9, <2>1, <2>2, <3>1, Zenon
  <2>3. CASE j \notin 1..Len(D)
    <3> DEFINE k == j - Len(D)
    <3>1. k \in 1..Len(Q) /\ j = Len(D) + k /\ got[j] = Q[k]
      BY <1>7, <1>8, <2>3, Zenon
    <3>2. CASE i \in 1..Len(D)
      <4>1. got[i] = D[i]
        BY <1>7, <3>2, Zenon
      <4> HIDE DEF k
      <4> QED
        BY <1>5, <1>8, <1>9, <3>1, <3>2, <4>1, Zenon
    <3>3. CASE i \notin 1..Len(D)
      <4> DEFINE l == i - Len(D)
      <4>1. l \in 1..Len(Q) /\ i = Len(D) + l /\ got[i] = Q[l]
        BY <1>7, <2>1, <3>3, Zenon
      <4>2. l < k
        BY <1>7, <2>1, <3>1, <4>1
      <4> HIDE DEF k, l
      <4> QED
        BY <1>5, <1>8, <1>9, <3>1, <4>1, <4>2, Zenon
    <3> QED
      BY <3>2, <3>3, Zenon
  <2> QED
    BY <2>2, <2>3, Zenon
<1>10. Genuine(got[j], sent)
  <2>1. CASE j \in 1..Len(D)
    BY <1>4, <1>7, <2>1, Zenon
  <2>2. CASE j \notin 1..Len(D)
    <3> DEFINE k == j - Len(D)
    <3>1. k \in 1..Len(Q) /\ got[j] = Q[k]
      BY <1>7, <1>8, <2>2, Zenon
    <3> HIDE DEF k
    <3> QED
      BY <1>4, <3>1, Zenon
  <2> QED
    BY <2>1, <2>2, Zenon
<1>11. ASSUME NEW n \in 1..(got[j].packet - 1), sent[n] = ContextOf(c)
       PROVE  \E i \in 1..(j - 1) : On(c, got[i]) /\ got[i].packet = n
  <2>1. /\ n \in 1..Len(sent) /\ n < got[j].packet
        /\ got[j].packet \in Nat /\ Len(sent) \in Nat
    <3>1. got[j].packet \in 1..Len(sent) /\ Len(sent) \in Nat
      BY <1>3, <1>10 DEF Genuine
    <3> QED
      BY <3>1
  <2>2. ASSUME NEW i \in 1..Len(got), got[i].packet = n, Genuine(got[i], sent)
        PROVE  On(c, got[i])
    BY <1>3, <1>11, <2>2, OnSent, Zenon
  <2>3. CASE j \in 1..Len(D)
    <3>1. got[j] = D[j]
      BY <1>7, <2>3, Zenon
    <3>2. PICK k \in 1..Len(D) : D[k].packet = n
      BY <1>6, <1>8, <1>11, <2>1, <2>3, <3>1, Zenon
    <3>3. k \in 1..Len(got) /\ got[k] = D[k]
      BY <1>7, Zenon
    <3>4. On(c, got[k]) /\ got[k].packet = n
      BY <1>4, <2>2, <3>2, <3>3, Zenon
    <3>5. ~(j < k)
      <4> SUFFICES ASSUME j < k PROVE FALSE
        BY Zenon
      <4>1. got[j].packet < n
        BY <1>5, <1>8, <2>3, <3>1, <3>2, <3>3, <3>4, Zenon
      <4> QED
        BY <2>1, <4>1
    <3>6. k # j
      BY <2>1, <3>4
    <3>7. k \in 1..(j - 1)
      BY <1>7, <2>3, <3>5, <3>6
    <3> QED
      BY <3>4, <3>7, Zenon
  <2>4. CASE j \notin 1..Len(D)
    <3> DEFINE h == j - Len(D)
    <3>1. h \in 1..Len(Q) /\ j = Len(D) + h /\ got[j] = Q[h]
      BY <1>7, <1>8, <2>4, Zenon
    <3> HIDE DEF h
    <3>2. CASE \E k \in 1..Len(D) : D[k].packet = n
      <4>1. PICK k \in 1..Len(D) : D[k].packet = n
        BY <3>2, Zenon
      <4>2. k \in 1..Len(got) /\ got[k] = D[k]
        BY <1>7, Zenon
      <4>3. On(c, got[k]) /\ got[k].packet = n
        BY <1>4, <2>2, <4>1, <4>2, Zenon
      <4>4. k \in 1..(j - 1)
        BY <1>7, <3>1
      <4> QED
        BY <4>3, <4>4, Zenon
    <3>3. CASE \E k \in 1..Len(Q) : Q[k].packet = n
      <4>1. PICK k \in 1..Len(Q) : Q[k].packet = n
        BY <3>3, Zenon
      <4>2. Len(D) + k \in 1..Len(got) /\ got[Len(D) + k] = Q[k]
        BY <1>7, Zenon
      <4>3. On(c, got[Len(D) + k]) /\ got[Len(D) + k].packet = n
        BY <1>4, <2>2, <4>1, <4>2, Zenon
      <4>4. ~(h < k)
        <5> SUFFICES ASSUME h < k PROVE FALSE
          BY Zenon
        <5>1. got[j].packet < n
          BY <1>5, <1>8, <3>1, <4>1, <4>2, <4>3, Zenon
        <5> QED
          BY <2>1, <5>1
      <4>5. k # h
        BY <2>1, <3>1, <4>1
      <4>6. Len(D) + k \in 1..(j - 1)
        BY <1>7, <3>1, <4>4, <4>5
      <4> QED
        BY <4>3, <4>6, Zenon
    <3> QED
      BY <1>6, <1>8, <1>11, <2>1, <3>1, <3>2, <3>3, Zenon
  <2> QED
    BY <2>3, <2>4, Zenon
<1> QED
  BY <1>9, <1>11, Zenon DEF got, D, Q

(***************************************************************************)
(* Over unidirectional streams the packets of one context come out in the  *)
(* order they went in and without gaps, although each stream waits for its *)
(* announcement on another stream, several streams share the channel of    *)
(* their association, and the association may be released at any time.     *)
(***************************************************************************)
THEOREM StreamOrder == Spec => []StreamsInOrder
BY InvStreamsInOrder, InvAlways, PTL

=============================================================================
