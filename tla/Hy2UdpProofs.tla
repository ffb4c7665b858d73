---------------------------- MODULE Hy2UdpProofs ----------------------------
(***************************************************************************)
(* Proofs about a Hysteria2 UDP session, for any id space, any fragment    *)
(* limits and any channel: the receiver's types and counters, against any  *)
(* peer, and, when the peer is this crate, which packets reassembly may    *)
(* mix. Hy2UdpServiceProofs continues with what holds while ids are        *)
(* spaced.                                                                 *)
(***************************************************************************)
EXTENDS Hy2Udp, FiniteSetTheorems, TLAPS

\* Each packet was cut into as many fragments as its length and room give.
Totals ==
    \A n \in 1..Len(sent) : sent[n].total = FragmentTotal(sent[n].length, sent[n].room)

\* A peer that is not this crate leaves the history empty.
ForeignPeer ==
    peer = "any" => sent = <<>> /\ network = {} /\ delivered = <<>> /\ trusted = 0

\* The inductive invariant behind WellFormed.
SessionInv == TypeOK /\ CountsAreExact /\ Totals /\ ForeignPeer

\* Every chunk of parts is at its own place, and was cut from a packet of this
\* id with as many fragments as parts has places.
OfOneId(parts, id, log) ==
    \A k \in DOMAIN parts :
        parts[k] # NoPart =>
            /\ parts[k].packet \in 1..Len(log)
            /\ parts[k].index = k
            /\ log[parts[k].packet].packet_id = id
            /\ DOMAIN parts = 0..(log[parts[k].packet].total - 1)

\* The inductive invariant behind MixesOnlyOneId.
Unmixed ==
    peer = "crate" =>
        /\ \A id \in DOMAIN fragments : OfOneId(fragments[id].parts, id, sent)
        /\ \A i \in 1..Len(incoming) : \E id \in PacketIds : OfOneId(incoming[i].data, id, sent)
        /\ \A i \in 1..Len(delivered) : \E id \in PacketIds : OfOneId(delivered[i].data, id, sent)

\* The receiver has a fragment set for id that feed will not drop.
Held(id) == id \in DOMAIN fragments /\ fragments[id].age <= FragmentLifetime

-----------------------------------------------------------------------------
(***************************************************************************)
(* The receiver, against any peer.                                         *)
(***************************************************************************)

\* What taking the head off a sequence leaves.
LEMMA HeadTailFacts ==
    ASSUME NEW S, NEW q \in Seq(S), q # <<>>
    PROVE  /\ Len(q) \in Nat /\ Len(q) >= 1 /\ 1 \in 1..Len(q)
           /\ Head(q) = q[1] /\ Head(q) \in S
           /\ Tail(q) \in Seq(S)
           /\ Len(Tail(q)) = Len(q) - 1 /\ Len(Tail(q)) \in Nat
           /\ \A i \in 1..Len(Tail(q)) : i + 1 \in 1..Len(q) /\ Tail(q)[i] = q[i + 1]
<1>1. Len(q) \in Nat /\ Len(q) >= 1
  OBVIOUS
<1>2. Head(q) = q[1]
  OBVIOUS
<1>3. /\ Head(q) \in S /\ Tail(q) \in Seq(S) /\ Len(Tail(q)) = Len(q) - 1
      /\ \A i \in 1..Len(Tail(q)) : Tail(q)[i] = q[i + 1]
  OBVIOUS
<1> QED
  BY <1>1, <1>2, <1>3

\* What appending an element changes.
LEMMA AppendFacts ==
    ASSUME NEW S, NEW q \in Seq(S), NEW x \in S
    PROVE  /\ Append(q, x) \in Seq(S)
           /\ Len(q) \in Nat /\ Len(Append(q, x)) = Len(q) + 1
           /\ Append(q, x)[Len(q) + 1] = x
           /\ \A i \in 1..Len(q) : i \in 1..Len(Append(q, x)) /\ Append(q, x)[i] = q[i]
           /\ \A i \in 1..Len(Append(q, x)) : i \in 1..Len(q) \/ i = Len(q) + 1
<1>1. /\ Append(q, x) \in Seq(S) /\ Len(Append(q, x)) = Len(q) + 1
      /\ Append(q, x)[Len(q) + 1] = x
      /\ \A i \in 1..Len(q) : Append(q, x)[i] = q[i]
  OBVIOUS
<1>2. Len(q) \in Nat
  OBVIOUS
<1> QED
  BY <1>1, <1>2

\* Neither theorem is inductive without the other: a complete set is full
\* because its counter is exact.
ReceiverInv == ReceiverTypeOK /\ CountsAreExact

\* A message that takes part in reassembly.
IsFragment(m) ==
    m \in UdpMessage /\ m.fragment_total > 1 /\ m.fragment_id < m.fragment_total

\* The slots of a set of n fragments form a finite set of n elements.
LEMMA SlotsFinite ==
    ASSUME NEW n \in Nat
    PROVE  IsFiniteSet(0..(n - 1)) /\ Cardinality(0..(n - 1)) = n
<1>1. n - 1 \in Int /\ 0 \in Int
  OBVIOUS
<1> QED
  BY <1>1, FS_Interval

\* A set of the map has between two and MaxFragments slots.
LEMMA PartsShape ==
    ASSUME NEW set \in FragmentSet
    PROVE  \E n \in 2..MaxFragments :
              /\ DOMAIN set.parts = 0..(n - 1)
              /\ set.parts \in [0..(n - 1) -> Payloads \cup {NoPart}]
BY Zenon DEF FragmentSet, Parts

\* What feed finds or makes for a fragment has a slot for it and an exact
\* counter.
LEMMA SetForExact ==
    ASSUME ReceiverInv, NEW m, IsFragment(m)
    PROVE  /\ SetFor(m) \in FragmentSet
           /\ DOMAIN SetFor(m).parts = 0..(m.fragment_total - 1)
           /\ SetFor(m).received = Cardinality(FilledSlots(SetFor(m)))
           /\ SetFor(m).received < m.fragment_total
<1> DEFINE total == m.fragment_total
<1>0. /\ total \in 2..MaxFragments
      /\ m.fragment_id \in 0..(total - 1)
      /\ m.destination \in Addresses
  BY DefraggerAssumption DEF IsFragment, UdpMessage
<1>1. CASE /\ m.packet_id \in DOMAIN Retained
           /\ DOMAIN Retained[m.packet_id].parts = 0..(total - 1)
  <2>1. /\ m.packet_id \in DOMAIN fragments
        /\ Retained[m.packet_id] = fragments[m.packet_id]
        /\ SetFor(m) = fragments[m.packet_id]
    BY <1>1, Zenon DEF Retained, Restrict, SetFor
  <2>2. Cardinality(DOMAIN SetFor(m).parts) = total
    BY <1>0, <1>1, <2>1, SlotsFinite
  <2> QED
    BY <1>0, <1>1, <2>1, <2>2, Zenon DEF ReceiverInv, ReceiverTypeOK, CountsAreExact
<1>2. CASE ~(/\ m.packet_id \in DOMAIN Retained
             /\ DOMAIN Retained[m.packet_id].parts = 0..(total - 1))
  <2>1. SetFor(m) = EmptySet(m)
    BY <1>2, Zenon DEF SetFor
  <2>2. EmptySet(m).parts \in [0..(total - 1) -> Payloads \cup {NoPart}]
    BY Zenon DEF EmptySet
  <2>3. EmptySet(m).parts \in Parts
    BY <1>0, <2>2, Zenon DEF Parts
  <2>4. EmptySet(m) \in FragmentSet
    BY <1>0, <2>3, DefraggerAssumption DEF EmptySet, FragmentSet
  <2>5. FilledSlots(EmptySet(m)) = {}
    BY Zenon DEF FilledSlots, EmptySet
  <2>6. /\ EmptySet(m).received = 0
        /\ DOMAIN EmptySet(m).parts = 0..(total - 1)
    BY Zenon DEF EmptySet
  <2>7. Cardinality(FilledSlots(EmptySet(m))) = 0
    BY <2>5, FS_EmptySet, Zenon
  <2> QED
    BY <1>0, <2>1, <2>4, <2>6, <2>7
<1> QED
  BY <1>1, <1>2, Zenon

\* The set after the fragment: the counter is still exact, and positive.
LEMMA FilledExact ==
    ASSUME ReceiverInv, NEW m, IsFragment(m)
    PROVE  /\ Filled(m) \in FragmentSet
           /\ DOMAIN Filled(m).parts = 0..(m.fragment_total - 1)
           /\ Filled(m).received = Cardinality(FilledSlots(Filled(m)))
           /\ 0 < Filled(m).received
           /\ Filled(m).received <= m.fragment_total
<1> DEFINE total == m.fragment_total
           set == SetFor(m)
           slot == m.fragment_id
<1>0. /\ total \in 2..MaxFragments
      /\ slot \in 0..(total - 1)
      /\ m.data \in Payloads
      /\ m.data # NoPart
  BY DefraggerAssumption DEF IsFragment, UdpMessage
<1>1. /\ set \in FragmentSet
      /\ DOMAIN set.parts = 0..(total - 1)
      /\ set.received = Cardinality(FilledSlots(set))
      /\ set.received < total
  BY SetForExact, Zenon
<1>2. set.parts \in [0..(total - 1) -> Payloads \cup {NoPart}]
  BY <1>1, PartsShape, Zenon
<1>3. IsFiniteSet(FilledSlots(set))
  <2>1. FilledSlots(set) \subseteq 0..(total - 1)
    BY <1>1, Zenon DEF FilledSlots
  <2>2. total \in Nat
    BY <1>0, DefraggerAssumption
  <2>3. IsFiniteSet(0..(total - 1))
    BY <2>2, SlotsFinite, Zenon
  <2> QED
    BY <2>1, <2>3, FS_Subset, Zenon
<1>4. CASE set.parts[slot] = NoPart
  <2>1. Filled(m) = [set EXCEPT !.age = 0, !.parts[slot] = m.data, !.received = @ + 1]
    BY <1>4, Zenon DEF Filled
  <2>2. /\ Filled(m).parts = [set.parts EXCEPT ![slot] = m.data]
        /\ Filled(m).received = set.received + 1
        /\ Filled(m).age = 0
        /\ Filled(m).destination = set.destination
    BY <1>1, <2>1, Zenon DEF FragmentSet
  <2>3. Filled(m).parts \in [0..(total - 1) -> Payloads \cup {NoPart}]
    <3>1. [set.parts EXCEPT ![slot] = m.data] \in [0..(total - 1) -> Payloads \cup {NoPart}]
      BY <1>0, <1>2, Zenon
    <3> QED
      BY <2>2, <3>1, Zenon
  <2>4. Filled(m).parts \in Parts
    BY <1>0, <2>3, Zenon DEF Parts
  <2>5. Filled(m) \in FragmentSet
    <3>1. Filled(m) = [age |-> 0, destination |-> set.destination,
                       parts |-> Filled(m).parts, received |-> set.received + 1]
      BY <1>1, <2>1, Zenon DEF FragmentSet
    <3>2. /\ set.destination \in Addresses
          /\ set.received + 1 \in Nat
          /\ 0 \in 0..(FragmentLifetime + 1)
      BY <1>1, DefraggerAssumption DEF FragmentSet
    <3> HIDE DEF set
    <3> QED
      BY <2>4, <3>1, <3>2 DEF FragmentSet
  <2>6. FilledSlots(Filled(m)) = FilledSlots(set) \cup {slot}
    BY <1>0, <1>1, <1>2, <2>2, <2>3 DEF FilledSlots
  <2>7. slot \notin FilledSlots(set)
    BY <1>4, Zenon DEF FilledSlots
  <2>8. Cardinality(FilledSlots(Filled(m))) = Cardinality(FilledSlots(set)) + 1
    BY <1>3, <2>6, <2>7, FS_AddElement, Zenon
  <2> QED
    BY <1>0, <1>1, <2>2, <2>3, <2>5, <2>8 DEF FragmentSet
<1>5. CASE set.parts[slot] # NoPart
  <2>1. Filled(m) = [set EXCEPT !.age = 0]
    BY <1>5, Zenon DEF Filled
  <2>2. /\ Filled(m).parts = set.parts
        /\ Filled(m).received = set.received
    BY <1>1, <2>1, Zenon DEF FragmentSet
  <2>3. Filled(m) \in FragmentSet
    BY <1>1, <2>1, DefraggerAssumption DEF FragmentSet
  <2>4. FilledSlots(Filled(m)) = FilledSlots(set) /\ slot \in FilledSlots(set)
    BY <1>0, <1>1, <1>5, <2>2, Zenon DEF FilledSlots
  <2>5. Cardinality(FilledSlots(set)) # 0
    BY <1>3, <2>4, FS_EmptySet, Zenon
  <2> QED
    BY <1>0, <1>1, <2>2, <2>3, <2>4, <2>5 DEF FragmentSet
<1> QED
  BY <1>4, <1>5, Zenon

\* A set whose counter has reached its total has every slot filled: the two
\* `expect`s of feed cannot fail.
LEMMA CompleteIsFull ==
    ASSUME ReceiverInv, NEW m, IsFragment(m), Filled(m).received = m.fragment_total
    PROVE  [data |-> Filled(m).parts, destination |-> Filled(m).destination] \in Packet
<1> DEFINE total == m.fragment_total
           slots == 0..(total - 1)
<1>0. total \in 2..MaxFragments /\ total \in 1..MaxFragments
  BY DefraggerAssumption DEF IsFragment, UdpMessage
<1>1. /\ Filled(m) \in FragmentSet
      /\ DOMAIN Filled(m).parts = slots
      /\ total = Cardinality(FilledSlots(Filled(m)))
  BY FilledExact, Zenon
<1>2. Filled(m).parts \in [slots -> Payloads \cup {NoPart}]
  BY <1>1, PartsShape, Zenon
<1>3. IsFiniteSet(slots) /\ Cardinality(slots) = total
  BY <1>0, SlotsFinite
<1>4. FilledSlots(Filled(m)) \subseteq slots
  BY <1>1, Zenon DEF FilledSlots
<1>5. FilledSlots(Filled(m)) = slots
  BY <1>1, <1>3, <1>4, FS_Subset, Zenon
<1>6. Filled(m).parts \in [slots -> Payloads]
  BY <1>2, <1>5, Zenon DEF FilledSlots
<1>7. Filled(m).destination \in Addresses
  BY <1>1, Zenon DEF FragmentSet
<1> QED
  BY <1>0, <1>6, <1>7, Zenon DEF Packet

\* The channel never exceeds its capacity, and takes packets only.
LEMMA TrySendType ==
    ASSUME ReceiverInv, NEW packet \in Packet, TrySend(packet)
    PROVE  incoming' \in Seq(Packet) /\ Len(incoming') <= QueueCap
BY AppendFacts, DefraggerAssumption DEF ReceiverInv, ReceiverTypeOK, TrySend

\* What the invariant says of one fragment set.
SetOK(set) ==
    /\ set \in FragmentSet
    /\ set.received = Cardinality(FilledSlots(set))
    /\ 0 < set.received
    /\ set.received < Cardinality(DOMAIN set.parts)

\* Dropping sets, for their age or because they are complete, keeps the rest.
LEMMA RetainedOK ==
    ASSUME ReceiverInv, NEW ids \in SUBSET DOMAIN Retained
    PROVE  /\ DOMAIN Restrict(Retained, ids) \subseteq PacketIds
           /\ \A id \in DOMAIN Restrict(Retained, ids) : SetOK(Restrict(Retained, ids)[id])
BY Zenon DEF ReceiverInv, ReceiverTypeOK, CountsAreExact, Retained, Restrict, SetOK

\* Types and counters survive any message.
LEMMA InputKeepsInv ==
    ASSUME ReceiverInv, NEW m \in UdpMessage, input(m)
    PROVE  ReceiverInv'
<1>0. SUFFICES /\ DOMAIN fragments' \subseteq PacketIds
               /\ \A id \in DOMAIN fragments' : SetOK(fragments'[id])
               /\ incoming' \in Seq(Packet) /\ Len(incoming') <= QueueCap
               /\ open' \in BOOLEAN
  BY Zenon DEF ReceiverInv, ReceiverTypeOK, CountsAreExact, SetOK, FilledSlots
<1>a. /\ DOMAIN fragments \subseteq PacketIds
      /\ \A id \in DOMAIN fragments : SetOK(fragments[id])
      /\ incoming \in Seq(Packet) /\ Len(incoming) <= QueueCap
      /\ open \in BOOLEAN
  BY Zenon DEF ReceiverInv, ReceiverTypeOK, CountsAreExact, SetOK
<1>1. CASE InputWhole(m)
  <2> DEFINE packet == [data |-> [k \in {0} |-> m.data], destination |-> m.destination]
  <2>1. {0} = 0..(1 - 1) /\ 1 \in 1..MaxFragments
    BY DefraggerAssumption
  <2>2. [k \in {0} |-> m.data] \in [0..(1 - 1) -> Payloads] /\ m.destination \in Addresses
    BY <2>1, Zenon DEF UdpMessage
  <2>3. packet \in Packet
    BY <2>1, <2>2, Zenon DEF Packet
  <2>4. incoming' \in Seq(Packet) /\ Len(incoming') <= QueueCap
    BY <1>1, <2>3, TrySendType, Zenon DEF InputWhole
  <2> QED
    BY <1>1, <1>a, <2>4, Zenon DEF InputWhole
<1>2. CASE InputIgnored(m)
  BY <1>2, <1>a, Zenon DEF InputIgnored
<1>3. CASE InputPartial(m)
  <2>1. IsFragment(m) /\ m.packet_id \in PacketIds /\ m.fragment_total \in Nat
    BY <1>3 DEF InputPartial, IsFragment, UdpMessage
  <2>2. SetOK(Filled(m))
    <3>1. Cardinality(DOMAIN Filled(m).parts) = m.fragment_total
      BY <2>1, FilledExact, SlotsFinite, Zenon
    <3>2. Filled(m).received \in Nat
      BY <2>1, FilledExact, Zenon DEF FragmentSet
    <3> QED
      BY <1>3, <2>1, <3>1, <3>2, FilledExact DEF SetOK, InputPartial
  <2>3. /\ DOMAIN Retained \subseteq PacketIds
        /\ \A id \in DOMAIN Retained : SetOK(Retained[id])
    BY <1>a, Zenon DEF Retained, Restrict
  <2>4. /\ DOMAIN fragments' \subseteq PacketIds
        /\ \A id \in DOMAIN fragments' : SetOK(fragments'[id])
    BY <1>3, <2>1, <2>2, <2>3, Zenon DEF InputPartial, Put
  <2> QED
    BY <1>3, <1>a, <2>4, Zenon DEF InputPartial
<1>4. CASE InputComplete(m)
  <2>1. IsFragment(m)
    BY <1>4, Zenon DEF InputComplete, IsFragment
  <2>2. /\ DOMAIN fragments' \subseteq PacketIds
        /\ \A id \in DOMAIN fragments' : SetOK(fragments'[id])
    BY <1>4, RetainedOK, Zenon DEF InputComplete
  <2>3. incoming' \in Seq(Packet) /\ Len(incoming') <= QueueCap /\ open' \in BOOLEAN
    <3>1. CASE Length(Filled(m).parts) <= MaxUdpSize
      BY <1>4, <1>a, <2>1, <3>1, CompleteIsFull, TrySendType, Zenon DEF InputComplete
    <3>2. CASE ~(Length(Filled(m).parts) <= MaxUdpSize)
      BY <1>4, <1>a, <3>2, Zenon DEF InputComplete
    <3> QED
      BY <3>1, <3>2, Zenon
  <2> QED
    BY <2>2, <2>3, Zenon
<1> QED
  BY <1>1, <1>2, <1>3, <1>4, Zenon DEF input

\* Reading from the channel keeps them too ...
LEMMA RecvKeepsInv ==
    ASSUME ReceiverInv, recv
    PROVE  ReceiverInv'
<1>1. /\ Tail(incoming) \in Seq(Packet)
      /\ Len(Tail(incoming)) = Len(incoming) - 1
      /\ Len(incoming) \in Nat
  BY HeadTailFacts, Zenon DEF ReceiverInv, ReceiverTypeOK, recv
<1>2. Len(incoming') <= QueueCap
  BY <1>1, DefraggerAssumption DEF ReceiverInv, ReceiverTypeOK, recv
<1> QED
  BY <1>1, <1>2, Zenon DEF ReceiverInv, ReceiverTypeOK, CountsAreExact, recv, FilledSlots

\* ... and so does the passing of time, which only ages the fragment sets.
LEMMA TickKeepsInv ==
    ASSUME ReceiverInv, Tick
    PROVE  ReceiverInv'
<1>1. DOMAIN fragments' = DOMAIN fragments
  BY Zenon DEF Tick
<1>2. ASSUME NEW id \in DOMAIN fragments
      PROVE  /\ fragments'[id] \in FragmentSet
             /\ fragments'[id].parts = fragments[id].parts
             /\ fragments'[id].received = fragments[id].received
  <2> DEFINE set == fragments[id]
             age == IF set.age <= FragmentLifetime THEN set.age + 1 ELSE set.age
  <2>1. set \in FragmentSet
    BY <1>2, Zenon DEF ReceiverInv, ReceiverTypeOK
  <2>2. fragments'[id] = [set EXCEPT !.age = age]
    BY <1>2, Zenon DEF Tick
  <2>3. age \in 0..(FragmentLifetime + 1)
    BY <2>1, DefraggerAssumption DEF FragmentSet
  <2> HIDE DEF set, age
  <2>4. fragments'[id] = [age |-> age, destination |-> set.destination,
                          parts |-> set.parts, received |-> set.received]
    BY <2>1, <2>2, Zenon DEF FragmentSet
  <2>5. set.destination \in Addresses /\ set.parts \in Parts /\ set.received \in Nat
    BY <2>1, Zenon DEF FragmentSet
  <2>6. fragments'[id] \in FragmentSet
    BY <2>3, <2>4, <2>5 DEF FragmentSet
  <2> QED
    BY <2>4, <2>6 DEF set
<1>3. ReceiverTypeOK'
  BY <1>1, <1>2, Zenon DEF ReceiverInv, ReceiverTypeOK, Tick
<1>4. CountsAreExact'
  <2> SUFFICES ASSUME NEW id \in DOMAIN fragments
               PROVE  /\ fragments'[id].received = Cardinality(FilledSlots(fragments'[id]))
                      /\ 0 < fragments'[id].received
                      /\ fragments'[id].received < Cardinality(DOMAIN fragments'[id].parts)
    BY <1>1, Zenon DEF CountsAreExact, FilledSlots
  <2>1. FilledSlots(fragments'[id]) = FilledSlots(fragments[id])
    BY <1>2, Zenon DEF FilledSlots
  <2> QED
    BY <1>2, <2>1, Zenon DEF ReceiverInv, CountsAreExact
<1> QED
  BY <1>3, <1>4, Zenon DEF ReceiverInv

\* The invariant holds throughout, against any peer.
THEOREM ReceiverInvariant == ReceiverSpec => []ReceiverInv
<1>1. ReceiverInit => ReceiverInv
  BY DefraggerAssumption DEF ReceiverInit, ReceiverInv, ReceiverTypeOK, CountsAreExact
<1>2. ReceiverInv /\ [ReceiverNext]_receiverVars => ReceiverInv'
  <2>1. ReceiverInv /\ UNCHANGED receiverVars => ReceiverInv'
    BY Zenon DEF ReceiverInv, ReceiverTypeOK, CountsAreExact, receiverVars, FilledSlots
  <2> QED
    BY <2>1, InputKeepsInv, RecvKeepsInv, TickKeepsInv, Zenon DEF ReceiverNext
<1> QED
  BY <1>1, <1>2, PTL DEF ReceiverSpec

\* The receiver keeps its types; a packet in the channel has all its parts.
THEOREM ReceiverTypeCorrect == ReceiverSpec => []ReceiverTypeOK
<1>1. ReceiverInv => ReceiverTypeOK
  BY Zenon DEF ReceiverInv
<1> QED
  BY <1>1, ReceiverInvariant, PTL

\* feed removes a fragment set with the fragment that completes it and with
\* no other: every set in the map is partly filled and exactly counted.
THEOREM ReceiverCountsExactly == ReceiverSpec => []CountsAreExact
<1>1. ReceiverInv => CountsAreExact
  BY Zenon DEF ReceiverInv
<1> QED
  BY <1>1, ReceiverInvariant, PTL
-----------------------------------------------------------------------------
(***************************************************************************)
(* The session is well formed.                                             *)
(***************************************************************************)

\* What integer division by a positive number gives.
LEMMA DivFacts ==
    ASSUME NEW a \in Nat, NEW b \in Nat \ {0}
    PROVE  a \div b \in Nat /\ (a \div b) * b <= a /\ a < (a \div b) * b + b
OBVIOUS

\* Multiplication is monotonic.
LEMMA TimesMonotonic ==
    ASSUME NEW a \in Nat, NEW b \in Nat, NEW c \in Nat, a <= b
    PROVE  a * c \in Nat /\ b * c \in Nat /\ a * c <= b * c
<1>1. PICK e \in Nat : b = a + e
  <2>1. b - a \in Nat /\ b = a + (b - a)
    OBVIOUS
  <2> QED
    BY <2>1, Zenon
<1>2. e * c \in Nat /\ a * c \in Nat /\ b * c \in Nat
  OBVIOUS
<1>3. b * c = a * c + e * c
  BY <1>1
<1> QED
  BY <1>2, <1>3

\* div_ceil(..).max(1) fragments of the given room hold the payload: all but
\* the last are full, and the last is not empty unless the payload is.
LEMMA TotalFacts ==
    ASSUME NEW length \in Nat, NEW room \in Nat \ {0},
           NEW total, total = FragmentTotal(length, room)
    PROVE  /\ total \in Nat \ {0}
           /\ \A k \in 0..(total - 1) : k * room \in Nat /\ k * room <= length
           /\ \A k \in 0..(total - 2) : room <= length - k * room
           /\ (total - 1) * room \in Nat
           /\ length - (total - 1) * room <= room
<1>1. CASE length = 0
  <2>1. total = 1
    BY <1>1, Zenon DEF FragmentTotal
  <2>2. total - 1 = 0 /\ 0..(total - 1) = {0} /\ 0..(total - 2) = {}
    BY <2>1
  <2>3. 0 * room = 0
    OBVIOUS
  <2>4. (total - 1) * room = 0
    BY <2>2, <2>3, Zenon
  <2>5. \A k \in 0..(total - 1) : k * room \in Nat /\ k * room <= length
    BY <1>1, <2>2, <2>3
  <2>6. \A k \in 0..(total - 2) : room <= length - k * room
    BY <2>2, Zenon
  <2>7. total \in Nat \ {0}
    BY <2>1
  <2>8. (total - 1) * room \in Nat
    BY <2>4
  <2>9. length - (total - 1) * room <= room
    BY <1>1, <2>4
  <2> QED
    BY <2>5, <2>6, <2>7, <2>8, <2>9, Zenon
<1>2. CASE length # 0
  <2>1. total = (length + room - 1) \div room /\ length + room - 1 \in Nat
    BY <1>2 DEF FragmentTotal
  <2>2. total \in Nat /\ total * room <= length + room - 1 /\ length + room - 1 < total * room + room
    BY <2>1, DivFacts, Zenon
  <2>3. total # 0
    <3>1. 0 * room = 0
      OBVIOUS
    <3> QED
      BY <1>2, <2>2, <3>1
  <2>4. total - 1 \in Nat /\ (total - 1) * room = total * room - room
    BY <2>2, <2>3
  <2>5. (total - 1) * room \in Nat /\ (total - 1) * room < length
        /\ length <= (total - 1) * room + room
    <3>1. (total - 1) * room \in Nat /\ total * room \in Nat
      BY <2>4, <2>2
    <3> QED
      BY <3>1, <2>2, <2>4
  <2>6. ASSUME NEW k \in 0..(total - 1)
        PROVE  k * room \in Nat /\ k * room <= length
    BY <2>4, <2>5, <2>6, TimesMonotonic
  <2>7. ASSUME NEW k \in 0..(total - 2)
        PROVE  room <= length - k * room
    <3>1. k + 1 \in Nat /\ k \in Nat /\ k + 1 <= total - 1
      BY <2>2, <2>4, <2>7
    <3>2. (k + 1) * room <= (total - 1) * room /\ (k + 1) * room \in Nat
      BY <2>4, <3>1, TimesMonotonic, Zenon
    <3>3. (k + 1) * room = k * room + room /\ k * room \in Nat
      BY <3>1
    <3> QED
      BY <2>5, <3>2, <3>3
  <2> QED
    BY <2>2, <2>3, <2>5, <2>6, <2>7
<1> QED
  BY <1>1, <1>2, Zenon

\* The elements of a sequence have its type.
LEMMA ElementType ==
    ASSUME NEW S, NEW q \in Seq(S)
    PROVE  Len(q) \in Nat /\ \A i \in 1..Len(q) : q[i] \in S
OBVIOUS

\* A packet of the history has the fields send gave it.
LEMMA SentFacts ==
    ASSUME SessionInv, NEW n \in 1..Len(sent)
    PROVE  /\ n \in 1..MaxSends
           /\ sent[n].destination \in Addresses
           /\ sent[n].length \in 0..MaxUdpSize
           /\ sent[n].room \in Nat \ {0}
           /\ sent[n].total \in 1..MaxFragments
           /\ sent[n].packet_id \in PacketIds
           /\ sent[n].total = FragmentTotal(sent[n].length, sent[n].room)
<1>1. sent \in Seq(SentPacket) /\ Len(sent) <= MaxSends
  BY Zenon DEF SessionInv, TypeOK
<1>2. sent[n] \in SentPacket /\ Len(sent) \in Nat
  BY <1>1, ElementType, Zenon
<1> QED
  BY <1>1, <1>2, Hy2UdpAssumption, SMTT(20) DEF SessionInv, Totals, SentPacket

\* A chunk of a payload is not larger than the payload.
LEMMA SizeFacts ==
    ASSUME NEW length \in Nat, NEW start \in Nat, NEW room \in Nat, start <= length,
           NEW limit \in Nat, length <= limit
    PROVE  (IF length - start < room THEN length - start ELSE room) \in 0..limit
OBVIOUS

\* The fragments of a packet are messages.
LEMMA FragmentFacts ==
    ASSUME SessionInv, NEW n \in 1..Len(sent), NEW k \in 0..(sent[n].total - 1)
    PROVE  /\ Chunk(n, sent[n], k) \in Payloads
           /\ Chunk(n, sent[n], k).packet = n
           /\ Chunk(n, sent[n], k).index = k
           /\ Chunk(n, sent[n], k) # NoPart
           /\ Fragment(n, sent[n], k) \in UdpMessage
<1> DEFINE p == sent[n]
           size == IF p.length - k * p.room < p.room THEN p.length - k * p.room ELSE p.room
<1>1. /\ n \in 1..MaxSends
      /\ p.destination \in Addresses
      /\ p.length \in 0..MaxUdpSize
      /\ p.room \in Nat \ {0}
      /\ p.total \in 1..MaxFragments
      /\ p.packet_id \in PacketIds
      /\ p.total = FragmentTotal(p.length, p.room)
  BY SentFacts, Zenon
<1>a. p.length \in Nat /\ MaxUdpSize \in Nat
  BY <1>1, DefraggerAssumption
<1>2. k * p.room \in Nat /\ k * p.room <= p.length
  BY <1>1, <1>a, TotalFacts, Zenon
<1>3. k \in 0..MaxFragments /\ p.total \in 0..MaxFragments
  BY <1>1, DefraggerAssumption
<1>4. size \in 0..MaxUdpSize
  <2>1. p.room \in Nat /\ p.length <= MaxUdpSize
    BY <1>1
  <2> QED
    BY <1>2, <1>a, <2>1, SizeFacts, Zenon
<1> HIDE DEF size
<1>5. Chunk(n, p, k) = [packet |-> n, index |-> k, size |-> size]
  BY Zenon DEF Chunk, size
<1>6. Chunk(n, p, k) \in Payloads
  BY <1>1, <1>3, <1>4, <1>5, Hy2UdpAssumption
<1>7. Chunk(n, p, k) # NoPart
  BY <1>6, DefraggerAssumption, Zenon
<1>8. Fragment(n, p, k) \in UdpMessage
  BY <1>1, <1>3, <1>6, Zenon DEF Fragment, UdpMessage
<1> QED
  BY <1>5, <1>6, <1>7, <1>8

\* A message in flight is a fragment of a packet of the history.
LEMMA MessageFacts ==
    ASSUME SessionInv, NEW m \in network
    PROVE  /\ m \in UdpMessage
           /\ m.data.packet \in 1..Len(sent)
           /\ m.fragment_id \in 0..(sent[m.data.packet].total - 1)
           /\ m.packet_id = sent[m.data.packet].packet_id
           /\ m.fragment_total = sent[m.data.packet].total
           /\ m.destination = sent[m.data.packet].destination
           /\ m.data = Chunk(m.data.packet, sent[m.data.packet], m.fragment_id)
           /\ m = Fragment(m.data.packet, sent[m.data.packet], m.fragment_id)
           /\ peer = "crate"
<1>0. PICK n \in 1..Len(sent) : \E k \in 0..(sent[n].total - 1) : m = Fragment(n, sent[n], k)
  BY Zenon DEF SessionInv, TypeOK
<1>1. PICK k \in 0..(sent[n].total - 1) : m = Fragment(n, sent[n], k)
  BY <1>0, Zenon
<1>2. /\ m \in UdpMessage /\ m.data = Chunk(n, sent[n], k)
      /\ m.packet_id = sent[n].packet_id /\ m.fragment_id = k
      /\ m.fragment_total = sent[n].total /\ m.destination = sent[n].destination
  BY <1>1, FragmentFacts, Zenon DEF Fragment
<1>3. m.data.packet = n
  BY <1>2, FragmentFacts
<1>4. peer = "crate"
  BY Zenon DEF SessionInv, ForeignPeer, TypeOK
<1> QED
  BY <1>1, <1>2, <1>3, <1>4, Zenon

\* What send appends to the history.
LEMMA SendFacts ==
    ASSUME SessionInv, NEW destination \in Addresses, NEW length \in 0..MaxUdpSize,
           NEW room \in Rooms, NEW queued \in 0..MaxFragments,
           Send(destination, length, room, queued)
    PROVE  /\ sent' \in Seq(SentPacket)
           /\ Len(sent) \in Nat /\ Len(sent') = Len(sent) + 1 /\ Len(sent') <= MaxSends
           /\ \A i \in 1..Len(sent) : i \in 1..Len(sent') /\ sent'[i] = sent[i]
           /\ \A i \in 1..Len(sent') : i \in 1..Len(sent) \/ i = Len(sent) + 1
           /\ sent'[Len(sent')].length = length
           /\ sent'[Len(sent')].room = room
           /\ sent'[Len(sent')].total = FragmentTotal(length, room)
           /\ sent'[Len(sent')].packet_id = NextId
           /\ queued \in 0..sent'[Len(sent')].total
           /\ network' = network \cup {Fragment(Len(sent'), sent'[Len(sent')], k) : k \in 0..(queued - 1)}
           /\ disturbed' = IF queued = sent'[Len(sent')].total THEN disturbed
                           ELSE disturbed \cup {Len(sent')}
<1> DEFINE total == FragmentTotal(length, room)
           p == [destination |-> destination, length |-> length, room |-> room,
                 total |-> total, packet_id |-> NextId]
<1>1. sent' = Append(sent, p) /\ Len(sent) < MaxSends
  BY Zenon DEF Send
<1>2. room \in Nat \ {0} /\ length \in Nat /\ MaxSends \in Nat
  BY DefraggerAssumption, Hy2UdpAssumption
<1>3. total \in 1..MaxFragments
  <2>1. total \in Nat \ {0}
    BY <1>2, TotalFacts, Zenon
  <2>2. total <= MaxFragments
    BY Zenon DEF Send
  <2> QED
    BY <2>1, <2>2, DefraggerAssumption
<1>4. NextId \in PacketIds
  <2>1. CounterSpace \in Nat \ {0} /\ IdSpace \in Nat \ {0} /\ PacketIds = 0..(IdSpace - 1)
    BY Hy2UdpAssumption, Zenon
  <2>2. next_packet_id + 1 \in Nat
    BY <2>1 DEF SessionInv, TypeOK
  <2>3. Wrapped \in Nat
    BY <2>1, <2>2 DEF Wrapped
  <2> QED
    BY <2>1, <2>3 DEF NextId
<1>5. p \in SentPacket
  BY <1>2, <1>3, <1>4, Zenon DEF SentPacket
<1>6. sent \in Seq(SentPacket)
  BY Zenon DEF SessionInv, TypeOK
<1>7. /\ sent' \in Seq(SentPacket)
      /\ Len(sent) \in Nat /\ Len(sent') = Len(sent) + 1
      /\ \A i \in 1..Len(sent) : i \in 1..Len(sent') /\ sent'[i] = sent[i]
      /\ \A i \in 1..Len(sent') : i \in 1..Len(sent) \/ i = Len(sent) + 1
      /\ sent'[Len(sent')] = p
  BY <1>1, <1>5, <1>6, AppendFacts
<1>8. Len(sent') <= MaxSends
  BY <1>1, <1>2, <1>7
<1>9. /\ queued \in 0..total
      /\ network' = network \cup {Fragment(Len(sent) + 1, p, k) : k \in 0..(queued - 1)}
      /\ disturbed' = IF queued = total THEN disturbed ELSE disturbed \cup {Len(sent) + 1}
  BY Zenon DEF Send
<1> QED
  BY <1>7, <1>8, <1>9

\* A step of the sender leaves the receiver alone.
LEMMA ReceiverUnchanged ==
    ASSUME ReceiverInv, UNCHANGED receiverVars
    PROVE  ReceiverInv'
BY Zenon DEF ReceiverInv, ReceiverTypeOK, CountsAreExact, receiverVars, FilledSlots

\* Ids fit the counter after each draw.
LEMMA WrappedType ==
    ASSUME next_packet_id \in 0..(CounterSpace - 1)
    PROVE  Wrapped \in 0..(CounterSpace - 1)
<1>1. CounterSpace \in Nat \ {0} /\ next_packet_id + 1 \in Nat
  BY Hy2UdpAssumption
<1> QED
  BY <1>1 DEF Wrapped

\* Send keeps the invariant.
LEMMA SendKeeps ==
    ASSUME SessionInv, NEW destination \in Addresses, NEW length \in 0..MaxUdpSize,
           NEW room \in Rooms, NEW queued \in 0..MaxFragments,
           Send(destination, length, room, queued)
    PROVE  SessionInv'
<1> DEFINE n == Len(sent')
<1>0. /\ sent' \in Seq(SentPacket)
      /\ Len(sent) \in Nat /\ n = Len(sent) + 1 /\ n <= MaxSends
      /\ \A i \in 1..Len(sent) : i \in 1..n /\ sent'[i] = sent[i]
      /\ \A i \in 1..n : i \in 1..Len(sent) \/ i = Len(sent) + 1
      /\ sent'[n].total = FragmentTotal(sent'[n].length, sent'[n].room)
      /\ queued \in 0..sent'[n].total
      /\ network' = network \cup {Fragment(n, sent'[n], k) : k \in 0..(queued - 1)}
      /\ disturbed' \subseteq disturbed \cup {n}
  BY SendFacts, Zenon
<1>a. /\ UNCHANGED <<receiverVars, peer, delivered, trusted>> /\ peer = "crate"
      /\ next_packet_id' = Wrapped /\ spaced' = (spaced /\ IdQuiet(NextId))
  BY Zenon DEF Send
<1>1. ReceiverInv'
  BY <1>a, ReceiverUnchanged, Zenon DEF SessionInv, TypeOK, ReceiverInv
<1>2. \A m \in network' : \E j \in 1..n :
          \E k \in 0..(sent'[j].total - 1) : m = Fragment(j, sent'[j], k)
  <2> TAKE m \in network'
  <2>1. CASE m \in network
    <3>1. PICK j \in 1..Len(sent) : \E k \in 0..(sent[j].total - 1) : m = Fragment(j, sent[j], k)
      BY <2>1, Zenon DEF SessionInv, TypeOK
    <3> QED
      BY <1>0, <3>1, Zenon
  <2>2. CASE m \notin network
    <3>1. PICK k \in 0..(queued - 1) : m = Fragment(n, sent'[n], k)
      BY <1>0, <2>2, Zenon
    <3>2. n \in 1..n /\ sent'[n].total \in Nat
      <4>1. n \in 1..n
        BY <1>0
      <4>2. sent'[n] \in SentPacket
        BY <1>0, <4>1, ElementType, Zenon
      <4> QED
        BY <4>1, <4>2, DefraggerAssumption DEF SentPacket
    <3>3. k \in 0..(sent'[n].total - 1)
      BY <1>0, <3>2
    <3> HIDE DEF n
    <3> QED
      BY <3>1, <3>2, <3>3, Zenon
  <2> QED
    BY <2>1, <2>2, Zenon
<1>3. disturbed' \subseteq 1..MaxSends
  BY <1>0, Hy2UdpAssumption, SMTT(20) DEF SessionInv, TypeOK
<1>4. Totals'
  BY <1>0, Zenon DEF SessionInv, Totals
<1>5. next_packet_id' \in 0..(CounterSpace - 1)
  BY <1>a, WrappedType, Zenon DEF SessionInv, TypeOK
<1>6. spaced' \in BOOLEAN
  BY <1>a, Zenon
<1>7. /\ peer' \in {"crate", "any"} /\ delivered' \in Seq(Packet)
      /\ trusted' \in 0..Len(delivered') /\ peer' # "any"
  BY <1>a, Zenon DEF SessionInv, TypeOK
<1> QED
  BY <1>0, <1>1, <1>2, <1>3, <1>4, <1>5, <1>6, <1>7, Zenon
     DEF SessionInv, TypeOK, ReceiverInv, ForeignPeer

\* What an input of the receiver may do to the session's own variables.
LEMMA InputKeeps ==
    ASSUME SessionInv, NEW m \in UdpMessage, input(m),
           network' \subseteq network, disturbed' \subseteq 1..MaxSends,
           UNCHANGED <<peer, next_packet_id, sent, delivered, spaced, trusted>>
    PROVE  SessionInv'
<1>1. ReceiverInv'
  BY InputKeepsInv, Zenon DEF SessionInv, TypeOK, ReceiverInv
<1> QED
  BY <1>1, Zenon DEF SessionInv, TypeOK, ReceiverInv, Totals, ForeignPeer

\* Recv keeps the invariant.
LEMMA RecvKeeps ==
    ASSUME SessionInv, Recv
    PROVE  SessionInv'
<1>1. ReceiverInv'
  BY RecvKeepsInv, Zenon DEF SessionInv, TypeOK, ReceiverInv, Recv
<1>2. /\ UNCHANGED <<peer, next_packet_id, sent, network, disturbed, spaced>>
      /\ peer \in {"crate", "any"} /\ spaced \in BOOLEAN
  BY Zenon DEF Recv, SessionInv, TypeOK
<1>3. delivered' \in Seq(Packet) /\ trusted' \in 0..Len(delivered')
  <2>1. CASE peer = "crate"
    <3>1. incoming \in Seq(Packet) /\ incoming # <<>> /\ delivered \in Seq(Packet)
          /\ trusted \in 0..Len(delivered)
      BY Zenon DEF SessionInv, TypeOK, ReceiverTypeOK, Recv, recv
    <3>2. Head(incoming) \in Packet
      BY <3>1, HeadTailFacts, Zenon
    <3>3. delivered' = Append(delivered, Head(incoming))
      BY <2>1, Zenon DEF Recv
    <3>4. delivered' \in Seq(Packet) /\ Len(delivered) \in Nat /\ Len(delivered') = Len(delivered) + 1
      BY <3>1, <3>2, <3>3, AppendFacts, Zenon
    <3>5. trusted' = IF spaced THEN Len(delivered') ELSE trusted
      BY <2>1, Zenon DEF Recv
    <3> QED
      BY <3>1, <3>4, <3>5
  <2>2. CASE peer # "crate"
    BY <2>2, Zenon DEF Recv, SessionInv, TypeOK
  <2> QED
    BY <2>1, <2>2, Zenon
<1>4. ForeignPeer'
  BY <1>2, Zenon DEF Recv, SessionInv, ForeignPeer
<1> QED
  BY <1>1, <1>2, <1>3, <1>4 DEF SessionInv, TypeOK, ReceiverInv, Totals

\* Time passing keeps the invariant.
LEMMA AgeKeeps ==
    ASSUME SessionInv, Age
    PROVE  SessionInv'
<1>1. ReceiverInv'
  BY TickKeepsInv, Zenon DEF SessionInv, TypeOK, ReceiverInv, Age
<1>2. HeldBy(Expiring) \subseteq Payloads
  <2> SUFFICES ASSUME NEW id \in DOMAIN fragments, NEW c \in Range(fragments[id].parts) \ {NoPart}
               PROVE  c \in Payloads
    BY Zenon DEF HeldBy, Expiring
  <2>1. fragments[id] \in FragmentSet
    BY Zenon DEF SessionInv, TypeOK, ReceiverTypeOK
  <2>2. PICK j \in 2..MaxFragments : fragments[id].parts \in [0..(j - 1) -> Payloads \cup {NoPart}]
    BY <2>1, PartsShape, Zenon
  <2> QED
    BY <2>2, Zenon DEF Range
<1>3. {c.packet : c \in HeldBy(Expiring)} \subseteq 1..MaxSends
  BY <1>2, Hy2UdpAssumption, Zenon
<1>4. disturbed' \subseteq 1..MaxSends
  BY <1>3, Zenon DEF Age, SessionInv, TypeOK
<1> QED
  BY <1>1, <1>4 DEF Age, SessionInv, TypeOK, ReceiverInv, Totals, ForeignPeer

\* Every step keeps the invariant.
LEMMA SessionStep == SessionInv /\ [Next]_vars => SessionInv'
<1> SUFFICES ASSUME SessionInv, [Next]_vars PROVE SessionInv'
  BY Zenon
<1>1. ASSUME NEW destination \in Addresses, NEW length \in 0..MaxUdpSize, NEW room \in Rooms,
             NEW queued \in 0..MaxFragments, Send(destination, length, room, queued)
      PROVE  SessionInv'
  BY <1>1, SendKeeps, Zenon
<1>2. CASE SendRejected
  <2>1. ReceiverInv'
    BY <1>2, ReceiverUnchanged, Zenon DEF SendRejected, SessionInv, TypeOK, ReceiverInv
  <2>2. next_packet_id' \in 0..(CounterSpace - 1)
    BY <1>2, WrappedType, Zenon DEF SendRejected, SessionInv, TypeOK
  <2> QED
    BY <1>2, <2>1, <2>2 DEF SendRejected, SessionInv, TypeOK, ReceiverInv, Totals, ForeignPeer
<1>3. ASSUME NEW m \in network, Lose(m) PROVE SessionInv'
  <2>1. ReceiverInv'
    BY <1>3, ReceiverUnchanged, Zenon DEF Lose, SessionInv, TypeOK, ReceiverInv
  <2>2. m.data.packet \in 1..MaxSends
    BY <1>3, MessageFacts, SentFacts, Zenon
  <2> QED
    BY <1>3, <2>1, <2>2, Zenon DEF Lose, SessionInv, TypeOK, ReceiverInv, Totals, ForeignPeer
<1>4. ASSUME NEW m \in network, Input(m) PROVE SessionInv'
  <2>1. m \in UdpMessage /\ m.data.packet \in 1..MaxSends
    BY <1>4, MessageFacts, SentFacts, Zenon
  <2>2. /\ input(m) /\ network' \subseteq network
        /\ disturbed' \subseteq disturbed \cup {m.data.packet}
        /\ UNCHANGED <<peer, next_packet_id, sent, delivered, spaced, trusted>>
    BY <1>4, Zenon DEF Input
  <2>3. disturbed' \subseteq 1..MaxSends
    BY <2>1, <2>2, Zenon DEF SessionInv, TypeOK
  <2> QED
    BY <2>1, <2>2, <2>3, InputKeeps, Zenon
<1>5. ASSUME NEW m \in ForeignMessage, InputForeign(m) PROVE SessionInv'
  <2>1. m \in UdpMessage
    BY <1>5, Hy2UdpAssumption, Zenon DEF ForeignMessage, UdpMessage
  <2>2. /\ input(m) /\ network' \subseteq network /\ disturbed' = disturbed
        /\ UNCHANGED <<peer, next_packet_id, sent, delivered, spaced, trusted>>
    BY <1>5, Zenon DEF InputForeign
  <2>3. disturbed' \subseteq 1..MaxSends
    BY <2>2, Zenon DEF SessionInv, TypeOK
  <2> QED
    BY <2>1, <2>2, <2>3, InputKeeps, Zenon
<1>6. CASE Recv
  BY <1>6, RecvKeeps, Zenon
<1>7. CASE Age
  BY <1>7, AgeKeeps, Zenon
<1>8. CASE UNCHANGED vars
  <2>1. ReceiverInv'
    BY <1>8, ReceiverUnchanged, Zenon DEF vars, SessionInv, TypeOK, ReceiverInv
  <2> QED
    BY <1>8, <2>1 DEF vars, SessionInv, TypeOK, ReceiverInv, Totals, ForeignPeer
<1> QED
  BY <1>1, <1>2, <1>3, <1>4, <1>5, <1>6, <1>7, <1>8, Zenon DEF Next

\* A session starts with nothing sent and nothing received.
LEMMA SessionInit == Init => SessionInv
BY DefraggerAssumption, Hy2UdpAssumption
   DEF Init, ReceiverInit, SessionInv, TypeOK, ReceiverTypeOK, CountsAreExact, Totals, ForeignPeer

\* The state of a session is well formed and its fragment sets are in order,
\* against this crate or any other peer.
THEOREM SessionWellFormed == Spec => []WellFormed
<1>1. SessionInv => WellFormed
  BY Zenon DEF SessionInv, WellFormed
<1> QED
  BY <1>1, SessionInit, SessionStep, PTL DEF Spec

-----------------------------------------------------------------------------
(***************************************************************************)
(* Reassembly mixes packets of one id only.                                *)
(***************************************************************************)

\* What parts are made of does not depend on later packets.
LEMMA OfOneIdGrows ==
    ASSUME NEW parts, NEW id, NEW old, NEW new, OfOneId(parts, id, old),
           Len(old) \in Nat, Len(new) \in Nat, Len(old) <= Len(new),
           \A i \in 1..Len(old) : new[i] = old[i]
    PROVE  OfOneId(parts, id, new)
BY DEF OfOneId

\* The sets feed keeps, and what they hold.
LEMMA RetainedFacts ==
    /\ \A id : id \in DOMAIN Retained <=> Held(id)
    /\ \A id \in DOMAIN Retained : Retained[id] = fragments[id]
BY Zenon DEF Retained, Restrict, Held

\* The fields of the set a fragment leaves behind.
LEMMA FilledFacts ==
    ASSUME SessionInv, NEW m, IsFragment(m)
    PROVE  /\ DOMAIN SetFor(m).parts = 0..(m.fragment_total - 1)
           /\ DOMAIN Filled(m).parts = 0..(m.fragment_total - 1)
           /\ Filled(m).age = 0
           /\ Filled(m).destination = SetFor(m).destination
           /\ \A k \in 0..(m.fragment_total - 1) :
                 Filled(m).parts[k] =
                    IF k = m.fragment_id /\ SetFor(m).parts[k] = NoPart
                    THEN m.data ELSE SetFor(m).parts[k]
<1> DEFINE set == SetFor(m)
<1>1. ReceiverInv
  BY Zenon DEF SessionInv, TypeOK, ReceiverInv
<1>2. set \in FragmentSet /\ DOMAIN set.parts = 0..(m.fragment_total - 1)
  BY <1>1, SetForExact, Zenon
<1>3. PICK j \in 2..MaxFragments : DOMAIN set.parts = 0..(j - 1)
         /\ set.parts \in [0..(j - 1) -> Payloads \cup {NoPart}]
  BY <1>2, PartsShape, Zenon
<1>4. set.parts \in [0..(m.fragment_total - 1) -> Payloads \cup {NoPart}]
  BY <1>2, <1>3, Zenon
<1>5. CASE set.parts[m.fragment_id] = NoPart
  <2>1. Filled(m) = [set EXCEPT !.age = 0, !.parts[m.fragment_id] = m.data, !.received = @ + 1]
    BY <1>5, Zenon DEF Filled
  <2>2. /\ Filled(m).parts = [set.parts EXCEPT ![m.fragment_id] = m.data]
        /\ Filled(m).age = 0
        /\ Filled(m).destination = set.destination
    BY <1>2, <2>1, Zenon DEF FragmentSet
  <2> HIDE DEF set
  <2> QED
    BY <1>2, <1>4, <1>5, <2>2, Zenon DEF set
<1>6. CASE set.parts[m.fragment_id] # NoPart
  <2>1. Filled(m) = [set EXCEPT !.age = 0]
    BY <1>6, Zenon DEF Filled
  <2>2. /\ Filled(m).parts = set.parts
        /\ Filled(m).age = 0
        /\ Filled(m).destination = set.destination
    BY <1>2, <2>1, Zenon DEF FragmentSet
  <2> QED
    BY <1>2, <1>6, <2>2, Zenon
<1> QED
  BY <1>5, <1>6, Zenon

\* A fragment in flight joins chunks of its own id.
LEMMA FilledOfOneId ==
    ASSUME SessionInv, Unmixed, NEW m \in network, IsFragment(m)
    PROVE  OfOneId(Filled(m).parts, m.packet_id, sent)
<1> DEFINE n == m.data.packet
           total == m.fragment_total
<1>1. /\ n \in 1..Len(sent) /\ m.packet_id = sent[n].packet_id /\ total = sent[n].total
      /\ m.data = Chunk(n, sent[n], m.fragment_id) /\ peer = "crate"
      /\ m.fragment_id \in 0..(sent[n].total - 1)
  BY MessageFacts, Zenon
<1>2. m.data.index = m.fragment_id
  BY <1>1, FragmentFacts, Zenon
<1>3. OfOneId(SetFor(m).parts, m.packet_id, sent)
  <2>1. CASE SetFor(m) = EmptySet(m)
    BY <2>1 DEF EmptySet, OfOneId
  <2>2. CASE SetFor(m) # EmptySet(m)
    <3>1. m.packet_id \in DOMAIN Retained /\ SetFor(m) = Retained[m.packet_id]
      BY <2>2, Zenon DEF SetFor
    <3>2. m.packet_id \in DOMAIN fragments /\ SetFor(m) = fragments[m.packet_id]
      BY <3>1, RetainedFacts, Zenon DEF Held
    <3> QED
      BY <1>1, <3>2, Zenon DEF Unmixed
  <2> QED
    BY <2>1, <2>2, Zenon
<1>4. /\ DOMAIN SetFor(m).parts = 0..(total - 1)
      /\ DOMAIN Filled(m).parts = 0..(total - 1)
      /\ \A k \in 0..(total - 1) :
            Filled(m).parts[k] = IF k = m.fragment_id /\ SetFor(m).parts[k] = NoPart
                                 THEN m.data ELSE SetFor(m).parts[k]
  BY FilledFacts, Zenon
<1> QED
  BY <1>1, <1>2, <1>3, <1>4 DEF OfOneId

\* The packet a message completes is of one id.
LEMMA InputUnmixed ==
    ASSUME SessionInv, Unmixed, NEW m \in network, Input(m)
    PROVE  Unmixed'
<1>0. /\ m \in UdpMessage /\ peer = "crate" /\ peer' = peer /\ sent' = sent /\ delivered' = delivered
      /\ m.packet_id \in PacketIds /\ incoming \in Seq(Packet)
      /\ \A id \in DOMAIN fragments : OfOneId(fragments[id].parts, id, sent)
      /\ \A i \in 1..Len(incoming) : \E id \in PacketIds : OfOneId(incoming[i].data, id, sent)
      /\ \A i \in 1..Len(delivered) : \E id \in PacketIds : OfOneId(delivered[i].data, id, sent)
  BY MessageFacts, Zenon DEF Input, UdpMessage, Unmixed, SessionInv, TypeOK, ReceiverTypeOK
<1>1. ASSUME NEW packet, packet \in Packet, OfOneId(packet.data, m.packet_id, sent), TrySend(packet)
      PROVE  \A i \in 1..Len(incoming') : \E id \in PacketIds : OfOneId(incoming'[i].data, id, sent)
  <2>1. CASE Len(incoming) < QueueCap
    <3>1. incoming' = Append(incoming, packet)
      BY <1>1, <2>1, Zenon DEF TrySend
    <3>2. /\ Append(incoming, packet)[Len(incoming) + 1] = packet
          /\ \A i \in 1..Len(incoming) : Append(incoming, packet)[i] = incoming[i]
          /\ \A i \in 1..Len(Append(incoming, packet)) : i \in 1..Len(incoming) \/ i = Len(incoming) + 1
      BY <1>0, <1>1, AppendFacts
    <3> QED
      BY <1>0, <1>1, <3>1, <3>2, Zenon
  <2>2. CASE ~(Len(incoming) < QueueCap)
    BY <1>0, <1>1, <2>2, Zenon DEF TrySend
  <2> QED
    BY <2>1, <2>2, Zenon
<1>2. CASE InputWhole(m)
  <2> DEFINE packet == [data |-> [k \in {0} |-> m.data], destination |-> m.destination]
             n == m.data.packet
  <2>1. /\ n \in 1..Len(sent) /\ m.packet_id = sent[n].packet_id /\ m.fragment_total = sent[n].total
        /\ m.data = Chunk(n, sent[n], m.fragment_id)
        /\ m.fragment_id \in 0..(sent[n].total - 1) /\ sent[n].total \in 1..MaxFragments
    BY MessageFacts, SentFacts, Zenon
  <2>2. sent[n].total = 1 /\ m.fragment_id = 0 /\ {0} = 0..(1 - 1) /\ 1 \in 1..MaxFragments
    BY <1>2, <2>1, DefraggerAssumption DEF InputWhole
  <2>3. m.data.index = 0 /\ m.data \in Payloads /\ m.destination \in Addresses
    BY <1>0, <2>1, <2>2, FragmentFacts DEF UdpMessage
  <2>4. [k \in {0} |-> m.data] \in [0..(1 - 1) -> Payloads]
    BY <2>2, <2>3, Zenon
  <2>5. packet \in Packet
    BY <2>2, <2>3, <2>4, Zenon DEF Packet
  <2>6. OfOneId(packet.data, m.packet_id, sent)
    BY <2>1, <2>2, <2>3, Zenon DEF OfOneId
  <2>7. TrySend(packet) /\ fragments' = fragments
    BY <1>2, Zenon DEF InputWhole
  <2> HIDE DEF packet
  <2> QED
    BY <1>0, <1>1, <2>5, <2>6, <2>7, Zenon DEF Unmixed
<1>3. CASE InputIgnored(m)
  BY <1>0, <1>3, Zenon DEF InputIgnored, Unmixed
<1>4. CASE InputPartial(m)
  <2>1. IsFragment(m)
    BY <1>0, <1>4, Zenon DEF InputPartial, IsFragment
  <2>2. \A id \in DOMAIN fragments' : OfOneId(fragments'[id].parts, id, sent)
    BY <1>0, <1>4, <2>1, FilledOfOneId, RetainedFacts, Zenon DEF InputPartial, Put, Held
  <2> QED
    BY <1>0, <1>4, <2>2, Zenon DEF Unmixed, InputPartial
<1>5. CASE InputComplete(m)
  <2> DEFINE packet == [data |-> Filled(m).parts, destination |-> Filled(m).destination]
  <2>1. IsFragment(m) /\ Filled(m).received = m.fragment_total /\ ReceiverInv
    BY <1>0, <1>5, Zenon DEF InputComplete, IsFragment, SessionInv, TypeOK, ReceiverInv
  <2>2. \A id \in DOMAIN fragments' : OfOneId(fragments'[id].parts, id, sent)
    BY <1>0, <1>5, RetainedFacts, Zenon DEF InputComplete, Restrict, Held
  <2>3. packet \in Packet
    BY <2>1, CompleteIsFull, Zenon
  <2>4. OfOneId(packet.data, m.packet_id, sent)
    BY <2>1, FilledOfOneId, Zenon
  <2>5. TrySend(packet) \/ incoming' = incoming
    BY <1>5, Zenon DEF InputComplete
  <2> HIDE DEF packet
  <2>6. \A i \in 1..Len(incoming') : \E id \in PacketIds : OfOneId(incoming'[i].data, id, sent)
    BY <1>0, <1>1, <2>3, <2>4, <2>5, Zenon
  <2> QED
    BY <1>0, <2>2, <2>6, Zenon DEF Unmixed
<1> QED
  BY <1>2, <1>3, <1>4, <1>5, Zenon DEF Input, input

\* Every step keeps packets of different ids apart.
LEMMA UnmixedStep == SessionInv /\ Unmixed /\ [Next]_vars => Unmixed'
<1> SUFFICES ASSUME SessionInv, Unmixed, [Next]_vars, peer' = "crate" PROVE Unmixed'
  BY Zenon DEF Unmixed
<1>1. ASSUME NEW destination \in Addresses, NEW length \in 0..MaxUdpSize, NEW room \in Rooms,
             NEW queued \in 0..MaxFragments, Send(destination, length, room, queued)
      PROVE  Unmixed'
  <2>1. /\ UNCHANGED <<fragments, incoming, delivered>> /\ peer = "crate"
    BY <1>1, Zenon DEF Send, receiverVars
  <2>2. /\ Len(sent) \in Nat /\ Len(sent') \in Nat /\ Len(sent) <= Len(sent')
        /\ \A i \in 1..Len(sent) : sent'[i] = sent[i]
    BY <1>1, SendFacts
  <2>3. ASSUME NEW parts, NEW id, OfOneId(parts, id, sent) PROVE OfOneId(parts, id, sent')
    BY <2>2, <2>3, OfOneIdGrows, Zenon
  <2> QED
    BY <2>1, <2>3, Zenon DEF Unmixed
<1>2. ASSUME NEW m \in network, Input(m) PROVE Unmixed'
  BY <1>2, InputUnmixed, Zenon
<1>3. CASE Recv
  <2>1. /\ incoming \in Seq(Packet) /\ incoming # <<>> /\ delivered \in Seq(Packet) /\ peer = "crate"
        /\ incoming' = Tail(incoming) /\ delivered' = Append(delivered, Head(incoming))
        /\ fragments' = fragments /\ sent' = sent
    BY <1>3, Zenon DEF Recv, recv, SessionInv, TypeOK, ReceiverTypeOK
  <2>2. /\ Head(incoming) = incoming[1] /\ 1 \in 1..Len(incoming) /\ Head(incoming) \in Packet
        /\ \A i \in 1..Len(incoming') : i + 1 \in 1..Len(incoming) /\ incoming'[i] = incoming[i + 1]
    BY <2>1, HeadTailFacts, Zenon
  <2>3. /\ delivered'[Len(delivered) + 1] = Head(incoming)
        /\ \A i \in 1..Len(delivered) : delivered'[i] = delivered[i]
        /\ \A i \in 1..Len(delivered') : i \in 1..Len(delivered) \/ i = Len(delivered) + 1
    BY <2>1, <2>2, AppendFacts
  <2> QED
    BY <2>1, <2>2, <2>3 DEF Unmixed
<1>4. CASE Age
  <2>1. /\ DOMAIN fragments' = DOMAIN fragments
        /\ UNCHANGED <<incoming, delivered, sent, peer>>
    BY <1>4, Zenon DEF Age, Tick
  <2>2. \A id \in DOMAIN fragments : fragments'[id].parts = fragments[id].parts
    BY <1>4, Zenon DEF Age, Tick, SessionInv, TypeOK, ReceiverTypeOK, FragmentSet
  <2> QED
    BY <2>1, <2>2, Zenon DEF Unmixed
<1>5. ASSUME NEW m \in ForeignMessage, InputForeign(m) PROVE Unmixed'
  BY <1>5, Zenon DEF InputForeign
<1>6. CASE SendRejected \/ (\E m \in network : Lose(m)) \/ UNCHANGED vars
  BY <1>6, Zenon DEF SendRejected, Lose, vars, receiverVars, Unmixed
<1> QED
  BY <1>1, <1>2, <1>3, <1>4, <1>5, <1>6, Zenon DEF Next

\* The elements of a concatenation.
LEMMA ConcatFacts ==
    ASSUME NEW S, NEW q \in Seq(S), NEW r \in Seq(S), NEW i \in 1..Len(q \o r)
    PROVE  \/ i \in 1..Len(q) /\ (q \o r)[i] = q[i]
           \/ i - Len(q) \in 1..Len(r) /\ (q \o r)[i] = r[i - Len(q)]
OBVIOUS

\* Without any assumption on ids, a packet that is passed on may mix packets
\* only if they have its id and its fragment count.
THEOREM SessionMixesOnlyOneId == Spec => []MixesOnlyOneId
<1>1. Init => Unmixed
  BY DEF Init, ReceiverInit, Unmixed
<1>2. SessionInv /\ Unmixed => MixesOnlyOneId
  <2> SUFFICES ASSUME SessionInv, Unmixed, peer = "crate", NEW i \in 1..Len(Assembled),
                      NEW k \in DOMAIN Assembled[i].data, NEW l \in DOMAIN Assembled[i].data
               PROVE  /\ Assembled[i].data[k].index = k
                      /\ sent[Assembled[i].data[k].packet].total = Cardinality(DOMAIN Assembled[i].data)
                      /\ sent[Assembled[i].data[k].packet].packet_id
                            = sent[Assembled[i].data[l].packet].packet_id
    BY Zenon DEF MixesOnlyOneId
  <2> DEFINE data == Assembled[i].data
  <2>1. delivered \in Seq(Packet) /\ incoming \in Seq(Packet)
    BY Zenon DEF SessionInv, TypeOK, ReceiverTypeOK
  <2>2. \/ \E j \in 1..Len(delivered) : Assembled[i] = delivered[j]
        \/ \E j \in 1..Len(incoming) : Assembled[i] = incoming[j]
    BY <2>1, ConcatFacts DEF Assembled
  <2>3. PICK id \in PacketIds : OfOneId(data, id, sent)
    BY <2>2, Zenon DEF Unmixed
  <2>4. Assembled[i] \in Packet
    BY <2>1, <2>2, ElementType, Zenon
  <2>5. data[k] \in Payloads /\ data[l] \in Payloads
    BY <2>4, Zenon DEF Packet
  <2>6. data[k] # NoPart /\ data[l] # NoPart
    BY <2>5, DefraggerAssumption, Zenon
  <2>7. /\ data[k].packet \in 1..Len(sent) /\ data[k].index = k
        /\ sent[data[k].packet].packet_id = id /\ sent[data[l].packet].packet_id = id
        /\ DOMAIN data = 0..(sent[data[k].packet].total - 1)
    BY <2>3, <2>6, Zenon DEF OfOneId
  <2>8. sent[data[k].packet].total \in Nat
    BY <2>7, SentFacts, DefraggerAssumption
  <2>9. Cardinality(DOMAIN data) = sent[data[k].packet].total
    BY <2>7, <2>8, SlotsFinite, Zenon
  <2> QED
    BY <2>7, <2>9, Zenon
<1> QED
  BY <1>1, <1>2, SessionInit, SessionStep, UnmixedStep, PTL DEF Spec
=============================================================================
