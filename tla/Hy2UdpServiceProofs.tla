------------------------- MODULE Hy2UdpServiceProofs -------------------------
(***************************************************************************)
(* Proofs about a Hysteria2 UDP session whose ids are spaced, for any id   *)
(* space, any lengths and any fragment limits: it withholds nothing and    *)
(* implements DatagramService. Two facts carry the argument: an unexpired  *)
(* fragment set gathers chunks of one packet only, and the chunks of a     *)
(* packet add up to its length.                                            *)
(***************************************************************************)
EXTENDS Hy2UdpProofs, WellFoundedInduction

\* No later packet has the id of packet n.
Latest(n) == \A j \in 1..Len(sent) : j > n => sent[j].packet_id # sent[n].packet_id

\* The set of id gathers the chunks of packet n, and of no other.
Gathers(id, n) ==
    /\ sent[n].packet_id = id
    /\ Latest(n)
    /\ fragments[id].destination = sent[n].destination
    /\ DOMAIN fragments[id].parts = 0..(sent[n].total - 1)
    /\ \A k \in DOMAIN fragments[id].parts :
          fragments[id].parts[k] \in {NoPart, Chunk(n, sent[n], k)}

\* Packet n is complete: it waits in the channel or recv has returned it.
PassedOn(n) ==
    \/ \E i \in 1..Len(incoming) : incoming[i] = Whole(n, sent[n])
    \/ \E i \in 1..Len(delivered) : delivered[i] = Whole(n, sent[n])

\* Fragment k of packet n is on its way or in the receiver's set.
Alive(n, k) ==
    \/ Fragment(n, sent[n], k) \in network
    \/ /\ Held(sent[n].packet_id)
       /\ k \in DOMAIN fragments[sent[n].packet_id].parts
       /\ fragments[sent[n].packet_id].parts[k] = Chunk(n, sent[n], k)

\* Messages in flight are of the latest packet of their id, their slots are
\* empty, and each unexpired set gathers one such packet.
Pure ==
    /\ \A m \in network :
          /\ Latest(m.data.packet)
          /\ Held(m.packet_id) => fragments[m.packet_id].parts[m.fragment_id] = NoPart
    /\ \A id \in PacketIds : Held(id) => \E n \in 1..Len(sent) : Gathers(id, n)

\* What has been passed on is a whole packet, passed on once, and nothing of
\* it is left on the way.
IsWhole(packet) == \E n \in 1..Len(sent) : packet = Whole(n, sent[n])

Once ==
    /\ \A i \in 1..Len(incoming) : IsWhole(incoming[i])
    /\ \A i \in 1..Len(delivered) : IsWhole(delivered[i])
    /\ \A i, j \in 1..Len(incoming) : i # j => incoming[i] # incoming[j]
    /\ \A i \in 1..Len(incoming), j \in 1..Len(delivered) : incoming[i] # delivered[j]
    /\ \A n \in 1..Len(sent) : PassedOn(n) =>
          \A k \in 0..(sent[n].total - 1) : ~Alive(n, k)
    /\ trusted = Len(delivered)

\* A packet nothing happened to is passed on, or all of it is on its way.
Accounted ==
    /\ open
    /\ \A n \in 1..Len(sent) :
          \/ n \in disturbed
          \/ PassedOn(n)
          \/ \A k \in 0..(sent[n].total - 1) : Alive(n, k)

\* The inductive invariant behind ServiceSpec and NothingWithheld.
SpacedInv == spaced /\ peer = "crate" => Pure /\ Once /\ Accounted

-----------------------------------------------------------------------------
(***************************************************************************)
(* The length of a reassembled packet is the length that was sent.         *)
(***************************************************************************)

\* A set of natural numbers has a least element.
LEMMA LeastExists ==
    ASSUME NEW T \in SUBSET Nat, T # {}
    PROVE  \E x \in T : \A y \in T : x <= y
<1> DEFINE R == OpToRel(<, Nat)
<1>1. IsWellFoundedOn(R, Nat)
  BY NatLessThanWellFounded, Zenon
<1>2. ASSUME NEW x \in Nat, NEW y \in Nat, y < x
      PROVE  <<y, x>> \in R
  BY <1>2, Zenon DEF OpToRel
<1> HIDE DEF R
<1>3. PICK x \in T : \A y \in T : <<y, x>> \notin R
  BY <1>1, WFMin, Zenon
<1>4. ASSUME NEW y \in T
      PROVE  x <= y
  <2>1. x \in Nat /\ y \in Nat
    BY Zenon
  <2>2. ~(y < x)
    BY <1>2, <1>3, <2>1, Zenon
  <2> QED
    BY <2>1, <2>2
<1> QED
  BY <1>4, Zenon

\* g adds up the sizes of the parts at a set of positions one by one, in
\* whatever order.
AddsUp(g, parts, D) ==
    /\ g \in [SUBSET D -> Nat]
    /\ g[{}] = 0
    /\ \A s \in SUBSET D : \A x \in s : g[s] = parts[x].size + g[s \ {x}]

\* Such a function gives the length of the whole.
LEMMA LengthIsSum ==
    ASSUME NEW parts, NEW D, D = DOMAIN parts, IsFiniteSet(D), NEW g, AddsUp(g, parts, D)
    PROVE  Length(parts) = g[D]
<1>0. /\ g \in [SUBSET D -> Nat]
      /\ g[{}] = 0
      /\ \A s \in SUBSET D : \A x \in s : g[s] = parts[x].size + g[s \ {x}]
  BY Zenon DEF AddsUp
<1> DEFINE pick(s) == CHOOSE x \in s : TRUE
           next(f, s) == IF s = {} THEN 0 ELSE parts[pick(s)].size + f[s \ {pick(s)}]
           h == CHOOSE f : f = [s \in SUBSET D |-> next(f, s)]
<1>1. Length(parts) = h[D]
  BY Zenon DEF Length, MapThenSumSet, MapThenFoldSet
<1>2. \A s \in SUBSET D : s # {} => pick(s) \in s
  BY Zenon
<1> HIDE DEF pick
<1>3. g = [s \in SUBSET D |-> next(g, s)]
  <2>1. \A s \in SUBSET D : g[s] = next(g, s)
    BY <1>0, <1>2, Zenon
  <2> HIDE DEF next
  <2> QED
    BY <1>0, <2>1, Zenon
<1>4. h = [s \in SUBSET D |-> next(h, s)]
  <2> HIDE DEF next
  <2> QED
    BY <1>3, Zenon
<1> HIDE DEF h
<1>5. \A s \in SUBSET D : h[s] = next(h, s)
  <2> HIDE DEF next
  <2> QED
    BY <1>4, Zenon
<1>6. \A s \in SUBSET D : h[s] = g[s]
  <2> DEFINE Wrong == {s \in SUBSET D : h[s] # g[s]}
             T == {Cardinality(s) : s \in Wrong}
  <2> SUFFICES ASSUME Wrong # {} PROVE FALSE
    BY Zenon
  <2>1. \A s \in SUBSET D : IsFiniteSet(s) /\ Cardinality(s) \in Nat
    BY FS_Subset, FS_CardinalityType, Zenon
  <2>2. PICK c \in T : \A y \in T : c <= y
    <3>1. T \in SUBSET Nat /\ T # {}
      BY <2>1, Zenon
    <3> HIDE DEF T
    <3> QED
      BY <3>1, LeastExists, Zenon
  <2>3. PICK s \in Wrong : c = Cardinality(s)
    BY Zenon
  <2>4. s # {}
    BY <1>0, <1>5, <2>3, Zenon
  <2> DEFINE x == pick(s)
             rest == s \ {x}
  <2>5. x \in s /\ rest \in SUBSET D
    BY <1>2, <2>4, Zenon
  <2>6. Cardinality(rest) = Cardinality(s) - 1
    BY <2>1, <2>5, FS_RemoveElement, Zenon
  <2>7. Cardinality(rest) \in Nat /\ Cardinality(s) \in Nat
    BY <2>1, <2>5, Zenon
  <2>8. rest \notin Wrong
    <3> SUFFICES ASSUME rest \in Wrong PROVE FALSE
      BY Zenon
    <3>1. Cardinality(rest) \in T
      BY Zenon
    <3> HIDE DEF T, Wrong, rest
    <3>2. c <= Cardinality(rest)
      BY <2>2, <3>1, Zenon
    <3> QED
      BY <2>3, <2>6, <2>7, <3>2
  <2>9. h[rest] = g[rest]
    BY <2>5, <2>8, Zenon
  <2>10. h[s] = parts[x].size + h[rest]
    BY <1>5, <2>4, Zenon
  <2>11. g[s] = parts[x].size + g[rest]
    BY <1>0, <2>5, Zenon
  <2> QED
    BY <2>3, <2>9, <2>10, <2>11, Zenon
<1> QED
  BY <1>1, <1>6, Zenon

\* The chunks of a packet add up to its length.
LEMMA LengthOfWhole ==
    ASSUME SessionInv, NEW n \in 1..Len(sent)
    PROVE  Length(Whole(n, sent[n]).data) = sent[n].length
<1> DEFINE p == sent[n]
           D == 0..(p.total - 1)
           last == p.total - 1
           tail == p.length - last * p.room
           parts == Whole(n, p).data
           full(s) == Cardinality(s \ {last})
           sum(s) == full(s) * p.room + (IF last \in s THEN tail ELSE 0)
           g == [s \in SUBSET D |-> sum(s)]
<1>1. /\ p.length \in Nat /\ p.room \in Nat \ {0} /\ p.total \in Nat \ {0}
      /\ p.total = FragmentTotal(p.length, p.room)
  BY SentFacts, DefraggerAssumption
<1>2. /\ \A k \in D : k * p.room \in Nat /\ k * p.room <= p.length
      /\ \A k \in 0..(p.total - 2) : p.room <= p.length - k * p.room
      /\ last * p.room \in Nat /\ tail <= p.room
  BY <1>1, TotalFacts, Zenon
<1>3. parts = [k \in D |-> Chunk(n, p, k)] /\ DOMAIN parts = D
  BY Zenon DEF Whole
<1>4. \A k \in D : parts[k].size = IF k = last THEN tail ELSE p.room
  <2> TAKE k \in D
  <2>1. parts[k].size = IF p.length - k * p.room < p.room THEN p.length - k * p.room ELSE p.room
    BY <1>3 DEF Chunk
  <2>2. CASE k = last
    <3>1. tail \in Int
      BY <1>1, <1>2
    <3> QED
      BY <1>1, <1>2, <2>1, <2>2, <3>1
  <2>3. CASE k # last
    <3>1. k \in 0..(p.total - 2)
      BY <1>1, <2>3
    <3>2. p.room <= p.length - k * p.room /\ k * p.room \in Nat
      BY <1>2, <3>1, Zenon
    <3> QED
      BY <1>1, <2>1, <2>3, <3>2
  <2> QED
    BY <2>2, <2>3, Zenon
<1>5. tail \in Nat /\ last \in D
  BY <1>1, <1>2
<1>6. IsFiniteSet(D) /\ Cardinality(D) = p.total
  BY <1>1, SlotsFinite, Zenon
<1>7. \A s \in SUBSET D : IsFiniteSet(s) /\ IsFiniteSet(s \ {last}) /\ full(s) \in Nat
  BY <1>6, FS_Subset, FS_CardinalityType, Zenon
<1> HIDE DEF p, D, last, tail, parts
<1>8. ASSUME NEW s \in SUBSET D
      PROVE  sum(s) \in Nat
  <2>1. full(s) \in Nat /\ p.room \in Nat
    BY <1>1, <1>7, Zenon
  <2> HIDE DEF full
  <2>2. full(s) * p.room \in Nat
    BY <2>1
  <2> QED
    BY <1>5, <2>2
<1>9. g \in [SUBSET D -> Nat]
  <2> HIDE DEF sum
  <2> QED
    BY <1>8, Zenon
<1>10. g[{}] = 0
  <2>1. sum({}) = 0
    <3>1. full({}) = 0
      BY FS_EmptySet, Zenon
    <3>2. 0 * p.room = 0
      BY <1>1
    <3> QED
      BY <3>1, <3>2
  <2> QED
    BY <2>1, Zenon
<1>11. ASSUME NEW s \in SUBSET D, NEW x \in s
       PROVE  g[s] = parts[x].size + g[s \ {x}]
  <2> DEFINE rest == s \ {x}
  <2>0. /\ rest \in SUBSET D /\ x \in D /\ full(s) \in Nat /\ full(rest) \in Nat
        /\ g[s] = sum(s) /\ g[rest] = sum(rest) /\ p.room \in Nat
    BY <1>1, <1>7, Zenon
  <2>1. CASE x = last
    <3>1. rest \ {last} = s \ {last} /\ last \in s /\ last \notin rest
      BY <2>1, Zenon
    <3>2. sum(s) = full(s) * p.room + tail /\ sum(rest) = full(s) * p.room + 0
      BY <3>1, Zenon
    <3>3. parts[x].size = tail
      BY <1>4, <2>0, <2>1, Zenon
    <3> HIDE DEF full, sum
    <3>4. full(s) * p.room \in Nat
      BY <2>0
    <3> QED
      BY <1>5, <2>0, <3>2, <3>3, <3>4
  <2>2. CASE x # last
    <3>1. rest \ {last} = (s \ {last}) \ {x} /\ x \in s \ {last}
      BY <2>2, Zenon
    <3>2. full(rest) = full(s) - 1
      <4>1. IsFiniteSet(s \ {last})
        BY <1>7, Zenon
      <4>2. Cardinality((s \ {last}) \ {x}) = Cardinality(s \ {last}) - 1
        BY <3>1, <4>1, FS_RemoveElement, Zenon
      <4> QED
        BY <3>1, <4>2, Zenon
    <3>3. parts[x].size = p.room
      BY <1>4, <2>0, <2>2, Zenon
    <3>4. last \in s <=> last \in rest
      BY <2>2, Zenon
    <3> DEFINE end == IF last \in s THEN tail ELSE 0
    <3>5. sum(s) = full(s) * p.room + end /\ sum(rest) = full(rest) * p.room + end /\ end \in Nat
      BY <1>5, <3>4, Zenon
    <3> HIDE DEF full, sum, end, rest
    <3>6. (full(s) - 1) * p.room = full(s) * p.room - p.room /\ full(s) * p.room \in Nat
      BY <2>0
    <3> QED
      BY <2>0, <3>2, <3>3, <3>5, <3>6, SMTT(20) DEF rest
  <2> QED
    BY <2>1, <2>2, Zenon
<1>12. Length(parts) = g[D]
  <2>1. \A s \in SUBSET D : \A x \in s : g[s] = parts[x].size + g[s \ {x}]
    BY <1>11, Zenon
  <2> HIDE DEF g
  <2>2. D = DOMAIN parts /\ IsFiniteSet(D)
    BY <1>3, <1>6, Zenon
  <2>3. AddsUp(g, parts, D)
    BY <1>9, <1>10, <2>1, Zenon DEF AddsUp
  <2> QED
    BY <2>2, <2>3, LengthIsSum, Zenon
<1>13. g[D] = p.length
  <2>1. full(D) = last
    <3>1. Cardinality(D \ {last}) = Cardinality(D) - 1
      BY <1>5, <1>6, FS_RemoveElement, Zenon
    <3> QED
      BY <1>6, <3>1, Zenon DEF last
  <2>2. sum(D) = last * p.room + tail
    BY <1>5, <2>1, Zenon
  <2>3. last * p.room + tail = p.length
    BY <1>1, <1>2 DEF tail
  <2> QED
    BY <2>2, <2>3, Zenon
<1> QED
  BY <1>12, <1>13, Zenon DEF parts, p

-----------------------------------------------------------------------------
(***************************************************************************)
(* As long as ids are spaced, reassembly is exact.                         *)
(***************************************************************************)

\* A whole packet determines its number.
LEMMA WholeNumber ==
    ASSUME NEW i, NEW p, NEW j, NEW q, p.total \in Nat \ {0}, q.total \in Nat \ {0},
           Whole(i, p) = Whole(j, q)
    PROVE  i = j
<1>1. 0 \in 0..(p.total - 1) /\ 0 \in 0..(q.total - 1)
  OBVIOUS
<1>2. Whole(i, p).data[0].packet = i
  BY <1>1, Zenon DEF Whole, Chunk
<1>3. Whole(j, q).data[0].packet = j
  BY <1>1, Zenon DEF Whole, Chunk
<1> QED
  BY <1>2, <1>3, Zenon

\* So does a packet of the history.
LEMMA WholeOnce ==
    ASSUME SessionInv, NEW i \in 1..Len(sent), NEW j \in 1..Len(sent),
           Whole(i, sent[i]) = Whole(j, sent[j])
    PROVE  i = j
<1>1. sent[i].total \in Nat \ {0} /\ sent[j].total \in Nat \ {0}
  BY SentFacts, DefraggerAssumption
<1> QED
  BY <1>1, WholeNumber, Zenon

\* A whole packet has the type of what recv returns.
LEMMA WholeType ==
    ASSUME SessionInv, NEW n \in 1..Len(sent)
    PROVE  Whole(n, sent[n]) \in Packet
<1> DEFINE total == sent[n].total
<1>1. total \in 1..MaxFragments /\ sent[n].destination \in Addresses
  BY SentFacts, Zenon
<1>2. [k \in 0..(total - 1) |-> Chunk(n, sent[n], k)] \in [0..(total - 1) -> Payloads]
  BY FragmentFacts, Zenon
<1> QED
  BY <1>1, <1>2, Zenon DEF Whole, Packet

\* Two packets with one id are not both its latest.
LEMMA OneLatest ==
    ASSUME SessionInv, NEW i \in 1..Len(sent), NEW j \in 1..Len(sent),
           Latest(i), Latest(j), sent[i].packet_id = sent[j].packet_id
    PROVE  i = j
<1>1. Len(sent) \in Nat
  BY ElementType, Zenon DEF SessionInv, TypeOK
<1> QED
  BY <1>1 DEF Latest

\* A step that passes nothing on keeps the accounts when it revives no
\* fragment, and takes a fragment only from a packet it disturbs.
LEMMA NothingPassed ==
    ASSUME Once, Accounted, UNCHANGED <<sent, incoming, delivered, trusted, open>>,
           disturbed \subseteq disturbed',
           \A j \in 1..Len(sent) : \A k \in 0..(sent[j].total - 1) :
               /\ Alive(j, k)' => Alive(j, k)
               /\ Alive(j, k) => Alive(j, k)' \/ j \in disturbed'
    PROVE  Once' /\ Accounted'
<1>1. \A j : PassedOn(j)' <=> PassedOn(j)
  BY Zenon DEF PassedOn
<1>2. \A x : IsWhole(x)' <=> IsWhole(x)
  BY Zenon DEF IsWhole
<1>3. Once'
  BY <1>1, <1>2, Zenon DEF Once
<1>4. Accounted'
  BY <1>1, Zenon DEF Accounted
<1> QED
  BY <1>3, <1>4, Zenon

\* A step that passes packet n on keeps the accounts when it leaves nothing
\* of n and does not touch the others.
LEMMA PassingOn ==
    ASSUME SessionInv, Once, Accounted, NEW n \in 1..Len(sent), ~PassedOn(n),
           TrySend(Whole(n, sent[n])), UNCHANGED <<sent, delivered, trusted, open>>,
           disturbed \subseteq disturbed', Len(incoming) = QueueCap => n \in disturbed',
           \A k \in 0..(sent[n].total - 1) : ~Alive(n, k)',
           \A j \in 1..Len(sent) : \A k \in 0..(sent[j].total - 1) :
               j # n => (Alive(j, k)' <=> Alive(j, k))
    PROVE  Once' /\ Accounted'
<1> DEFINE w == Whole(n, sent[n])
<1>0. /\ incoming \in Seq(Packet) /\ Len(incoming) <= QueueCap /\ w \in Packet
      /\ QueueCap \in Nat /\ Len(incoming) \in Nat
  BY WholeType, DefraggerAssumption, ElementType, Zenon DEF SessionInv, TypeOK, ReceiverTypeOK
<1>1. \A x : IsWhole(x)' <=> IsWhole(x)
  BY Zenon DEF IsWhole
<1>2. CASE Len(incoming) < QueueCap
  <2>1. incoming' = Append(incoming, w)
    BY <1>2, Zenon DEF TrySend
  <2>2. /\ Len(incoming') = Len(incoming) + 1 /\ incoming'[Len(incoming) + 1] = w
        /\ \A i \in 1..Len(incoming) : i \in 1..Len(incoming') /\ incoming'[i] = incoming[i]
        /\ \A i \in 1..Len(incoming') : i \in 1..Len(incoming) \/ i = Len(incoming) + 1
    BY <1>0, <2>1, AppendFacts
  <2>3. /\ \A i \in 1..Len(incoming) : incoming[i] # w
        /\ \A i \in 1..Len(delivered) : delivered[i] # w
    BY Zenon DEF PassedOn
  <2> HIDE DEF w
  <2>4. \A j \in 1..Len(sent) : PassedOn(j)' <=> (PassedOn(j) \/ j = n)
    <3> TAKE j \in 1..Len(sent)
    <3>1. CASE j = n
      <4>1. Len(incoming) + 1 \in 1..Len(incoming')
        BY <1>0, <2>2
      <4> QED
        BY <2>2, <3>1, <4>1, Zenon DEF PassedOn, w
    <3>2. CASE j # n
      <4>1. Whole(j, sent[j]) # w
        BY <3>2, WholeOnce, Zenon DEF w
      <4> QED
        BY <2>2, <3>2, <4>1, Zenon DEF PassedOn
    <3> QED
      BY <3>1, <3>2, Zenon
  <2>5. IsWhole(w)
    BY Zenon DEF IsWhole, w
  <2>6. /\ \A i \in 1..Len(incoming') : IsWhole(incoming'[i])
        /\ \A i \in 1..Len(delivered) : IsWhole(delivered[i])
    BY <2>2, <2>5, Zenon DEF Once
  <2>7. \A i, j \in 1..Len(incoming') : i # j => incoming'[i] # incoming'[j]
    BY <2>2, <2>3 DEF Once
  <2>8. \A i \in 1..Len(incoming'), j \in 1..Len(delivered) : incoming'[i] # delivered[j]
    BY <2>2, <2>3, Zenon DEF Once
  <2>9. \A j \in 1..Len(sent) : PassedOn(j)' => \A k \in 0..(sent[j].total - 1) : ~Alive(j, k)'
    BY <2>4, Zenon DEF Once
  <2>10. Once'
    BY <1>1, <2>6, <2>7, <2>8, <2>9 DEF Once
  <2>11. Accounted'
    BY <2>4, Zenon DEF Accounted
  <2> QED
    BY <2>10, <2>11, Zenon
<1>3. CASE ~(Len(incoming) < QueueCap)
  <2>1. incoming' = incoming /\ n \in disturbed'
    BY <1>0, <1>3 DEF TrySend
  <2>2. \A j \in 1..Len(sent) : PassedOn(j)' <=> PassedOn(j)
    BY <2>1, Zenon DEF PassedOn
  <2>3. Once'
    BY <1>1, <2>1, <2>2 DEF Once
  <2>4. Accounted'
    BY <2>1, <2>2, Zenon DEF Accounted
  <2> QED
    BY <2>3, <2>4, Zenon
<1> QED
  BY <1>2, <1>3, Zenon

\* What holds when a message of packet n is taken from the network.
LEMMA TakenFacts ==
    ASSUME SessionInv, Pure, Once, NEW m \in network
    PROVE  LET n == m.data.packet IN
           /\ Latest(n) /\ ~PassedOn(n)
           /\ Held(m.packet_id) => /\ Gathers(m.packet_id, n)
                                   /\ fragments[m.packet_id].parts[m.fragment_id] = NoPart
           /\ \A o \in network : o.packet_id = m.packet_id => o.data.packet = n
           /\ \A j \in 1..Len(sent) : \A k \in 0..(sent[j].total - 1) :
                 Alive(j, k) /\ sent[j].packet_id = m.packet_id => j = n
<1> DEFINE n == m.data.packet
<1>1. /\ n \in 1..Len(sent) /\ m.fragment_id \in 0..(sent[n].total - 1)
      /\ m.packet_id = sent[n].packet_id /\ m = Fragment(n, sent[n], m.fragment_id)
      /\ m.packet_id \in PacketIds
  BY MessageFacts, Zenon DEF UdpMessage
<1>2. Latest(n)
  BY Zenon DEF Pure
<1>3. Alive(n, m.fragment_id)
  BY <1>1, Zenon DEF Alive
<1>4. ~PassedOn(n)
  BY <1>1, <1>3, Zenon DEF Once
<1>5. ASSUME Held(m.packet_id)
      PROVE  /\ Gathers(m.packet_id, n)
             /\ fragments[m.packet_id].parts[m.fragment_id] = NoPart
  <2>1. PICK j \in 1..Len(sent) : Gathers(m.packet_id, j)
    BY <1>1, <1>5, Zenon DEF Pure
  <2>2. j = n
    BY <1>1, <1>2, <2>1, OneLatest, Zenon DEF Gathers
  <2> QED
    BY <1>5, <2>1, <2>2, Zenon DEF Pure
<1>6. ASSUME NEW o \in network, o.packet_id = m.packet_id
      PROVE  o.data.packet = n
  <2>1. /\ o.data.packet \in 1..Len(sent) /\ o.packet_id = sent[o.data.packet].packet_id
        /\ Latest(o.data.packet)
    BY MessageFacts, Zenon DEF Pure
  <2> QED
    BY <1>1, <1>2, <1>6, <2>1, OneLatest, Zenon
<1>7. ASSUME NEW j \in 1..Len(sent), NEW k \in 0..(sent[j].total - 1),
             Alive(j, k), sent[j].packet_id = m.packet_id
      PROVE  j = n
  <2>1. CASE Fragment(j, sent[j], k) \in network
    <3>1. /\ Fragment(j, sent[j], k).packet_id = sent[j].packet_id
          /\ Fragment(j, sent[j], k).data.packet = j
      BY Zenon DEF Fragment, Chunk
    <3> QED
      BY <1>6, <1>7, <2>1, <3>1, Zenon
  <2>2. CASE /\ Held(sent[j].packet_id)
             /\ k \in DOMAIN fragments[sent[j].packet_id].parts
             /\ fragments[sent[j].packet_id].parts[k] = Chunk(j, sent[j], k)
    <3>1. Chunk(j, sent[j], k) \in {NoPart, Chunk(n, sent[n], k)}
      BY <1>5, <1>7, <2>2, Zenon DEF Gathers
    <3>2. Chunk(j, sent[j], k) # NoPart /\ Chunk(j, sent[j], k).packet = j
      BY FragmentFacts, Zenon
    <3>3. Chunk(n, sent[n], k).packet = n
      BY Zenon DEF Chunk
    <3> QED
      BY <3>1, <3>2, <3>3, Zenon
  <2> QED
    BY <1>7, <2>1, <2>2, Zenon DEF Alive
<1> QED
  BY <1>2, <1>4, <1>5, <1>6, <1>7, Zenon

\* The set a fragment goes to gathers its packet, and its slot is empty.
LEMMA TakenSet ==
    ASSUME SessionInv, Pure, Once, NEW m \in network, IsFragment(m)
    PROVE  LET n == m.data.packet
               p == sent[n]
               id == m.packet_id
           IN  /\ SetFor(m).destination = p.destination
               /\ SetFor(m).parts[m.fragment_id] = NoPart
               /\ \A k \in 0..(p.total - 1) :
                     SetFor(m).parts[k] = IF Held(id) THEN fragments[id].parts[k] ELSE NoPart
               /\ \A k \in 0..(p.total - 1) : SetFor(m).parts[k] \in {NoPart, Chunk(n, p, k)}
<1> DEFINE n == m.data.packet
           p == sent[n]
           id == m.packet_id
<1>1. /\ n \in 1..Len(sent) /\ m.fragment_id \in 0..(p.total - 1) /\ m.fragment_total = p.total
      /\ id = p.packet_id /\ m.destination = p.destination
  BY MessageFacts, Zenon
<1>2. Held(id) => Gathers(id, n) /\ fragments[id].parts[m.fragment_id] = NoPart
  BY TakenFacts, Zenon
<1>3. CASE Held(id)
  <2>1. SetFor(m) = fragments[id]
    BY <1>1, <1>2, <1>3, RetainedFacts, Zenon DEF SetFor, Gathers
  <2> QED
    BY <1>1, <1>2, <1>3, <2>1, Zenon DEF Gathers
<1>4. CASE ~Held(id)
  <2>1. SetFor(m) = EmptySet(m)
    BY <1>4, RetainedFacts, Zenon DEF SetFor
  <2>2. /\ EmptySet(m).destination = m.destination
        /\ \A k \in 0..(m.fragment_total - 1) : EmptySet(m).parts[k] = NoPart
    BY Zenon DEF EmptySet
  <2>3. \A k \in 0..(p.total - 1) : SetFor(m).parts[k] = NoPart
    BY <1>1, <2>1, <2>2, Zenon
  <2>4. SetFor(m).destination = p.destination
    BY <1>1, <2>1, <2>2, Zenon
  <2> QED
    BY <1>1, <1>4, <2>3, <2>4, Zenon
<1> QED
  BY <1>3, <1>4, Zenon

\* A fragment that leaves its set incomplete.
LEMMA PartialSpaced ==
    ASSUME SessionInv, Pure, Once, Accounted, NEW m \in network, Input(m), InputPartial(m)
    PROVE  Pure' /\ Once' /\ Accounted'
<1> DEFINE n == m.data.packet
           p == sent[n]
           id == m.packet_id
<1>1. /\ n \in 1..Len(sent) /\ m.fragment_id \in 0..(p.total - 1) /\ m.fragment_total = p.total
      /\ id = p.packet_id /\ m.data = Chunk(n, p, m.fragment_id) /\ m = Fragment(n, p, m.fragment_id)
      /\ IsFragment(m) /\ id \in PacketIds
  BY MessageFacts, Zenon DEF IsFragment, InputPartial, UdpMessage
<1>2. /\ Latest(n)
      /\ \A o \in network : o.packet_id = id => o.data.packet = n
      /\ \A j \in 1..Len(sent) : \A k \in 0..(sent[j].total - 1) :
            Alive(j, k) /\ sent[j].packet_id = id => j = n
  BY TakenFacts, Zenon
<1>3. /\ DOMAIN Filled(m).parts = 0..(p.total - 1)
      /\ Filled(m).age = 0
      /\ Filled(m).destination = p.destination
      /\ \A k \in 0..(p.total - 1) : Filled(m).parts[k] \in {NoPart, Chunk(n, p, k)}
      /\ Filled(m).parts[m.fragment_id] = m.data
      /\ \A k \in 0..(p.total - 1) : k # m.fragment_id =>
            Filled(m).parts[k] = IF Held(id) THEN fragments[id].parts[k] ELSE NoPart
  <2>1. /\ SetFor(m).destination = p.destination
        /\ SetFor(m).parts[m.fragment_id] = NoPart
        /\ \A k \in 0..(p.total - 1) :
              SetFor(m).parts[k] = IF Held(id) THEN fragments[id].parts[k] ELSE NoPart
        /\ \A k \in 0..(p.total - 1) : SetFor(m).parts[k] \in {NoPart, Chunk(n, p, k)}
    BY <1>1, TakenSet, Zenon
  <2>2. /\ DOMAIN Filled(m).parts = 0..(p.total - 1)
        /\ Filled(m).age = 0
        /\ Filled(m).destination = SetFor(m).destination
        /\ \A k \in 0..(p.total - 1) :
              Filled(m).parts[k] = IF k = m.fragment_id /\ SetFor(m).parts[k] = NoPart
                                   THEN m.data ELSE SetFor(m).parts[k]
    BY <1>1, FilledFacts, Zenon
  <2> QED
    BY <1>1, <2>1, <2>2, Zenon
<1>4. /\ fragments' = Put(Retained, id, Filled(m)) /\ network' = network \ {m}
      /\ UNCHANGED <<sent, incoming, delivered, trusted, open>> /\ disturbed \subseteq disturbed'
  BY Zenon DEF Input, InputPartial
<1>5. /\ fragments'[id] = Filled(m)
      /\ Held(id)'
      /\ \A i : i # id => (Held(i)' <=> Held(i)) /\ (Held(i) => fragments'[i] = fragments[i])
  <2>1. DOMAIN fragments' = DOMAIN Retained \cup {id} /\ fragments'[id] = Filled(m)
    BY <1>4, Zenon DEF Put
  <2>2. Held(id)'
    BY <1>3, <2>1, DefraggerAssumption DEF Held
  <2>3. ASSUME NEW i, i # id
        PROVE  /\ i \in DOMAIN fragments' <=> Held(i)
               /\ Held(i) => fragments'[i] = fragments[i]
    BY <1>4, <2>1, <2>3, RetainedFacts, Zenon DEF Put
  <2>4. ASSUME NEW i, i # id
        PROVE  Held(i)' <=> Held(i)
    BY <2>3, <2>4, Zenon DEF Held
  <2> QED
    BY <2>1, <2>2, <2>3, <2>4, Zenon
<1>6. \A j : Latest(j)' <=> Latest(j)
  BY <1>4, Zenon DEF Latest
<1> HIDE DEF n, p, id
<1>7. ASSUME NEW o \in network'
      PROVE  /\ Latest(o.data.packet)'
             /\ Held(o.packet_id)' => fragments'[o.packet_id].parts[o.fragment_id] = NoPart
  <2>1. o \in network /\ o # m
    BY <1>4, Zenon
  <2>2. /\ Latest(o.data.packet)
        /\ Held(o.packet_id) => fragments[o.packet_id].parts[o.fragment_id] = NoPart
    BY <2>1, Zenon DEF Pure
  <2>3. CASE o.packet_id = id
    <3>1. o.data.packet = n
      BY <1>2, <2>1, <2>3, Zenon
    <3>2. o = Fragment(n, p, o.fragment_id) /\ o.fragment_id \in 0..(p.total - 1)
      BY <2>1, <3>1, MessageFacts, Zenon DEF p
    <3>3. o.fragment_id # m.fragment_id
      BY <1>1, <2>1, <3>2, Zenon
    <3> QED
      BY <1>3, <1>5, <1>6, <2>2, <2>3, <3>2, <3>3
  <2>4. CASE o.packet_id # id
    BY <1>5, <1>6, <2>2, <2>4, Zenon
  <2> QED
    BY <2>3, <2>4, Zenon
<1>8. ASSUME NEW i \in PacketIds, Held(i)'
      PROVE  \E j \in 1..Len(sent') : Gathers(i, j)'
  <2>1. CASE i = id
    <3>1. Gathers(id, n)'
      BY <1>1, <1>2, <1>3, <1>4, <1>5, <1>6, Zenon DEF Gathers, p
    <3> QED
      BY <1>1, <1>4, <2>1, <3>1, Zenon
  <2>2. CASE i # id
    <3>1. PICK j \in 1..Len(sent) : Gathers(i, j)
      BY <1>5, <1>8, <2>2, Zenon DEF Pure
    <3>2. Gathers(i, j)'
      BY <1>4, <1>5, <1>6, <1>8, <2>2, <3>1, Zenon DEF Gathers
    <3> QED
      BY <1>4, <3>2, Zenon
  <2> QED
    BY <2>1, <2>2, Zenon
<1>9. Pure'
  BY <1>7, <1>8, Zenon DEF Pure
<1>10. ASSUME NEW j \in 1..Len(sent), NEW k \in 0..(sent[j].total - 1)
       PROVE  Alive(j, k)' <=> Alive(j, k)
  <2> DEFINE f == Fragment(j, sent[j], k)
             c == Chunk(j, sent[j], k)
  <2>0. /\ f.packet_id = sent[j].packet_id /\ f.fragment_id = k /\ f.data.packet = j
        /\ c.packet = j /\ c # NoPart
    BY FragmentFacts, Zenon DEF Fragment, Chunk
  <2>1. CASE sent[j].packet_id # id
    <3>1. f # m
      BY <2>0, <2>1, Zenon DEF id
    <3> QED
      BY <1>4, <1>5, <2>1, <3>1 DEF Alive
  <2>2. CASE sent[j].packet_id = id /\ j # n
    <3>1. ~Alive(j, k)
      BY <1>2, <2>2, Zenon
    <3>2. f \notin network'
      BY <1>2, <1>4, <2>0, <2>2, Zenon
    <3>3. k \in DOMAIN Filled(m).parts => Filled(m).parts[k] # c
      <4>1. Chunk(n, p, k).packet = n
        BY Zenon DEF Chunk
      <4> QED
        BY <1>3, <2>0, <2>2, <4>1
    <3> QED
      BY <1>4, <1>5, <2>2, <3>1, <3>2, <3>3 DEF Alive
  <2>3. CASE j = n
    <3>0. /\ sent[j] = p /\ sent[j].packet_id = id /\ k \in DOMAIN Filled(m).parts
          /\ Held(id) => DOMAIN fragments[id].parts = 0..(p.total - 1)
      BY <1>1, <1>3, <2>3, TakenFacts, SMTT(20) DEF p, n, id, Gathers
    <3>1. CASE k = m.fragment_id
      <4>1. f = m /\ c = m.data
        BY <1>1, <2>3, <3>0, <3>1
      <4> QED
        BY <1>3, <1>4, <1>5, <3>0, <3>1, <4>1, Zenon DEF Alive
    <3>2. CASE k # m.fragment_id
      <4>1. f # m
        BY <2>0, <3>2, Zenon
      <4>2. f \in network' <=> f \in network
        BY <1>4, <4>1, Zenon
      <4>3. Filled(m).parts[k] = c <=> (Held(id) /\ fragments[id].parts[k] = c)
        BY <1>3, <2>0, <3>0, <3>2
      <4>4. Alive(j, k)' <=> (f \in network' \/ Filled(m).parts[k] = c)
        BY <1>4, <1>5, <3>0, Zenon DEF Alive
      <4>5. Alive(j, k) <=> (f \in network \/ (Held(id) /\ fragments[id].parts[k] = c))
        BY <1>3, <3>0, Zenon DEF Alive
      <4> QED
        BY <4>2, <4>3, <4>4, <4>5
    <3> QED
      BY <3>1, <3>2, Zenon
  <2> QED
    BY <2>1, <2>2, <2>3, Zenon
<1>11. Once' /\ Accounted'
  BY <1>4, <1>10, NothingPassed, Zenon
<1> QED
  BY <1>9, <1>11, Zenon

\* A step that forgets the set of packet n, or keeps all sets, and takes one
\* message leaves what remains pure.
LEMMA LessIsPure ==
    ASSUME Pure, network' \subseteq network, sent' = sent,
           \A i : Held(i)' => Held(i) /\ fragments'[i].parts = fragments[i].parts
                              /\ fragments'[i].destination = fragments[i].destination
    PROVE  Pure'
<1>1. \A j : Latest(j)' <=> Latest(j)
  BY Zenon DEF Latest
<1>2. \A i, j : Held(i)' /\ Gathers(i, j) => Gathers(i, j)'
  BY <1>1, Zenon DEF Gathers
<1>3. ASSUME NEW o \in network'
      PROVE  /\ Latest(o.data.packet)'
             /\ Held(o.packet_id)' => fragments'[o.packet_id].parts[o.fragment_id] = NoPart
  BY <1>1, <1>3, Zenon DEF Pure
<1>4. ASSUME NEW i \in PacketIds, Held(i)'
      PROVE  \E j \in 1..Len(sent') : Gathers(i, j)'
  BY <1>2, <1>4 DEF Pure
<1> QED
  BY <1>3, <1>4, Zenon DEF Pure

\* A packet that was sent as one message.
LEMMA WholeSpaced ==
    ASSUME SessionInv, Pure, Once, Accounted, NEW m \in network, Input(m), InputWhole(m)
    PROVE  Pure' /\ Once' /\ Accounted'
<1> DEFINE n == m.data.packet
           p == sent[n]
           id == m.packet_id
<1>1. /\ n \in 1..Len(sent) /\ m.fragment_id \in 0..(p.total - 1) /\ m.fragment_total = p.total
      /\ id = p.packet_id /\ m.data = Chunk(n, p, m.fragment_id) /\ m = Fragment(n, p, m.fragment_id)
      /\ m.destination = p.destination /\ p.total \in 1..MaxFragments
  BY MessageFacts, SentFacts, Zenon
<1>2. p.total = 1 /\ m.fragment_id = 0 /\ {0} = 0..(p.total - 1)
  <2>1. p.total = 1
    BY <1>1, DefraggerAssumption DEF InputWhole
  <2> QED
    BY <1>1, <2>1
<1>3. [data |-> [k \in {0} |-> m.data], destination |-> m.destination] = Whole(n, p)
  <2>1. [k \in {0} |-> m.data] = [k \in 0..(p.total - 1) |-> Chunk(n, p, k)]
    BY <1>1, <1>2, Zenon
  <2> QED
    BY <1>1, <2>1, Zenon DEF Whole
<1>4. /\ TrySend(Whole(n, p)) /\ fragments' = fragments /\ network' = network \ {m}
      /\ UNCHANGED <<sent, delivered, trusted, open>> /\ disturbed \subseteq disturbed'
      /\ Len(incoming) = QueueCap => n \in disturbed'
  BY <1>3, Zenon DEF Input, InputWhole, CompletesPacket
<1>5. /\ ~PassedOn(n)
      /\ Held(id) => fragments[id].parts[0] = NoPart
  BY <1>2, TakenFacts, Zenon
<1>6. \A i : Held(i)' <=> Held(i)
  BY <1>4, Zenon DEF Held
<1>7. Pure'
  BY <1>4, <1>6, LessIsPure, Zenon
<1>8. ASSUME NEW k \in 0..(sent[n].total - 1)
      PROVE  ~Alive(n, k)'
  <2>1. k = 0 /\ Chunk(n, p, k) # NoPart
    BY <1>1, <1>2, FragmentFacts, Zenon
  <2> QED
    BY <1>1, <1>2, <1>4, <1>5, <1>6, <2>1 DEF Alive
<1>9. ASSUME NEW j \in 1..Len(sent), NEW k \in 0..(sent[j].total - 1), j # n
      PROVE  Alive(j, k)' <=> Alive(j, k)
  <2>1. Fragment(j, sent[j], k).data.packet = j
    BY Zenon DEF Fragment, Chunk
  <2>2. Fragment(j, sent[j], k) # m
    BY <1>9, <2>1, Zenon
  <2> QED
    BY <1>4, <1>6, <2>2, Zenon DEF Alive
<1> HIDE DEF n, id
<1>10. Once' /\ Accounted'
  BY <1>1, <1>4, <1>5, <1>8, <1>9, PassingOn
<1> QED
  BY <1>7, <1>10, Zenon

\* A fragment that completes its set: the packet is the one that was sent,
\* it keeps to the limit, and nothing of it is left.
LEMMA CompleteSpaced ==
    ASSUME SessionInv, Pure, Once, Accounted, NEW m \in network, Input(m), InputComplete(m)
    PROVE  Pure' /\ Once' /\ Accounted'
<1> DEFINE n == m.data.packet
           p == sent[n]
           id == m.packet_id
<1>1. /\ n \in 1..Len(sent) /\ m.fragment_id \in 0..(p.total - 1) /\ m.fragment_total = p.total
      /\ id = p.packet_id /\ m.data = Chunk(n, p, m.fragment_id) /\ m = Fragment(n, p, m.fragment_id)
      /\ IsFragment(m) /\ Filled(m).received = m.fragment_total
  BY MessageFacts, Zenon DEF IsFragment, InputComplete, UdpMessage
<1>2. /\ ~PassedOn(n)
      /\ \A o \in network : o.packet_id = id => o.data.packet = n
      /\ \A j \in 1..Len(sent) : \A k \in 0..(sent[j].total - 1) :
            Alive(j, k) /\ sent[j].packet_id = id => j = n
  BY TakenFacts, Zenon
<1>3. /\ SetFor(m).destination = p.destination
      /\ SetFor(m).parts[m.fragment_id] = NoPart
      /\ \A k \in 0..(p.total - 1) :
            SetFor(m).parts[k] = IF Held(id) THEN fragments[id].parts[k] ELSE NoPart
      /\ \A k \in 0..(p.total - 1) : SetFor(m).parts[k] \in {NoPart, Chunk(n, p, k)}
  BY <1>1, TakenSet, Zenon
<1>4. /\ DOMAIN Filled(m).parts = 0..(p.total - 1)
      /\ Filled(m).destination = SetFor(m).destination
      /\ \A k \in 0..(p.total - 1) :
            Filled(m).parts[k] = IF k = m.fragment_id /\ SetFor(m).parts[k] = NoPart
                                 THEN m.data ELSE SetFor(m).parts[k]
  BY <1>1, FilledFacts, Zenon
<1>5. \A k \in 0..(p.total - 1) : Filled(m).parts[k] # NoPart
  <2>1. [data |-> Filled(m).parts, destination |-> Filled(m).destination] \in Packet
    BY <1>1, CompleteIsFull, Zenon DEF SessionInv, TypeOK, ReceiverInv
  <2>2. \A k \in DOMAIN Filled(m).parts : Filled(m).parts[k] \in Payloads
    BY <2>1, Zenon DEF Packet
  <2> QED
    BY <1>4, <2>2, DefraggerAssumption, Zenon
<1>6. \A k \in 0..(p.total - 1) : Filled(m).parts[k] = Chunk(n, p, k)
  BY <1>1, <1>3, <1>4, <1>5, Zenon
<1>7. Filled(m).parts = Whole(n, p).data
  <2>1. Filled(m) \in FragmentSet
    BY <1>1, FilledExact, Zenon DEF SessionInv, TypeOK, ReceiverInv
  <2>2. PICK j \in 2..MaxFragments : Filled(m).parts \in [0..(j - 1) -> Payloads \cup {NoPart}]
    BY <2>1, PartsShape, Zenon
  <2>3. Filled(m).parts = [k \in 0..(p.total - 1) |-> Filled(m).parts[k]]
    BY <1>4, <2>2, Zenon
  <2> QED
    BY <1>6, <2>3, Zenon DEF Whole
<1>8. Length(Filled(m).parts) <= MaxUdpSize
  <2>1. Length(Filled(m).parts) = p.length
    BY <1>1, <1>7, LengthOfWhole, Zenon
  <2> QED
    BY <1>1, <2>1, SentFacts, DefraggerAssumption
<1>9. [data |-> Filled(m).parts, destination |-> Filled(m).destination] = Whole(n, p)
  BY <1>3, <1>4, <1>7, Zenon DEF Whole
<1>10. /\ TrySend(Whole(n, p)) /\ network' = network \ {m}
       /\ fragments' = Restrict(Retained, DOMAIN Retained \ {id})
       /\ UNCHANGED <<sent, delivered, trusted, open>> /\ disturbed \subseteq disturbed'
       /\ Len(incoming) = QueueCap => n \in disturbed'
  BY <1>1, <1>8, <1>9, Zenon DEF Input, InputComplete, CompletesPacket, IsFragment
<1>11. \A i : (Held(i)' <=> Held(i) /\ i # id) /\ (Held(i)' => fragments'[i] = fragments[i])
  BY <1>10, RetainedFacts, Zenon DEF Held, Restrict
<1>12. Pure'
  BY <1>10, <1>11, LessIsPure, Zenon
<1> HIDE DEF n, p, id
<1>13. ASSUME NEW k \in 0..(p.total - 1)
       PROVE  ~Alive(n, k)'
  <2>1. ~Held(sent[n].packet_id)'
    BY <1>1, <1>10, <1>11, Zenon DEF p
  <2>2. Fragment(n, p, k) \notin network'
    <3>1. CASE k = m.fragment_id
      BY <1>1, <1>10, <3>1, Zenon
    <3>2. CASE k # m.fragment_id
      <4>1. SetFor(m).parts[k] # NoPart
        BY <1>4, <1>5, <3>2, Zenon
      <4>2. Held(id) /\ fragments[id].parts[k] # NoPart
        BY <1>3, <4>1, Zenon
      <4>3. Fragment(n, p, k).packet_id = id /\ Fragment(n, p, k).fragment_id = k
        BY <1>1, Zenon DEF Fragment
      <4>4. Fragment(n, p, k) \notin network
        BY <4>2, <4>3, Zenon DEF Pure
      <4> QED
        BY <1>10, <4>4, Zenon
    <3> QED
      BY <3>1, <3>2, Zenon
  <2> QED
    BY <1>10, <2>1, <2>2, Zenon DEF Alive, p
<1>14. ASSUME NEW j \in 1..Len(sent), NEW k \in 0..(sent[j].total - 1), j # n
       PROVE  Alive(j, k)' <=> Alive(j, k)
  <2>1. Fragment(j, sent[j], k).data.packet = j /\ Fragment(j, sent[j], k).packet_id = sent[j].packet_id
    BY Zenon DEF Fragment, Chunk
  <2>2. Fragment(j, sent[j], k) # m
    BY <1>14, <2>1, Zenon DEF n
  <2>3. CASE sent[j].packet_id # id
    BY <1>10, <1>11, <2>2, <2>3, Zenon DEF Alive
  <2>4. CASE sent[j].packet_id = id
    <3>1. ~Alive(j, k)
      BY <1>2, <1>14, <2>4, Zenon
    <3>2. ~Held(sent[j].packet_id)'
      BY <1>10, <1>11, <2>4, Zenon
    <3>3. Fragment(j, sent[j], k) \notin network'
      BY <1>2, <1>10, <1>14, <2>1, <2>4
    <3> QED
      BY <1>10, <3>1, <3>2, <3>3 DEF Alive
  <2> QED
    BY <2>3, <2>4, Zenon
<1>15. Once' /\ Accounted'
  BY <1>1, <1>2, <1>10, <1>13, <1>14, PassingOn DEF p
<1> QED
  BY <1>12, <1>15, Zenon

\* Whatever a message in flight does, the accounts are kept.
LEMMA InputSpaced ==
    ASSUME SessionInv, Pure, Once, Accounted, NEW m \in network, Input(m)
    PROVE  Pure' /\ Once' /\ Accounted'
<1>1. m.fragment_id \in 0..(m.fragment_total - 1) /\ m.fragment_total \in Nat
  BY MessageFacts DEF UdpMessage
<1>2. ~InputIgnored(m)
  BY <1>1 DEF InputIgnored
<1> QED
  BY <1>2, WholeSpaced, PartialSpaced, CompleteSpaced, Zenon DEF Input, input

\* Send, when the id it draws is quiet.
LEMMA SendSpaced ==
    ASSUME SessionInv, Pure, Once, Accounted, NEW destination \in Addresses,
           NEW length \in 0..MaxUdpSize, NEW room \in Rooms, NEW queued \in 0..MaxFragments,
           Send(destination, length, room, queued), IdQuiet(NextId)
    PROVE  Pure' /\ Once' /\ Accounted'
<1> DEFINE id == NextId
<1>0. PICK n : n = Len(sent')
  BY Zenon
<1>1. /\ sent' \in Seq(SentPacket)
      /\ Len(sent) \in Nat /\ n = Len(sent) + 1 /\ n \notin 1..Len(sent)
      /\ \A i \in 1..Len(sent) : i \in 1..n /\ sent'[i] = sent[i]
      /\ \A i \in 1..n : i \in 1..Len(sent) \/ i = n
      /\ sent'[n].packet_id = id
      /\ queued \in 0..sent'[n].total
      /\ network' = network \cup {Fragment(n, sent'[n], k) : k \in 0..(queued - 1)}
      /\ disturbed' = IF queued = sent'[n].total THEN disturbed ELSE disturbed \cup {n}
  <2>1. /\ sent' \in Seq(SentPacket)
        /\ Len(sent) \in Nat /\ Len(sent') = Len(sent) + 1
        /\ \A i \in 1..Len(sent) : i \in 1..Len(sent') /\ sent'[i] = sent[i]
        /\ \A i \in 1..Len(sent') : i \in 1..Len(sent) \/ i = Len(sent) + 1
    BY SendFacts, Zenon
  <2>2. /\ sent'[Len(sent')].packet_id = id
        /\ queued \in 0..sent'[Len(sent')].total
        /\ network' = network \cup {Fragment(Len(sent'), sent'[Len(sent')], k) : k \in 0..(queued - 1)}
        /\ disturbed' = IF queued = sent'[Len(sent')].total THEN disturbed
                        ELSE disturbed \cup {Len(sent')}
    BY SendFacts, Zenon
  <2> QED
    BY <1>0, <2>1, <2>2
<1>2. UNCHANGED <<fragments, incoming, open, delivered, trusted>>
  BY Zenon DEF Send, receiverVars
<1>3. /\ \A m \in network : m.packet_id # id
      /\ ~Held(id)
  BY DefraggerAssumption DEF IdQuiet, Held, SessionInv, TypeOK, ReceiverTypeOK, FragmentSet
<1>4. n \in 1..n /\ sent'[n].total \in Nat \ {0}
  <2>1. n \in 1..n
    BY <1>1
  <2>2. sent'[n] \in SentPacket
    BY <1>0, <1>1, <2>1, ElementType, Zenon
  <2> QED
    BY <2>1, <2>2, DefraggerAssumption DEF SentPacket
<1> HIDE DEF id
<1>5. \A i : Held(i)' <=> Held(i)
  BY <1>2, Zenon DEF Held
<1>6. ASSUME NEW j \in 1..Len(sent), sent[j].packet_id # id, Latest(j)
      PROVE  Latest(j)'
  BY <1>0, <1>1, <1>6, Zenon DEF Latest
<1>7. Latest(n)'
  BY <1>0, <1>1 DEF Latest
<1>8. ASSUME NEW o \in network'
      PROVE  /\ Latest(o.data.packet)'
             /\ Held(o.packet_id)' => fragments'[o.packet_id].parts[o.fragment_id] = NoPart
  <2>1. CASE o \in network
    <3>1. /\ o.data.packet \in 1..Len(sent) /\ o.packet_id = sent[o.data.packet].packet_id
          /\ Latest(o.data.packet) /\ o.packet_id # id
      BY <1>3, <2>1, MessageFacts, Zenon DEF Pure
    <3> QED
      BY <1>2, <1>5, <1>6, <2>1, <3>1, Zenon DEF Pure
  <2>2. CASE o \notin network
    <3>1. PICK k \in 0..(queued - 1) : o = Fragment(n, sent'[n], k)
      BY <1>1, <2>2, Zenon
    <3>2. o.data.packet = n /\ o.packet_id = id
      BY <1>1, <3>1, Zenon DEF Fragment, Chunk
    <3> QED
      BY <1>3, <1>5, <1>7, <3>2
  <2> QED
    BY <2>1, <2>2, Zenon
<1>9. ASSUME NEW i \in PacketIds, Held(i)'
      PROVE  \E j \in 1..Len(sent') : Gathers(i, j)'
  <2>1. PICK j \in 1..Len(sent) : Gathers(i, j)
    BY <1>5, <1>9, Zenon DEF Pure
  <2>2. sent[j].packet_id # id
    BY <1>3, <1>5, <1>9, <2>1 DEF Gathers
  <2>3. Gathers(i, j)'
    BY <1>1, <1>2, <1>6, <2>1, <2>2 DEF Gathers
  <2> QED
    BY <1>0, <1>1, <2>3
<1>10. Pure'
  BY <1>8, <1>9, Zenon DEF Pure
<1>11. ASSUME NEW j \in 1..Len(sent), NEW k \in 0..(sent[j].total - 1)
       PROVE  Alive(j, k)' <=> Alive(j, k)
  <2>1. Fragment(j, sent[j], k).data.packet = j
    BY Zenon DEF Fragment, Chunk
  <2>2. \A i : Fragment(n, sent'[n], i).data.packet = n
    BY Zenon DEF Fragment, Chunk
  <2>3. Fragment(j, sent[j], k) \in network' <=> Fragment(j, sent[j], k) \in network
    BY <1>1, <2>1, <2>2
  <2> QED
    BY <1>1, <1>2, <1>5, <2>3 DEF Alive
<1>12. \A j \in 1..Len(sent) : PassedOn(j)' <=> PassedOn(j)
  BY <1>1, <1>2, Zenon DEF PassedOn
<1>13. ~PassedOn(n)'
  <2>1. ASSUME NEW x, IsWhole(x)
        PROVE  x # Whole(n, sent'[n])
    <3>1. PICK j \in 1..Len(sent) : x = Whole(j, sent[j])
      BY <2>1, Zenon DEF IsWhole
    <3>2. sent[j].total \in Nat \ {0} /\ j # n
      BY <1>1, SentFacts, DefraggerAssumption
    <3> QED
      BY <1>4, <3>1, <3>2, WholeNumber
  <2> QED
    BY <1>0, <1>2, <2>1, Zenon DEF PassedOn, Once
<1>14. \A x : IsWhole(x) => IsWhole(x)'
  BY <1>0, <1>1, Zenon DEF IsWhole
<1>15. \A j \in 1..n : PassedOn(j)' => \A k \in 0..(sent'[j].total - 1) : ~Alive(j, k)'
  BY <1>1, <1>11, <1>12, <1>13, Zenon DEF Once
<1>16. Once'
  BY <1>0, <1>2, <1>14, <1>15 DEF Once
<1>17. \A j \in 1..n : \/ j \in disturbed'
                       \/ PassedOn(j)'
                       \/ \A k \in 0..(sent'[j].total - 1) : Alive(j, k)'
  <2> TAKE j \in 1..n
  <2>1. CASE j \in 1..Len(sent)
    BY <1>1, <1>11, <1>12, <2>1, Zenon DEF Accounted
  <2>2. CASE j = n
    <3>1. CASE queued = sent'[n].total
      <4>1. \A k \in 0..(sent'[n].total - 1) : Fragment(n, sent'[n], k) \in network'
        BY <1>1, <3>1, Zenon
      <4> QED
        BY <1>0, <2>2, <4>1 DEF Alive
    <3>2. CASE queued # sent'[n].total
      BY <1>1, <2>2, <3>2
    <3> QED
      BY <3>1, <3>2, Zenon
  <2> QED
    BY <1>1, <2>1, <2>2, Zenon
<1>18. Accounted'
  BY <1>0, <1>2, <1>17 DEF Accounted
<1> QED
  BY <1>10, <1>16, <1>18, Zenon

\* Losing a message disturbs its packet and no other.
LEMMA LoseSpaced ==
    ASSUME SessionInv, Pure, Once, Accounted, NEW m \in network, Lose(m)
    PROVE  Pure' /\ Once' /\ Accounted'
<1>1. /\ UNCHANGED <<fragments, sent, incoming, delivered, trusted, open>>
      /\ network' = network \ {m} /\ disturbed' = disturbed \cup {m.data.packet}
  BY Zenon DEF Lose, receiverVars
<1>2. \A i : Held(i)' <=> Held(i)
  BY <1>1, Zenon DEF Held
<1>3. Pure'
  BY <1>1, <1>2, LessIsPure, Zenon
<1>4. ASSUME NEW j \in 1..Len(sent), NEW k \in 0..(sent[j].total - 1)
      PROVE  /\ Alive(j, k)' => Alive(j, k)
             /\ Alive(j, k) => Alive(j, k)' \/ j \in disturbed'
  <2>1. Fragment(j, sent[j], k).data.packet = j
    BY Zenon DEF Fragment, Chunk
  <2> QED
    BY <1>1, <1>2, <2>1, Zenon DEF Alive
<1>5. Once' /\ Accounted'
  BY <1>1, <1>4, NothingPassed, Zenon
<1> QED
  BY <1>3, <1>5, Zenon

\* Reading from the channel.
LEMMA RecvSpaced ==
    ASSUME SessionInv, Pure, Once, Accounted, Recv, peer = "crate", spaced
    PROVE  Pure' /\ Once' /\ Accounted'
<1>1. /\ incoming \in Seq(Packet) /\ incoming # <<>> /\ delivered \in Seq(Packet)
      /\ incoming' = Tail(incoming) /\ delivered' = Append(delivered, Head(incoming))
      /\ UNCHANGED <<fragments, sent, network, disturbed, open>> /\ trusted' = Len(delivered')
  BY Zenon DEF Recv, recv, SessionInv, TypeOK, ReceiverTypeOK
<1>2. /\ Head(incoming) = incoming[1] /\ 1 \in 1..Len(incoming) /\ Head(incoming) \in Packet
      /\ Len(incoming) \in Nat /\ Len(incoming') = Len(incoming) - 1
      /\ \A i \in 1..Len(incoming') : i + 1 \in 1..Len(incoming) /\ incoming'[i] = incoming[i + 1]
  BY <1>1, HeadTailFacts, Zenon
<1>3. /\ Len(delivered) \in Nat /\ Len(delivered') = Len(delivered) + 1
      /\ delivered'[Len(delivered) + 1] = Head(incoming)
      /\ \A i \in 1..Len(delivered) : i \in 1..Len(delivered') /\ delivered'[i] = delivered[i]
      /\ \A i \in 1..Len(delivered') : i \in 1..Len(delivered) \/ i = Len(delivered) + 1
  BY <1>1, <1>2, AppendFacts
<1>4. \A i : Held(i)' <=> Held(i)
  BY <1>1, Zenon DEF Held
<1>5. Pure'
  BY <1>1, <1>4, LessIsPure, Zenon
<1>6. \A j, k : Alive(j, k)' <=> Alive(j, k)
  BY <1>1, <1>4, Zenon DEF Alive
<1>7. ASSUME NEW j \in 1..Len(sent)
      PROVE  PassedOn(j)' <=> PassedOn(j)
  <2> DEFINE w == Whole(j, sent[j])
  <2>0. Whole(j, sent[j])' = w
    BY <1>1, Zenon
  <2> HIDE DEF w
  <2>1. ASSUME NEW i \in 1..Len(incoming), incoming[i] = w
        PROVE  PassedOn(j)'
    <3>1. CASE i = 1
      <4>1. Len(delivered) + 1 \in 1..Len(delivered') /\ delivered'[Len(delivered) + 1] = w
        BY <1>2, <1>3, <2>1, <3>1
      <4> QED
        BY <2>0, <4>1, Zenon DEF PassedOn
    <3>2. CASE i # 1
      <4>1. i - 1 \in 1..Len(incoming')
        BY <1>2, <3>2
      <4>2. incoming'[i - 1] = w
        BY <1>2, <2>1, <4>1
      <4> QED
        BY <2>0, <4>1, <4>2, Zenon DEF PassedOn
    <3> QED
      BY <3>1, <3>2, Zenon
  <2>2. ASSUME NEW i \in 1..Len(delivered), delivered[i] = w
        PROVE  PassedOn(j)'
    BY <1>3, <2>0, <2>2, Zenon DEF PassedOn
  <2>3. PassedOn(j) => PassedOn(j)'
    BY <2>1, <2>2, Zenon DEF PassedOn, w
  <2>4. PassedOn(j)' => PassedOn(j)
    BY <1>2, <1>3, <2>0 DEF PassedOn, w
  <2> QED
    BY <2>3, <2>4, Zenon
<1>8. \A x : IsWhole(x)' <=> IsWhole(x)
  BY <1>1, Zenon DEF IsWhole
<1>9. /\ \A i \in 1..Len(incoming') : IsWhole(incoming'[i])
      /\ \A i \in 1..Len(delivered') : IsWhole(delivered'[i])
  BY <1>2, <1>3, Zenon DEF Once
<1>10. \A i, j \in 1..Len(incoming') : i # j => incoming'[i] # incoming'[j]
  <2> TAKE i, j \in 1..Len(incoming')
  <2>1. /\ i + 1 \in 1..Len(incoming) /\ incoming'[i] = incoming[i + 1]
        /\ j + 1 \in 1..Len(incoming) /\ incoming'[j] = incoming[j + 1]
        /\ i # j => i + 1 # j + 1
    BY <1>2
  <2> QED
    BY <2>1, Zenon DEF Once
<1>11. \A i \in 1..Len(incoming'), j \in 1..Len(delivered') : incoming'[i] # delivered'[j]
  <2> TAKE i \in 1..Len(incoming'), j \in 1..Len(delivered')
  <2>1. i + 1 \in 1..Len(incoming) /\ incoming'[i] = incoming[i + 1] /\ i + 1 # 1
    BY <1>2
  <2>2. CASE j \in 1..Len(delivered)
    BY <1>3, <2>1, <2>2 DEF Once
  <2>3. CASE j = Len(delivered) + 1
    BY <1>2, <1>3, <2>1, <2>3 DEF Once
  <2> QED
    BY <1>3, <2>2, <2>3, Zenon
<1>12. Once'
  BY <1>1, <1>6, <1>7, <1>8, <1>9, <1>10, <1>11, Zenon DEF Once
<1>13. Accounted'
  BY <1>1, <1>6, <1>7, Zenon DEF Accounted
<1> QED
  BY <1>5, <1>12, <1>13

\* Time passing disturbs the packets of the sets that expire.
LEMMA AgeSpaced ==
    ASSUME SessionInv, Pure, Once, Accounted, Age
    PROVE  Pure' /\ Once' /\ Accounted'
<1>1. /\ UNCHANGED <<sent, network, incoming, delivered, trusted, open>>
      /\ disturbed' = disturbed \cup {c.packet : c \in HeldBy(Expiring)}
      /\ DOMAIN fragments' = DOMAIN fragments
  BY Zenon DEF Age, Tick
<1>2. ASSUME NEW i \in DOMAIN fragments
      PROVE  /\ fragments'[i].parts = fragments[i].parts
             /\ fragments'[i].destination = fragments[i].destination
             /\ fragments[i].age \in 0..(FragmentLifetime + 1)
             /\ fragments'[i].age = IF fragments[i].age <= FragmentLifetime
                                    THEN fragments[i].age + 1 ELSE fragments[i].age
  BY Zenon DEF Age, Tick, SessionInv, TypeOK, ReceiverTypeOK, FragmentSet
<1>3. \A i : Held(i)' => /\ Held(i) /\ fragments'[i].parts = fragments[i].parts
                         /\ fragments'[i].destination = fragments[i].destination
  BY <1>1, <1>2, DefraggerAssumption, Zenon DEF Held
<1>4. \A i : Held(i) /\ ~Held(i)' => i \in Expiring
  BY <1>1, <1>2, DefraggerAssumption DEF Held, Expiring
<1>5. Pure'
  BY <1>1, <1>3, LessIsPure, Zenon
<1>6. ASSUME NEW j \in 1..Len(sent), NEW k \in 0..(sent[j].total - 1)
      PROVE  /\ Alive(j, k)' => Alive(j, k)
             /\ Alive(j, k) => Alive(j, k)' \/ j \in disturbed'
  <2> DEFINE id == sent[j].packet_id
             c == Chunk(j, sent[j], k)
  <2>0. c # NoPart /\ c.packet = j
    BY FragmentFacts, Zenon
  <2>1. Alive(j, k)' => Alive(j, k)
    BY <1>1, <1>3, Zenon DEF Alive
  <2>2. CASE Fragment(j, sent[j], k) \in network \/ Held(sent[j].packet_id)'
    BY <1>1, <1>3, <2>1, <2>2, Zenon DEF Alive
  <2>3. CASE /\ Held(id) /\ ~Held(sent[j].packet_id)'
             /\ k \in DOMAIN fragments[id].parts /\ fragments[id].parts[k] = c
    <3>1. id \in Expiring
      BY <1>1, <1>4, <2>3, Zenon
    <3>2. c \in Range(fragments[id].parts) \ {NoPart}
      BY <2>0, <2>3, Zenon DEF Range
    <3>3. c \in HeldBy(Expiring)
      BY <3>1, <3>2, Zenon DEF HeldBy
    <3>4. j \in disturbed'
      BY <1>1, <2>0, <3>3
    <3> QED
      BY <2>1, <3>4, Zenon
  <2> QED
    BY <2>1, <2>2, <2>3, Zenon DEF Alive
<1>7. Once' /\ Accounted'
  BY <1>1, <1>6, NothingPassed
<1> QED
  BY <1>5, <1>7, Zenon

\* Every step keeps the accounts as long as ids are spaced.
LEMMA SpacedStep == SessionInv /\ SpacedInv /\ [Next]_vars => SpacedInv'
<1> SUFFICES ASSUME SessionInv, SpacedInv, [Next]_vars, spaced', peer' = "crate"
             PROVE  Pure' /\ Once' /\ Accounted'
  BY Zenon DEF SpacedInv
<1>1. ASSUME NEW destination \in Addresses, NEW length \in 0..MaxUdpSize, NEW room \in Rooms,
             NEW queued \in 0..MaxFragments, Send(destination, length, room, queued)
      PROVE  Pure' /\ Once' /\ Accounted'
  <2>1. spaced /\ IdQuiet(NextId) /\ peer = "crate"
    BY <1>1, Zenon DEF Send
  <2> QED
    BY <1>1, <2>1, SendSpaced DEF SpacedInv
<1>2. ASSUME NEW m \in network, Lose(m)
      PROVE  Pure' /\ Once' /\ Accounted'
  <2>1. spaced /\ peer = "crate"
    BY <1>2 DEF Lose
  <2> QED
    BY <1>2, <2>1, LoseSpaced, Zenon DEF SpacedInv
<1>3. ASSUME NEW m \in network, Input(m)
      PROVE  Pure' /\ Once' /\ Accounted'
  <2>1. spaced /\ peer = "crate"
    BY <1>3, Zenon DEF Input
  <2> QED
    BY <1>3, <2>1, InputSpaced, Zenon DEF SpacedInv
<1>4. CASE Recv
  <2>1. spaced /\ peer = "crate"
    BY <1>4, Zenon DEF Recv
  <2> QED
    BY <1>4, <2>1, RecvSpaced, Zenon DEF SpacedInv
<1>5. CASE Age
  <2>1. spaced /\ peer = "crate"
    BY <1>5, Zenon DEF Age
  <2> QED
    BY <1>5, <2>1, AgeSpaced, Zenon DEF SpacedInv
<1>6. ASSUME NEW m \in ForeignMessage, InputForeign(m)
      PROVE  Pure' /\ Once' /\ Accounted'
  BY <1>6, Zenon DEF InputForeign
<1>7. CASE SendRejected \/ UNCHANGED vars
  <2>1. /\ UNCHANGED <<fragments, sent, network, incoming, delivered, disturbed, trusted, open>>
        /\ spaced /\ peer = "crate"
    BY <1>7, Zenon DEF SendRejected, vars, receiverVars
  <2>2. Pure /\ Once /\ Accounted
    BY <2>1, Zenon DEF SpacedInv
  <2>3. \A i : Held(i)' <=> Held(i)
    BY <2>1, Zenon DEF Held
  <2>4. \A j, k : Alive(j, k)' <=> Alive(j, k)
    BY <2>1, <2>3, Zenon DEF Alive
  <2>5. Pure'
    BY <2>1, <2>2, <2>3, LessIsPure
  <2>6. Once' /\ Accounted'
    BY <2>1, <2>2, <2>4, NothingPassed
  <2> QED
    BY <2>5, <2>6, Zenon
<1> QED
  BY <1>1, <1>2, <1>3, <1>4, <1>5, <1>6, <1>7 DEF Next

\* At first nothing is on its way.
LEMMA SpacedInit == Init => SpacedInv
BY DEF Init, ReceiverInit, SpacedInv, Pure, Once, Accounted, Held

\* Both invariants, throughout.
LEMMA SpacedAlways == Spec => [](SessionInv /\ SpacedInv)
BY SessionInit, SessionStep, SpacedInit, SpacedStep, PTL DEF Spec

\* A packet whose fragments are all in the receiver's set has been passed on,
\* because no set is complete.
LEMMA NotAllHeld ==
    ASSUME SessionInv, Pure, NEW n \in 1..Len(sent), Held(sent[n].packet_id),
           \A k \in 0..(sent[n].total - 1) :
               /\ k \in DOMAIN fragments[sent[n].packet_id].parts
               /\ fragments[sent[n].packet_id].parts[k] = Chunk(n, sent[n], k)
    PROVE  FALSE
<1> DEFINE id == sent[n].packet_id
           set == fragments[id]
           total == sent[n].total
<1>1. total \in Nat \ {0} /\ id \in PacketIds /\ id \in DOMAIN fragments
  BY SentFacts, DefraggerAssumption DEF Held
<1>2. PICK j \in 1..Len(sent) : Gathers(id, j)
  BY <1>1, Zenon DEF Pure
<1>3. j = n
  <2>1. 0 \in 0..(total - 1)
    BY <1>1
  <2>2. /\ Chunk(n, sent[n], 0) \in {NoPart, Chunk(j, sent[j], 0)}
        /\ Chunk(n, sent[n], 0) # NoPart /\ Chunk(n, sent[n], 0).packet = n
    BY <1>2, <2>1, FragmentFacts, Zenon DEF Gathers
  <2>3. Chunk(j, sent[j], 0).packet = j
    BY Zenon DEF Chunk
  <2> QED
    BY <2>2, <2>3, Zenon
<1>4. DOMAIN set.parts = 0..(total - 1)
  BY <1>2, <1>3, Zenon DEF Gathers
<1>5. ASSUME NEW k \in 0..(total - 1)
      PROVE  set.parts[k] # NoPart
  <2>1. Chunk(n, sent[n], k) # NoPart
    BY FragmentFacts, Zenon
  <2> QED
    BY <2>1, Zenon
<1>6. FilledSlots(set) = DOMAIN set.parts
  BY <1>4, <1>5, Zenon DEF FilledSlots
<1>7. /\ set.received = Cardinality(FilledSlots(set))
      /\ set.received < Cardinality(DOMAIN set.parts)
      /\ set.received \in Nat
  BY <1>1, Zenon DEF SessionInv, CountsAreExact, TypeOK, ReceiverTypeOK, FragmentSet
<1> QED
  BY <1>6, <1>7

\* As long as ids are spaced, a packet nothing happened to is on its way or
\* has been passed on, and reassembly never ends the connection.
THEOREM SessionWithholdsNothing == Spec => []NothingWithheld
<1>1. SessionInv /\ SpacedInv => NothingWithheld
  <2> SUFFICES ASSUME SessionInv, SpacedInv, spaced, peer = "crate"
               PROVE  /\ open
                      /\ \A n \in 1..Len(sent) :
                            \/ n \in disturbed
                            \/ \E m \in network : m.data.packet = n
                            \/ \E i \in 1..Len(Assembled) : Assembled[i] = Whole(n, sent[n])
    BY Zenon DEF NothingWithheld
  <2>1. Pure /\ Accounted
    BY Zenon DEF SpacedInv
  <2>2. ASSUME NEW n \in 1..Len(sent), n \notin disturbed,
               \A m \in network : m.data.packet # n
        PROVE  PassedOn(n)
    <3> SUFFICES ASSUME ~PassedOn(n) PROVE FALSE
      BY Zenon
    <3>1. \A k \in 0..(sent[n].total - 1) : Alive(n, k)
      BY <2>1, <2>2, Zenon DEF Accounted
    <3>2. \A k : Fragment(n, sent[n], k).data.packet = n
      BY Zenon DEF Fragment, Chunk
    <3>3. \A k \in 0..(sent[n].total - 1) :
              /\ Held(sent[n].packet_id)
              /\ k \in DOMAIN fragments[sent[n].packet_id].parts
              /\ fragments[sent[n].packet_id].parts[k] = Chunk(n, sent[n], k)
      BY <2>2, <3>1, <3>2, Zenon DEF Alive
    <3>4. 0 \in 0..(sent[n].total - 1)
      <4>1. sent[n].total \in 1..MaxFragments
        BY SentFacts, Zenon
      <4> QED
        BY <4>1, DefraggerAssumption
    <3> QED
      BY <2>1, <3>3, <3>4, NotAllHeld, Zenon
  <2>3. ASSUME NEW n \in 1..Len(sent), PassedOn(n)
        PROVE  \E i \in 1..Len(Assembled) : Assembled[i] = Whole(n, sent[n])
    <3> DEFINE w == Whole(n, sent[n])
    <3>1. delivered \in Seq(Packet) /\ incoming \in Seq(Packet)
      BY Zenon DEF SessionInv, TypeOK, ReceiverTypeOK
    <3>2. /\ Len(delivered) \in Nat /\ Len(incoming) \in Nat
          /\ Len(Assembled) = Len(delivered) + Len(incoming)
          /\ \A i \in 1..Len(delivered) : Assembled[i] = delivered[i]
          /\ \A i \in 1..Len(incoming) : Assembled[Len(delivered) + i] = incoming[i]
      BY <3>1 DEF Assembled
    <3> HIDE DEF w
    <3>3. CASE \E i \in 1..Len(incoming) : incoming[i] = w
      <4>1. PICK i \in 1..Len(incoming) : incoming[i] = w
        BY <3>3, Zenon
      <4>2. Len(delivered) + i \in 1..Len(Assembled)
        BY <3>2
      <4> QED
        BY <3>2, <4>1, <4>2, Zenon DEF w
    <3>4. CASE \E i \in 1..Len(delivered) : delivered[i] = w
      <4>1. PICK i \in 1..Len(delivered) : delivered[i] = w
        BY <3>4, Zenon
      <4>2. i \in 1..Len(Assembled)
        BY <3>2
      <4> QED
        BY <3>2, <4>1, <4>2 DEF w
    <3> QED
      BY <2>3, <3>3, <3>4, Zenon DEF PassedOn, w
  <2> QED
    BY <2>1, <2>2, <2>3, Zenon DEF Accounted
<1> QED
  BY <1>1, SpacedAlways, PTL

-----------------------------------------------------------------------------
(***************************************************************************)
(* The session implements the datagram service.                            *)
(***************************************************************************)
Offered == {Whole(n, sent[n]) : n \in 1..Len(sent)}
Trusted == SubSeq(delivered, 1, trusted)

\* A packet handed to send is a new one.
LEMMA SendOffers ==
    ASSUME SessionInv, NEW destination \in Addresses, NEW length \in 0..MaxUdpSize,
           NEW room \in Rooms, NEW queued \in 0..MaxFragments,
           Send(destination, length, room, queued)
    PROVE  \E p \in Offered' : p \notin Offered /\ Offered' = Offered \cup {p}
<1>0. PICK n : n = Len(sent')
  BY Zenon
<1>1. /\ sent' \in Seq(SentPacket)
      /\ Len(sent) \in Nat /\ n = Len(sent) + 1 /\ n \notin 1..Len(sent)
      /\ \A i \in 1..Len(sent) : i \in 1..n /\ sent'[i] = sent[i]
      /\ \A i \in 1..n : i \in 1..Len(sent) \/ i = n
  <2>1. /\ sent' \in Seq(SentPacket)
        /\ Len(sent) \in Nat /\ Len(sent') = Len(sent) + 1
        /\ \A i \in 1..Len(sent) : i \in 1..Len(sent') /\ sent'[i] = sent[i]
        /\ \A i \in 1..Len(sent') : i \in 1..Len(sent) \/ i = Len(sent) + 1
    BY SendFacts, Zenon
  <2> QED
    BY <1>0, <2>1
<1>2. n \in 1..n /\ sent'[n].total \in Nat \ {0}
  <2>1. n \in 1..n
    BY <1>1
  <2>2. sent'[n] \in SentPacket
    BY <1>0, <1>1, <2>1, ElementType, Zenon
  <2> QED
    BY <2>1, <2>2, DefraggerAssumption DEF SentPacket
<1> DEFINE p == Whole(n, sent'[n])
<1>3. Offered' = Offered \cup {p}
  BY <1>0, <1>1, <1>2, Zenon DEF Offered
<1>4. p \notin Offered
  <2> SUFFICES ASSUME NEW j \in 1..Len(sent), p = Whole(j, sent[j])
               PROVE  FALSE
    BY Zenon DEF Offered
  <2>1. sent[j].total \in Nat \ {0} /\ j # n
    BY <1>1, SentFacts, DefraggerAssumption
  <2> QED
    BY <1>2, <2>1, WholeNumber, Zenon
<1> QED
  BY <1>3, <1>4, Zenon

\* What recv returns while ids are spaced was offered and is new.
LEMMA RecvDelivers ==
    ASSUME SessionInv, SpacedInv, Recv, spaced, peer = "crate"
    PROVE  \E p \in Offered :
              /\ \A i \in 1..Len(Trusted) : Trusted[i] # p
              /\ Trusted' = Append(Trusted, p)
<1> DEFINE p == Head(incoming)
<1>1. /\ incoming \in Seq(Packet) /\ incoming # <<>> /\ delivered \in Seq(Packet)
      /\ delivered' = Append(delivered, p) /\ trusted' = Len(delivered')
  BY Zenon DEF Recv, recv, SessionInv, TypeOK, ReceiverTypeOK
<1>2. p = incoming[1] /\ 1 \in 1..Len(incoming) /\ p \in Packet
  BY <1>1, HeadTailFacts, Zenon
<1>3. Once
  BY Zenon DEF SpacedInv
<1> HIDE DEF p
<1>4. delivered' \in Seq(Packet)
  BY <1>1, <1>2, AppendFacts, Zenon
<1>5. Trusted = delivered /\ Trusted' = delivered'
  BY <1>1, <1>3, <1>4 DEF Trusted, Once
<1>6. p \in Offered
  BY <1>2, <1>3, Zenon DEF Once, IsWhole, Offered
<1>7. \A i \in 1..Len(delivered) : delivered[i] # p
  BY <1>2, <1>3, Zenon DEF Once
<1> QED
  BY <1>1, <1>5, <1>6, <1>7, Zenon

\* As long as ids are spaced, recv returns packets that were offered to send,
\* whole, for their own destination, and once each.
THEOREM SessionImplementsService == Spec => ServiceSpec
<1>1. Init => Service!Init
  <2> SUFFICES ASSUME Init PROVE Offered = {} /\ Trusted = <<>>
    BY Zenon DEF Service!Init, Offered, Trusted
  <2>1. sent = <<>> /\ delivered = <<>> /\ trusted = 0
    BY Zenon DEF Init
  <2> QED
    BY <2>1 DEF Offered, Trusted
<1>2. SessionInv /\ SpacedInv /\ [Next]_vars => [Service!Next]_<<Offered, Trusted>>
  <2> SUFFICES ASSUME SessionInv, SpacedInv, [Next]_vars
               PROVE  \/ /\ \E p \in Offered' : p \notin Offered /\ Offered' = Offered \cup {p}
                         /\ Trusted' = Trusted
                      \/ /\ \E p \in Offered :
                               /\ \A i \in 1..Len(Trusted) : Trusted[i] # p
                               /\ Trusted' = Append(Trusted, p)
                         /\ Offered' = Offered
                      \/ Offered' = Offered /\ Trusted' = Trusted
    BY Zenon DEF Service!Next, Service!Offer, Service!Deliver, Offered, Trusted
  <2>1. ASSUME NEW destination \in Addresses, NEW length \in 0..MaxUdpSize, NEW room \in Rooms,
               NEW queued \in 0..MaxFragments, Send(destination, length, room, queued)
        PROVE  /\ \E p \in Offered' : p \notin Offered /\ Offered' = Offered \cup {p}
               /\ Trusted' = Trusted
    <3>1. Trusted' = Trusted
      BY <2>1, Zenon DEF Send, Trusted
    <3> QED
      BY <2>1, <3>1, SendOffers, Zenon
  <2>2. CASE Recv /\ spaced /\ peer = "crate"
    <3>1. Offered' = Offered
      BY <2>2, Zenon DEF Recv, Offered
    <3> QED
      BY <2>2, <3>1, RecvDelivers
  <2>3. CASE Recv /\ ~(spaced /\ peer = "crate")
    <3>1. Offered' = Offered
      BY <2>3, Zenon DEF Recv, Offered
    <3>2. CASE peer # "crate"
      BY <2>3, <3>1, <3>2, Zenon DEF Recv, Trusted
    <3>3. CASE peer = "crate" /\ ~spaced
      <4>1. /\ incoming \in Seq(Packet) /\ incoming # <<>> /\ delivered \in Seq(Packet)
            /\ delivered' = Append(delivered, Head(incoming)) /\ trusted' = trusted
            /\ trusted \in 0..Len(delivered)
        BY <2>3, <3>3 DEF Recv, recv, SessionInv, TypeOK, ReceiverTypeOK
      <4>2. Head(incoming) \in Packet
        BY <4>1, HeadTailFacts, Zenon
      <4>3. /\ delivered' \in Seq(Packet) /\ Len(delivered) \in Nat /\ Len(delivered') = Len(delivered) + 1
            /\ \A i \in 1..Len(delivered) : delivered'[i] = delivered[i]
        BY <4>1, <4>2, AppendFacts
      <4>4. Trusted' = Trusted
        BY <4>1, <4>3 DEF Trusted
      <4> QED
        BY <3>1, <4>4, Zenon
    <3> QED
      BY <2>3, <3>2, <3>3, Zenon
  <2>4. CASE \/ SendRejected \/ Age \/ UNCHANGED vars
             \/ \E m \in network : Lose(m) \/ Input(m)
             \/ \E m \in ForeignMessage : InputForeign(m)
    <3>1. UNCHANGED <<sent, delivered, trusted>>
      BY <2>4, Zenon DEF SendRejected, Age, vars, Lose, Input, InputForeign
    <3> QED
      BY <3>1, Zenon DEF Offered, Trusted
  <2> QED
    BY <2>1, <2>2, <2>3, <2>4, Zenon DEF Next
<1> QED
  BY <1>1, <1>2, SpacedAlways, PTL DEF Spec, ServiceSpec, Service!Spec, Offered, Trusted
=============================================================================
