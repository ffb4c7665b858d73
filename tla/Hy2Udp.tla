------------------------------- MODULE Hy2Udp -------------------------------
(***************************************************************************)
(* One direction of a Hysteria2 UDP session: the sender                    *)
(* (`Hysteria2PacketConnection::send`), the QUIC datagrams in flight, which *)
(* may be lost and reordered but are never duplicated, and the receiver of *)
(* module Defragger. The peer is this crate, or another implementation     *)
(* that may put any values into the fields of a message that decodes.      *)
(*                                                                         *)
(* Every packet handed to send has a number, its place in `sent`; the      *)
(* bytes of a fragment are the chunk <<number, index, size>>, so a packet  *)
(* assembled from the chunks of two packets is told apart from both.       *)
(***************************************************************************)
EXTENDS Defragger

CONSTANTS
    IdSpace,            \* u16::MAX, the modulus of packet ids
    CounterSpace,       \* 2^32, where next_packet_id wraps
    Lengths,            \* payload lengths tried for each packet
    Rooms,              \* values of max_datagram_size - header_size tried
    Foreign,            \* fragment contents of another implementation
    MaxSends            \* bound on the packets of a behaviour

ASSUME Hy2UdpAssumption ==
    /\ IdSpace \in Nat \ {0}
    /\ CounterSpace \in Nat \ {0}
    /\ Lengths \in [1..MaxSends -> SUBSET Nat]
    /\ Rooms \subseteq Nat \ {0}
    /\ Foreign \subseteq Payloads
    /\ MaxSends \in Nat
    /\ PacketIds = 0..(IdSpace - 1)
    /\ Payloads = [packet : 1..MaxSends, index : 0..MaxFragments, size : 0..MaxUdpSize]

VARIABLES
    peer,               \* "crate" or "any"
    next_packet_id,     \* the u32 counter
    sent,               \* packets fragmented so far, in order (history)
    network,            \* messages in flight
    delivered,          \* packets recv has returned, in order (history)
    disturbed,          \* numbers of packets that lost a fragment (history)
    spaced,             \* every id was quiet when it was drawn (history)
    trusted             \* packets delivered while spaced (history)

vars == <<receiverVars, peer, next_packet_id, sent, network, delivered, disturbed,
          spaced, trusted>>

Chunk(n, p, k) ==
    [packet |-> n, index |-> k,
     size |-> IF p.length - k * p.room < p.room THEN p.length - k * p.room ELSE p.room]

Fragment(n, p, k) ==
    [packet_id |-> p.packet_id, fragment_id |-> k, fragment_total |-> p.total,
     destination |-> p.destination, data |-> Chunk(n, p, k)]

Whole(n, p) ==
    [data |-> [k \in 0..(p.total - 1) |-> Chunk(n, p, k)], destination |-> p.destination]

-----------------------------------------------------------------------------
Wrapped == (next_packet_id + 1) % CounterSpace

NextId == Wrapped % IdSpace

(***************************************************************************)
(* The code never checks that a packet id is free. An id is quiet when     *)
(* nothing of its last packet is in flight and the fragments the receiver  *)
(* still holds for it have outlived FRAGMENT_LIFETIME, which is what the   *)
(* size of the id space is meant to guarantee.                             *)
(***************************************************************************)
IdQuiet(id) ==
    /\ \A m \in network : m.packet_id # id
    /\ id \in DOMAIN fragments => fragments[id].age > FragmentLifetime

\* data.len().div_ceil(fragment_size).max(1)
FragmentTotal(length, room) ==
    IF length = 0 THEN 1 ELSE (length + room - 1) \div room

\* The packet is cut into chunks and each is sent as a datagram. The loop
\* stops at the first send_datagram that fails: `queued` fragments went out.
Send(destination, length, room, queued) ==
    LET total == FragmentTotal(length, room)
        p == [destination |-> destination, length |-> length, room |-> room,
              total |-> total, packet_id |-> NextId]
        n == Len(sent) + 1
    IN  /\ peer = "crate"
        /\ Len(sent) < MaxSends
        /\ length \in Lengths[n]
        /\ length <= MaxUdpSize
        /\ total <= MaxFragments
        /\ queued \in 0..total
        /\ next_packet_id' = Wrapped
        /\ sent' = Append(sent, p)
        /\ network' = network \cup {Fragment(n, p, k) : k \in 0..(queued - 1)}
        /\ disturbed' = IF queued = total THEN disturbed ELSE disturbed \cup {n}
        /\ spaced' = (spaced /\ IdQuiet(NextId))
        /\ UNCHANGED <<receiverVars, peer, delivered, trusted>>

\* An error after the id is drawn (address, header or fragment count too
\* large) spends the id and sends nothing.
SendRejected ==
    /\ peer = "crate"
    /\ next_packet_id' = Wrapped
    /\ UNCHANGED <<receiverVars, peer, sent, network, delivered, disturbed, spaced, trusted>>

Lose(m) ==
    /\ network' = network \ {m}
    /\ disturbed' = disturbed \cup {m.data.packet}
    /\ UNCHANGED <<receiverVars, peer, next_packet_id, sent, delivered, spaced, trusted>>

CompletesPacket(m) ==
    \/ m.fragment_total <= 1
    \/ m.fragment_id < m.fragment_total /\ Filled(m).received = m.fragment_total

Input(m) ==
    /\ input(m)
    /\ network' = network \ {m}
    /\ disturbed' = IF CompletesPacket(m) /\ Len(incoming) = QueueCap
                    THEN disturbed \cup {m.data.packet}
                    ELSE disturbed
    /\ UNCHANGED <<peer, next_packet_id, sent, delivered, spaced, trusted>>

\* A message of another implementation.
InputForeign(m) ==
    /\ peer = "any"
    /\ input(m)
    /\ UNCHANGED <<peer, next_packet_id, sent, network, delivered, disturbed, spaced, trusted>>

\* The history of deliveries is kept for the packets of this crate.
Recv ==
    /\ recv
    /\ IF peer = "crate"
       THEN /\ delivered' = Append(delivered, Head(incoming))
            /\ trusted' = IF spaced THEN Len(delivered') ELSE trusted
       ELSE UNCHANGED <<delivered, trusted>>
    /\ UNCHANGED <<peer, next_packet_id, sent, network, disturbed, spaced>>

Expiring == {id \in DOMAIN fragments : fragments[id].age = FragmentLifetime}

HeldBy(ids) == UNION {Range(fragments[id].parts) \ {NoPart} : id \in ids}

\* Time passes; the packets of a set that outlives the lifetime are disturbed.
Age ==
    /\ Tick
    /\ disturbed' = disturbed \cup {c.packet : c \in HeldBy(Expiring)}
    /\ UNCHANGED <<peer, next_packet_id, sent, network, delivered, spaced, trusted>>

Init ==
    /\ ReceiverInit
    /\ peer \in {"crate", "any"}
    /\ next_packet_id = 0
    /\ sent = <<>>
    /\ network = {}
    /\ delivered = <<>>
    /\ disturbed = {}
    /\ spaced = TRUE
    /\ trusted = 0

ForeignMessage ==
    [packet_id : PacketIds, fragment_id : 0..MaxFragments,
     fragment_total : 0..MaxFragments, destination : Addresses, data : Foreign]

Next ==
    \/ \E destination \in Addresses, length \in 0..MaxUdpSize, room \in Rooms,
          queued \in 0..MaxFragments : Send(destination, length, room, queued)
    \/ SendRejected
    \/ \E m \in network : Lose(m) \/ Input(m)
    \/ \E m \in ForeignMessage : InputForeign(m)
    \/ Recv
    \/ Age

Spec == Init /\ [][Next]_vars

-----------------------------------------------------------------------------
SentPacket ==
    [destination : Addresses, length : 0..MaxUdpSize, room : Nat \ {0},
     total : 1..MaxFragments, packet_id : PacketIds]

(***************************************************************************)
(* Types of the session: the receiver's, and a sender whose ids fit u16    *)
(* and whose fragments in flight are fragments of packets it was given.    *)
(***************************************************************************)
TypeOK ==
    /\ ReceiverTypeOK
    /\ peer \in {"crate", "any"}
    /\ next_packet_id \in 0..(CounterSpace - 1)
    /\ sent \in Seq(SentPacket)
    /\ Len(sent) <= MaxSends
    /\ \A m \in network : \E n \in 1..Len(sent) :
          \E k \in 0..(sent[n].total - 1) : m = Fragment(n, sent[n], k)
    /\ delivered \in Seq(Packet)
    /\ disturbed \subseteq 1..MaxSends
    /\ spaced \in BOOLEAN
    /\ trusted \in 0..Len(delivered)

(***************************************************************************)
(* The state is well formed, and the fragment sets of feed are in order:   *)
(* each counts its filled slots and none is empty or complete, whatever    *)
(* fragments arrive, of this crate or of any other peer.                   *)
(***************************************************************************)
WellFormed == TypeOK /\ CountsAreExact

\* Packets the receiver has assembled and kept, oldest first.
Assembled == delivered \o incoming

(***************************************************************************)
(* As long as ids are spaced, a packet of which no fragment was lost,      *)
(* expired or met a full channel, and none is in flight, has been passed   *)
(* on: the defragger never sits on a packet it has all parts of, and a     *)
(* sender whose payloads keep to MAX_UDP_SIZE never makes reassembly fail, *)
(* which would end the whole connection with its TCP streams.              *)
(***************************************************************************)
NothingWithheld ==
    spaced /\ peer = "crate" =>
        /\ open
        /\ \A n \in 1..Len(sent) :
              \/ n \in disturbed
              \/ \E m \in network : m.data.packet = n
              \/ \E i \in 1..Len(Assembled) : Assembled[i] = Whole(n, sent[n])

(***************************************************************************)
(* With no assumption on id reuse, the damage feed can do is bounded: a    *)
(* packet it passes on may mix packets, but only packets of one id and one *)
(* fragment count, and each chunk is at the place it was cut from.         *)
(***************************************************************************)
MixesOnlyOneId ==
    peer = "crate" =>
    \A i \in 1..Len(Assembled) :
        LET data == Assembled[i].data
        IN  \A k, l \in DOMAIN data :
              /\ data[k].index = k
              /\ sent[data[k].packet].total = Cardinality(DOMAIN data)
              /\ sent[data[k].packet].packet_id = sent[data[l].packet].packet_id

Service == INSTANCE DatagramService
    WITH offered <- {Whole(n, sent[n]) : n \in 1..Len(sent)},
         delivered <- SubSeq(delivered, 1, trusted)

(***************************************************************************)
(* As long as ids are spaced, the session implements the datagram service: *)
(* every packet recv returns was offered to send before, is complete, in   *)
(* order and for its own destination, and is returned once, although       *)
(* fragments are lost, reordered and expire.                               *)
(***************************************************************************)
ServiceSpec == Service!Spec

=============================================================================
