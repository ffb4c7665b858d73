----------------------------- MODULE Defragger -----------------------------
(***************************************************************************)
(* The receiving half of a Hysteria2 UDP session: `Defragger::feed` and    *)
(* `Hysteria2PacketConnection::{input, recv}` of hysteria2/packet.rs.      *)
(*                                                                         *)
(* The bytes of a fragment are one opaque value with a size; the           *)
(* concatenation of the parts is the function from positions to parts,     *)
(* which distinguishes whatever the concatenated bytes distinguish.        *)
(* `updated_at` is kept as the age `now - updated_at`, saturated one tick  *)
(* above the lifetime, where no comparison of the code can tell ages       *)
(* apart.                                                                  *)
(***************************************************************************)
EXTENDS Integers, Sequences, FiniteSets, FiniteSetsExt

CONSTANTS
    PacketIds,          \* u16 packet ids
    Addresses,          \* destinations
    Payloads,           \* fragment contents, records with a field size
    NoPart,             \* `None` in FragmentSet.parts
    MaxFragments,       \* u8::MAX
    MaxUdpSize,         \* MAX_UDP_SIZE
    FragmentLifetime,   \* FRAGMENT_LIFETIME, in ticks
    QueueCap            \* capacity of the `incoming` channel, 64 in the code

ASSUME DefraggerAssumption ==
    /\ MaxFragments \in Nat \ {0}
    /\ MaxUdpSize \in Nat
    /\ FragmentLifetime \in Nat
    /\ QueueCap \in Nat \ {0}
    /\ NoPart \notin Payloads

VARIABLES
    fragments,          \* Defragger.fragments: packet id -> FragmentSet
    incoming,           \* the bounded channel read by recv
    open                \* the QUIC connection has not been closed

receiverVars == <<fragments, incoming, open>>

UdpMessage ==
    [packet_id : PacketIds, fragment_id : 0..MaxFragments,
     fragment_total : 0..MaxFragments, destination : Addresses, data : Payloads]

Parts == UNION {[0..(n - 1) -> Payloads \cup {NoPart}] : n \in 2..MaxFragments}

FragmentSet ==
    [age : 0..(FragmentLifetime + 1), destination : Addresses,
     parts : Parts, received : Nat]

Packet == [data : UNION {[0..(n - 1) -> Payloads] : n \in 1..MaxFragments},
           destination : Addresses]

Put(f, x, v) == [y \in DOMAIN f \cup {x} |-> IF y = x THEN v ELSE f[y]]

-----------------------------------------------------------------------------
EmptySet(m) ==
    [age |-> 0, destination |-> m.destination,
     parts |-> [k \in 0..(m.fragment_total - 1) |-> NoPart], received |-> 0]

\* Slip: sets are never dropped for their age.
RetainedForever == fragments

\* Slip: a set is dropped at the very end of its lifetime, not after it.
RetainedTooShort ==
    Restrict(fragments, {id \in DOMAIN fragments : fragments[id].age < FragmentLifetime})

\* fragments.retain(..): the sets that survive the lifetime check.
Retained ==
    Restrict(fragments, {id \in DOMAIN fragments : fragments[id].age <= FragmentLifetime})

\* Slip: a set replaced for another total keeps the old count.
SetForOldCount(m) ==
    IF m.packet_id \notin DOMAIN Retained THEN EmptySet(m)
    ELSE IF DOMAIN Retained[m.packet_id].parts = 0..(m.fragment_total - 1)
         THEN Retained[m.packet_id]
         ELSE [EmptySet(m) EXCEPT !.received = Retained[m.packet_id].received]

\* The set the fragment goes to: the retained one of its packet id, or a new
\* one when there is none or when it expects another number of fragments.
SetFor(m) ==
    IF /\ m.packet_id \in DOMAIN Retained
       /\ DOMAIN Retained[m.packet_id].parts = 0..(m.fragment_total - 1)
    THEN Retained[m.packet_id]
    ELSE EmptySet(m)

\* Slip: fragments are kept in the order of arrival.
FilledInArrivalOrder(m) ==
    LET set == SetFor(m)
    IN  [set EXCEPT !.age = 0, !.parts[set.received] = m.data, !.received = @ + 1]

\* That set after the fragment: only an empty slot is filled and counted.
Filled(m) ==
    LET set == SetFor(m)
    IN  IF set.parts[m.fragment_id] = NoPart
        THEN [set EXCEPT !.age = 0, !.parts[m.fragment_id] = m.data, !.received = @ + 1]
        ELSE [set EXCEPT !.age = 0]

Length(parts) == MapThenSumSet(LAMBDA k : parts[k].size, DOMAIN parts)

\* incoming_sender.try_send(packet), its failure ignored.
TrySend(packet) ==
    incoming' = IF Len(incoming) < QueueCap THEN Append(incoming, packet) ELSE incoming

\* An unfragmented message is a packet at once.
InputWhole(m) ==
    /\ m.fragment_total <= 1
    /\ TrySend([data |-> [k \in {0} |-> m.data], destination |-> m.destination])
    /\ UNCHANGED <<fragments, open>>

\* A fragment whose index is outside its packet is ignored.
InputIgnored(m) ==
    /\ m.fragment_total > 1
    /\ m.fragment_id >= m.fragment_total
    /\ UNCHANGED <<fragments, incoming, open>>

\* A fragment that leaves its set incomplete.
InputPartial(m) ==
    /\ m.fragment_total > 1
    /\ m.fragment_id < m.fragment_total
    /\ Filled(m).received # m.fragment_total
    /\ fragments' = Put(Retained, m.packet_id, Filled(m))
    /\ UNCHANGED <<incoming, open>>

\* A fragment that completes its set. A packet above the limit is an error
\* of input, which ends serve_connection and with it the connection.
InputComplete(m) ==
    /\ m.fragment_total > 1
    /\ m.fragment_id < m.fragment_total
    /\ Filled(m).received = m.fragment_total
    /\ fragments' = Restrict(Retained, DOMAIN Retained \ {m.packet_id})
    /\ IF Length(Filled(m).parts) <= MaxUdpSize
       THEN /\ TrySend([data |-> Filled(m).parts, destination |-> Filled(m).destination])
            /\ UNCHANGED open
       ELSE /\ open' = FALSE
            /\ UNCHANGED incoming

input(m) ==
    /\ open
    /\ \/ InputWhole(m)
       \/ InputIgnored(m)
       \/ InputPartial(m)
       \/ InputComplete(m)

\* recv takes from the channel; while the connection is closed its select may
\* still choose a queued packet.
recv ==
    /\ incoming # <<>>
    /\ incoming' = Tail(incoming)
    /\ UNCHANGED <<fragments, open>>

Tick ==
    /\ fragments' = [id \in DOMAIN fragments |->
                        [fragments[id] EXCEPT !.age =
                            IF @ <= FragmentLifetime THEN @ + 1 ELSE @]]
    /\ UNCHANGED <<incoming, open>>

ReceiverInit ==
    /\ fragments = <<>>
    /\ incoming = <<>>
    /\ open = TRUE

-----------------------------------------------------------------------------
(***************************************************************************)
(* The receiver against a peer that may put any values into the fields of  *)
(* a message that decodes.                                                 *)
(***************************************************************************)
ReceiverNext ==
    \/ \E m \in UdpMessage : input(m)
    \/ recv
    \/ Tick

ReceiverSpec == ReceiverInit /\ [][ReceiverNext]_receiverVars

(***************************************************************************)
(* Types of the receiver state. A packet in the channel has all its parts, *)
(* so neither `expect("complete Hysteria2 fragment")` of feed can fail.    *)
(***************************************************************************)
ReceiverTypeOK ==
    /\ DOMAIN fragments \subseteq PacketIds
    /\ \A id \in DOMAIN fragments : fragments[id] \in FragmentSet
    /\ incoming \in Seq(Packet)
    /\ Len(incoming) <= QueueCap
    /\ open \in BOOLEAN

FilledSlots(set) == {k \in DOMAIN set.parts : set.parts[k] # NoPart}

(***************************************************************************)
(* The counter `received` of every set is the number of its filled slots,  *)
(* and no set is empty or complete: whatever fragments arrive, in whatever *)
(* order and with whatever totals, feed removes a set with the fragment    *)
(* that completes it and with no other.                                    *)
(***************************************************************************)
CountsAreExact ==
    \A id \in DOMAIN fragments :
        LET set == fragments[id]
        IN  /\ set.received = Cardinality(FilledSlots(set))
            /\ 0 < set.received
            /\ set.received < Cardinality(DOMAIN set.parts)

=============================================================================
