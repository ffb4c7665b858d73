-------------------------- MODULE DatagramService --------------------------
(***************************************************************************)
(* What a UDP relay promises its users, whatever it does underneath: a     *)
(* packet that is delivered is one that was offered, with the destination  *)
(* and the bytes it was offered with, and it is delivered at most once.    *)
(* Packets may be lost and may overtake each other. Every packet has an    *)
(* identity of its own.                                                    *)
(***************************************************************************)
EXTENDS Naturals, Sequences

VARIABLES
    offered,            \* packets a caller has handed to send
    delivered           \* packets returned by recv, in order

Init ==
    /\ offered = {}
    /\ delivered = <<>>

Offer ==
    /\ \E p \in offered' : p \notin offered /\ offered' = offered \cup {p}
    /\ UNCHANGED delivered

Deliver ==
    /\ \E p \in offered :
        /\ \A i \in 1..Len(delivered) : delivered[i] # p
        /\ delivered' = Append(delivered, p)
    /\ UNCHANGED offered

Next == Offer \/ Deliver

Spec == Init /\ [][Next]_<<offered, delivered>>
=============================================================================
