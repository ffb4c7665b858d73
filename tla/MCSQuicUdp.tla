----------------------------- MODULE MCSQuicUdp -----------------------------
(* Small instances of UDP over SQuic: two associations.                     *)
EXTENDS SQuicUdp

CONSTANTS a1, a2

MCSafety == {[role |-> "server", streaming |-> {a2}]}

MCLive ==
    MCSafety \cup {[role |-> r, streaming |-> {}] : r \in {"client", "server"}}
=============================================================================
