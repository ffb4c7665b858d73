------------------------ MODULE MCConnectionStreams ------------------------
(***************************************************************************)
(* Bounds for TLC. Host texts of 7, 12, 14, 63 and 70 bytes put the length  *)
(* of an address on both sides of the step from one to two varint bytes    *)
(* (with the port: 64), and beyond the limit.                              *)
(***************************************************************************)
EXTENDS ConnectionStreams

MCHosts == 1..5
MCForm == <<"v4", "v6", "v6", "name", "idn">>
MCLength == <<7, 12, 14, 63, 70>>
MCCanonical == <<1, 2, 2, 4, 5>>

MCResponses ==
    {[status |-> 200, body |-> 1, length |-> {3}, hop |-> {"Transfer-Encoding", "Upgrade"}],
     [status |-> 304, body |-> 1, length |-> {}, hop |-> {}]}
=============================================================================
