-------------------------- MODULE MCSQuicEndpoints --------------------------
(***************************************************************************)
(* Bounds for TLC: two callers under an unchanging configuration; one      *)
(* caller during two updates that may overlap; and one caller whose        *)
(* connection carries two streams that compete for the accept queue.       *)
(***************************************************************************)
EXTENDS SQuicEndpoints

One == {CHOOSE c \in Callers : TRUE}

MCScenes ==
    {[callers |-> Callers, updates |-> {}, streams |-> {}],
     [callers |-> One, updates |-> Updates, streams |-> {}],
     [callers |-> One, updates |-> {}, streams |-> Streams]}
=============================================================================
