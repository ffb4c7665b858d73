------------------------- MODULE ConnectionStreams -------------------------
(***************************************************************************)
(* The streams of one connection, once its first request has decided what  *)
(* it is: a proxy connection of Hysteria2 or of SQuic, or a connection     *)
(* that the Hysteria2 server treats like a web server would.               *)
(***************************************************************************)
EXTENDS TcpStreams, Masquerade

VARIABLES
    authenticated       \* the first request authenticated the connection

vars == <<authenticated, tcpVars, masqueradeVars>>

Init ==
    /\ authenticated \in BOOLEAN
    /\ TcpInit
    /\ MasqueradeInit
    /\ ~authenticated => framing = "hysteria2"
    /\ authenticated => ~handler

Proxy(A) == authenticated /\ A /\ UNCHANGED <<authenticated, masqueradeVars>>

Website(A) == ~authenticated /\ A /\ UNCHANGED <<authenticated, tcpVars>>

Next == Proxy(TcpNext) \/ Website(MasqueradeNext)

(***************************************************************************)
(* Tasks that can go on are polled again, quinn delivers what was written  *)
(* on a connection that stays open, and the masquerade handler answers.    *)
(* Nothing is assumed of the applications and of the masquerade client.    *)
(***************************************************************************)
Fairness ==
    /\ \A s \in Streams : WF_vars(Proxy(ClientStep(s))) /\ WF_vars(Proxy(ServerStep(s)))
    /\ \A r \in Requests : WF_vars(Website(TaskStep(r)))
    /\ WF_vars(Website(LoopStep))

Spec == Init /\ [][Next]_vars /\ Fairness

=============================================================================
