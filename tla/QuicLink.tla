------------------------------ MODULE QuicLink ------------------------------
(***************************************************************************)
(* What the two ends of the SQuic models share: the QUIC connections       *)
(* between one client endpoint and one server endpoint, as quinn shows     *)
(* them to both. Dialling sends an initial packet; the server accepts it,  *)
(* the TLS handshake brings the connection up; from any state it may be    *)
(* closed by either end or lost.                                           *)
(***************************************************************************)
EXTENDS Naturals, Sequences

CONSTANTS
    Callers             \* tasks of the client; a connection has its dialler's name

Conns == Callers

VARIABLES
    protocol,           \* "Jls" for ShadowQUIC, "Sunny" for SunnyQUIC
    net,                \* state of each connection
    jls                 \* connections whose handshake was authenticated by JLS

linkVars == <<protocol, net, jls>>

NetStates == {"none", "initial", "accepted", "up", "closed"}

LinkInit ==
    /\ protocol \in {"Jls", "Sunny"}
    /\ net = [n \in Conns |-> "none"]
    /\ jls = {}

Jls == protocol = "Jls"

\* Connections that exist and have no close reason.
Open == {n \in Conns : net[n] \in {"initial", "accepted", "up"}}

\* Peer reset, idle timeout, a handshake that fails or times out.
Lost(n) ==
    /\ n \in Open
    /\ net' = [net EXCEPT ![n] = "closed"]
    /\ UNCHANGED <<protocol, jls>>
=============================================================================
