---------------------------- MODULE Hy2Handshake ----------------------------
(***************************************************************************)
(* A Hysteria2 client and server from the callers of `Client::connect` to  *)
(* an authenticated connection: the cached connection behind a mutex       *)
(* (`Client::connection`), `authenticate`, the first request of the        *)
(* server's `serve_connection`, and the bandwidth negotiation of both.     *)
(*                                                                         *)
(* A rate of Brutal is a positive number; BBR, the absence of one, is 0.   *)
(* The header `hysteria-cc-rx` is "auto", a number, or text that does not  *)
(* parse (an absent header included).                                      *)
(***************************************************************************)
EXTENDS Naturals, FiniteSets

CONSTANTS
    Callers,            \* tasks, each of which calls Client::connect once
    Rates,              \* configured rates tried, 0 for "not configured"
    None                \* no caller, no connection

ASSUME Hy2HandshakeAssumption ==
    /\ Rates \subseteq Nat /\ 0 \in Rates
    /\ None \notin Callers

\* A caller dials at most once, so its connection goes by its name.
Conns == Callers

Header ==
    [text : {"number"}, rate : Rates] \cup [text : {"auto", "garbage"}, rate : {0}]

NoHeader == [text |-> "garbage", rate |-> 0]

VARIABLES
    config,             \* options of both endpoints, fixed from the start
    holder,             \* the caller that holds the mutex of Client.connection
    cached,             \* the connection behind it
    pc,                 \* progress of each caller
    mine,               \* the connection each caller works with
    live,               \* connections that are not closed
    status,             \* server's view: "new", "established" or "masquerade"
    answer,             \* hysteria-cc-rx of the 233 response
    clientRate,         \* rate the client gave to Brutal, 0 while on BBR
    serverRate          \* rate the server gave to Brutal, 0 while on BBR

vars == <<config, holder, cached, pc, mine, live, status, answer, clientRate,
          serverRate>>

serverVars == <<status, answer, serverRate>>

\* clientHeader is what the client asks for. This crate's client always sends
\* a number; the server must also cope with what other clients send.
Config ==
    [password : BOOLEAN, clientSend : Rates, clientHeader : Header,
     serverSend : Rates, serverReceive : Rates, ignore : BOOLEAN]

Init ==
    /\ config \in Config
    /\ holder = None
    /\ cached = None
    /\ pc = [c \in Callers |-> "idle"]
    /\ mine = [c \in Callers |-> None]
    /\ live = {}
    /\ status = [n \in Conns |-> "new"]
    /\ answer = [n \in Conns |-> NoHeader]
    /\ clientRate = [n \in Conns |-> 0]
    /\ serverRate = [n \in Conns |-> 0]

-----------------------------------------------------------------------------
(***************************************************************************)
(* Bandwidth negotiation: protocol.rs and the two negotiated_send_rate.    *)
(***************************************************************************)
parse_congestion_receive(header) ==
    [auto |-> header.text = "auto",
     rate |-> IF header.text = "number" THEN header.rate ELSE 0]

congestion_receive_value(receive) ==
    IF receive.auto THEN [text |-> "auto", rate |-> 0]
                    ELSE [text |-> "number", rate |-> receive.rate]

\* Slip: the larger of the two rates.
client_send_rate_larger(send, receive) ==
    IF receive.auto THEN 0
    ELSE IF receive.rate < send THEN send ELSE receive.rate

client_send_rate(send, receive) ==
    IF receive.auto THEN 0
    ELSE IF receive.rate = 0 \/ receive.rate > send THEN send ELSE receive.rate

server_send_rate(receive) ==
    IF \/ config.serverReceive = 0 /\ config.ignore
       \/ receive.auto
       \/ receive.rate = 0
    THEN 0
    ELSE IF config.serverSend > 0 /\ receive.rate > config.serverSend
         THEN config.serverSend
         ELSE receive.rate

\* The server insists on a client rate but the client names none.
RefusesRate(receive) ==
    config.serverReceive > 0 /\ config.ignore /\ (receive.auto \/ receive.rate = 0)

\* advertised_receive: its receive rate if it sends with Brutal itself.
Advertised(rate) ==
    IF rate > 0 THEN [auto |-> FALSE, rate |-> config.serverReceive]
                ELSE [auto |-> TRUE, rate |-> 0]

-----------------------------------------------------------------------------
(***************************************************************************)
(* The client: Client::connect of one caller.                              *)
(***************************************************************************)
Call(c) ==
    /\ pc[c] = "idle"
    /\ pc' = [pc EXCEPT ![c] = "waiting"]
    /\ UNCHANGED <<config, holder, cached, mine, live, clientRate, serverVars>>

\* The mutex is free and the cached connection has no close reason.
UseCached(c) ==
    /\ pc[c] = "waiting"
    /\ holder = None
    /\ cached \in live
    /\ mine' = [mine EXCEPT ![c] = cached]
    /\ pc' = [pc EXCEPT ![c] = "opening"]
    /\ UNCHANGED <<config, holder, cached, live, clientRate, serverVars>>

\* Slip: the mutex is not held while dialling.
StartDialUnlocked(c) ==
    /\ pc[c] = "waiting"
    /\ cached \notin live
    /\ pc' = [pc EXCEPT ![c] = "dialling"]
    /\ UNCHANGED <<config, holder, cached, mine, live, clientRate, serverVars>>

StartDial(c) ==
    /\ pc[c] = "waiting"
    /\ holder = None
    /\ cached \notin live
    /\ holder' = c
    /\ pc' = [pc EXCEPT ![c] = "dialling"]
    /\ UNCHANGED <<config, cached, mine, live, clientRate, serverVars>>

\* Slip: only success releases the mutex.
StaysLocked(c) == IF holder = c /\ status[c] # "established" THEN c ELSE None

Unlocked(c) == IF holder = c THEN None ELSE holder

\* The QUIC handshake ends and the authentication request is sent.
Dialled(c) ==
    /\ pc[c] = "dialling"
    /\ live' = live \cup {c}
    /\ mine' = [mine EXCEPT ![c] = c]
    /\ pc' = [pc EXCEPT ![c] = "authenticating"]
    /\ UNCHANGED <<config, holder, cached, clientRate, serverVars>>

\* The caller ends with outcome o: it lets go of the mutex, and of a
\* connection that is not the cached one, which closes with its last handle.
Finish(c, o) ==
    /\ pc' = [pc EXCEPT ![c] = o]
    /\ holder' = Unlocked(c)
    /\ live' = IF mine[c] = cached THEN live ELSE live \ {mine[c]}
    /\ UNCHANGED <<config, cached, mine, clientRate, serverVars>>

DialFails(c) == pc[c] = "dialling" /\ Finish(c, "failed")

\* Any status but 233, or a connection lost before the response.
AuthFails(c) ==
    /\ pc[c] = "authenticating"
    /\ status[c] = "masquerade" \/ c \notin live
    /\ Finish(c, "failed")

\* Slip: the status of the response is not looked at.
AuthenticatedAnyStatus(c) ==
    /\ pc[c] = "authenticating"
    /\ c \in live
    /\ status[c] # "new"
    /\ clientRate' = [clientRate EXCEPT ![c] =
           client_send_rate(config.clientSend, parse_congestion_receive(answer[c]))]
    /\ cached' = c
    /\ holder' = Unlocked(c)
    /\ pc' = [pc EXCEPT ![c] = "opening"]
    /\ UNCHANGED <<config, mine, live, serverVars>>

Authenticated(c) ==
    /\ pc[c] = "authenticating"
    /\ c \in live
    /\ status[c] = "established"
    /\ clientRate' = [clientRate EXCEPT ![c] =
           client_send_rate(config.clientSend, parse_congestion_receive(answer[c]))]
    /\ cached' = c
    /\ holder' = Unlocked(c)
    /\ pc' = [pc EXCEPT ![c] = "opening"]
    /\ UNCHANGED <<config, mine, live, serverVars>>

\* open_bi, the request of the caller and the response of the server, which
\* may also be an error or fail to come.
Open(c) ==
    /\ pc[c] = "opening"
    /\ \/ /\ mine[c] \in live
          /\ status[mine[c]] = "established"
          /\ Finish(c, "proxied")
       \/ Finish(c, "failed")

\* The caller's future is dropped at one of its awaits.
Cancel(c) ==
    /\ pc[c] \in {"waiting", "dialling", "authenticating", "opening"}
    /\ Finish(c, "cancelled")

-----------------------------------------------------------------------------
(***************************************************************************)
(* The server: the first request of serve_connection.                      *)
(***************************************************************************)
Masquerade(n) ==
    /\ status[n] = "new"
    /\ n \in live
    /\ ~config.password \/ RefusesRate(parse_congestion_receive(config.clientHeader))
    /\ status' = [status EXCEPT ![n] = "masquerade"]
    /\ UNCHANGED <<config, holder, cached, pc, mine, live, answer, clientRate,
                   serverRate>>

Establish(n) ==
    LET receive == parse_congestion_receive(config.clientHeader)
        rate == server_send_rate(receive)
    IN  /\ status[n] = "new"
        /\ n \in live
        /\ config.password /\ ~RefusesRate(receive)
        /\ status' = [status EXCEPT ![n] = "established"]
        /\ serverRate' = [serverRate EXCEPT ![n] = rate]
        /\ answer' = [answer EXCEPT ![n] = congestion_receive_value(Advertised(rate))]
        /\ UNCHANGED <<config, holder, cached, pc, mine, live, clientRate>>

\* Either side closes, or the transport gives up (idle timeout).
ConnectionLost(n) ==
    /\ n \in live
    /\ live' = live \ {n}
    /\ UNCHANGED <<config, holder, cached, pc, mine, clientRate, serverVars>>

CallerStep(c) ==
    \/ UseCached(c) \/ StartDial(c) \/ Dialled(c) \/ DialFails(c)
    \/ AuthFails(c) \/ Authenticated(c) \/ Open(c)

Respond(n) == Masquerade(n) \/ Establish(n)

Next ==
    \/ \E c \in Callers : Call(c) \/ CallerStep(c) \/ Cancel(c)
    \/ \E n \in Conns : Respond(n) \/ ConnectionLost(n)

\* Runtime and transport make progress: a caller that can go on does, and a
\* request is answered unless its connection is lost. The mutex needs no
\* stronger fairness, every caller takes it once.
Fairness ==
    /\ \A c \in Callers : WF_vars(CallerStep(c))
    /\ \A n \in Conns : WF_vars(Respond(n))

Spec == Init /\ [][Next]_vars /\ Fairness

-----------------------------------------------------------------------------
\* Types of the state of Hy2Handshake.
TypeOK ==
    /\ config \in Config
    /\ holder \in Callers \cup {None}
    /\ cached \in Conns \cup {None}
    /\ pc \in [Callers -> {"idle", "waiting", "dialling", "authenticating", "opening",
                           "proxied", "failed", "cancelled"}]
    /\ mine \in [Callers -> Conns \cup {None}]
    /\ live \subseteq Conns
    /\ status \in [Conns -> {"new", "established", "masquerade"}]
    /\ answer \in [Conns -> Header]
    /\ clientRate \in [Conns -> Rates]
    /\ serverRate \in [Conns -> Rates]

\* Client::connection is single-flight: whatever its callers do, and wherever
\* one is cancelled or loses its connection, the client never has two open
\* connections, and the mutex is held by a caller that is still dialling.
SingleFlight ==
    /\ Cardinality(live) <= 1
    /\ holder # None => pc[holder] \in {"dialling", "authenticating"}

\* A connection a caller is given to open streams on, dialled or cached, is
\* one the server authenticated and not one it masquerades on.
OnlyEstablished ==
    \A c \in Callers :
        pc[c] \in {"opening", "proxied"} =>
            config.password /\ status[mine[c]] = "established"

\* The rates the two ends settle on, whatever the two configurations: no
\* sender exceeds what its peer said it can receive, nor its own configured
\* limit; and a positive client rate makes Brutal of both directions that have
\* a rate to use, unless the server ignores client bandwidth and has no receive
\* rate itself: then both sides stay on BBR.
RatesAgreed ==
    \A n \in Conns :
        LET automatic == config.ignore /\ config.serverReceive = 0
        IN  /\ clientRate[n] <= config.clientSend
            /\ config.serverReceive > 0 => clientRate[n] <= config.serverReceive
            /\ serverRate[n] <= config.clientHeader.rate
            /\ config.serverSend > 0 => serverRate[n] <= config.serverSend
            /\ automatic => clientRate[n] = 0 /\ serverRate[n] = 0
            /\ n = cached /\ ~automatic /\ config.clientHeader.rate > 0 =>
                  /\ serverRate[n] > 0
                  /\ config.clientSend > 0 => clientRate[n] > 0

\* PROTOCOL.md: "The server responds with its receive rate in
\* `Hysteria-CC-RX`", here of a server that has one: its receive rate is fixed,
\* so the exception for ignore_client_bandwidth and an automatic receive rate
\* does not apply.
RespondsWithReceiveRate ==
    \A n \in Conns :
        status[n] = "established" /\ config.serverReceive > 0 =>
            answer[n] = [text |-> "number", rate |-> config.serverReceive]

\* Every caller of connect gets an answer: no failure, cancellation or lost
\* connection leaves the mutex locked or a caller waiting for good.
CallersAnswered ==
    \A c \in Callers : pc[c] # "idle" ~> pc[c] \in {"proxied", "failed", "cancelled"}

=============================================================================
