-------------------------- MODULE ConnectionProofs --------------------------
(***************************************************************************)
(* Proofs about four components that work around a connection, each on its *)
(* own and for every size: the Hysteria2 handshake, the tasks of a SQuic   *)
(* server that wait for authentication, the registry of UDP routes, and    *)
(* the inactivity timers of a Hysteria2 session.                           *)
(***************************************************************************)
EXTENDS Hy2Handshake, SQuicAuth, IncomingUdpRegistry, Hy2Inactivity,
        FiniteSetTheorems, TLAPS

(***************************************************************************)
(* Hy2Handshake: the client is single-flight, hands out authenticated      *)
(* connections only, and agrees on rates with the server, for any number   *)
(* of callers and any configured rates.                                    *)
(***************************************************************************)
Dialling == {"dialling", "authenticating"}

Over == {"opening", "proxied", "failed", "cancelled"}

\* The mutex is held by the caller that dials, and by nobody else.
MutexHeld == \A c \in Callers : pc[c] \in Dialling <=> holder = c

\* A caller works with its own connection until that is cached; a connection is
\* up only once it was dialled, and cached only when its dialler is past that.
Progress ==
    /\ \A c \in Callers : pc[c] = "authenticating" => mine[c] = c
    /\ \A c \in live : pc[c] \notin {"idle", "waiting", "dialling"}
    /\ cached # None => pc[cached] \in Over

\* A live connection is cached or being authenticated, and not both exist.
LiveIsKnown ==
    /\ \A n \in live : n = cached \/ n = holder
    /\ holder # None => cached \notin live

\* What callers are given was authenticated.
Given ==
    /\ \A n \in Conns : status[n] = "established" => config.password
    /\ \A c \in Callers : pc[c] \in {"opening", "proxied"} =>
          mine[c] \in Conns /\ status[mine[c]] = "established"
    /\ cached # None => status[cached] = "established"

Asked == parse_congestion_receive(config.clientHeader)

ClientRateOf(header) == client_send_rate(config.clientSend, parse_congestion_receive(header))

\* The rates and the response of a connection are those of the negotiation.
Negotiated ==
    \A n \in Conns :
        /\ status[n] # "established" => serverRate[n] = 0 /\ clientRate[n] = 0
        /\ status[n] = "established" =>
              /\ serverRate[n] = server_send_rate(Asked)
              /\ answer[n] = congestion_receive_value(Advertised(serverRate[n]))
              /\ clientRate[n] \in {0, ClientRateOf(answer[n])}
        /\ n = cached => clientRate[n] = ClientRateOf(answer[n])

HandshakeInv ==
    TypeOK /\ MutexHeld /\ Progress /\ LiveIsKnown /\ Given /\ Negotiated

-----------------------------------------------------------------------------
\* A configuration's fields have their types, and only a header that is a number
\* carries a rate.
LEMMA ConfigTypes ==
    ASSUME config \in Config
    PROVE  /\ config.password \in BOOLEAN /\ config.ignore \in BOOLEAN
           /\ config.clientSend \in Rates /\ config.serverSend \in Rates
           /\ config.serverReceive \in Rates
           /\ config.clientHeader.text \in {"number", "auto", "garbage"}
           /\ config.clientHeader.rate \in Rates
           /\ config.clientHeader.text # "number" => config.clientHeader.rate = 0
BY Hy2HandshakeAssumption, Zenon DEF Config, Header

\* negotiated_send_rate of the server names a configured rate.
LEMMA ServerRateType ==
    ASSUME config \in Config
    PROVE  server_send_rate(Asked) \in Rates
BY ConfigTypes, Hy2HandshakeAssumption, Zenon DEF server_send_rate, Asked, parse_congestion_receive

\* So does that of the client, and the header it reads is well formed.
LEMMA ClientRateType ==
    ASSUME config \in Config, NEW r \in Rates
    PROVE  /\ congestion_receive_value(Advertised(r)) \in Header
           /\ ClientRateOf(congestion_receive_value(Advertised(r))) \in Rates
BY ConfigTypes, Hy2HandshakeAssumption, Zenon
   DEF congestion_receive_value, Advertised, Header, ClientRateOf, client_send_rate,
       parse_congestion_receive

\* The arithmetic of the negotiation: from what each side computes, RatesAgreed.
LEMMA RatesOfNegotiation ==
    ASSUME TypeOK, Given, Negotiated
    PROVE  RatesAgreed
<1> SUFFICES ASSUME NEW n \in Conns
             PROVE  LET automatic == config.ignore /\ config.serverReceive = 0
                    IN  /\ clientRate[n] <= config.clientSend
                        /\ config.serverReceive > 0 => clientRate[n] <= config.serverReceive
                        /\ serverRate[n] <= config.clientHeader.rate
                        /\ config.serverSend > 0 => serverRate[n] <= config.serverSend
                        /\ automatic => clientRate[n] = 0 /\ serverRate[n] = 0
                        /\ n = cached /\ ~automatic /\ config.clientHeader.rate > 0 =>
                              /\ serverRate[n] > 0
                              /\ config.clientSend > 0 => clientRate[n] > 0
    BY Zenon DEF RatesAgreed
<1>1. config \in Config /\ Rates \subseteq Nat
    BY Hy2HandshakeAssumption, Zenon DEF TypeOK
<1>2. /\ config.clientSend \in Nat /\ config.serverSend \in Nat /\ config.serverReceive \in Nat
      /\ config.clientHeader.rate \in Nat /\ config.ignore \in BOOLEAN
      /\ config.clientHeader.text # "number" => config.clientHeader.rate = 0
    BY <1>1, ConfigTypes, Zenon
<1>3. n = cached => status[n] = "established"
    BY Hy2HandshakeAssumption, Zenon DEF Given, Conns
<1>4. CASE status[n] # "established"
    BY <1>2, <1>3, <1>4 DEF Negotiated
<1>5. CASE status[n] = "established"
    <2>1. /\ serverRate[n] = server_send_rate(Asked)
          /\ clientRate[n] \in {0, ClientRateOf(congestion_receive_value(Advertised(serverRate[n])))}
          /\ n = cached =>
                clientRate[n] = ClientRateOf(congestion_receive_value(Advertised(serverRate[n])))
        BY <1>5, Zenon DEF Negotiated
    <2>2. serverRate[n] \in Nat
        BY <1>1, <2>1, ServerRateType, Zenon
    <2>3. /\ serverRate[n] <= config.clientHeader.rate
          /\ config.serverSend > 0 => serverRate[n] <= config.serverSend
          /\ config.ignore /\ config.serverReceive = 0 => serverRate[n] = 0
          /\ ~(config.ignore /\ config.serverReceive = 0) /\ config.clientHeader.rate > 0 =>
                serverRate[n] > 0
        <3>1. Asked.rate = config.clientHeader.rate /\ (Asked.auto => Asked.rate = 0)
            BY <1>2, Zenon DEF Asked, parse_congestion_receive
        <3>2. CASE \/ config.serverReceive = 0 /\ config.ignore
                   \/ Asked.auto
                   \/ Asked.rate = 0
            <4>1. serverRate[n] = 0
                BY <2>1, <3>2, Zenon DEF server_send_rate
            <4> QED
                BY <1>2, <3>1, <3>2, <4>1
        <3>3. CASE ~(\/ config.serverReceive = 0 /\ config.ignore
                     \/ Asked.auto
                     \/ Asked.rate = 0)
            <4>1. serverRate[n] = IF config.serverSend > 0 /\ Asked.rate > config.serverSend
                                  THEN config.serverSend ELSE Asked.rate
                BY <2>1, <3>3, Zenon DEF server_send_rate
            <4> QED
                BY <1>2, <3>1, <3>3, <4>1
        <3> QED
            BY <3>2, <3>3, Zenon
    <2>4. ClientRateOf(congestion_receive_value(Advertised(serverRate[n]))) =
             IF serverRate[n] > 0
             THEN IF config.serverReceive = 0 \/ config.serverReceive > config.clientSend
                  THEN config.clientSend ELSE config.serverReceive
             ELSE 0
        BY <1>2, <2>2, Zenon DEF ClientRateOf, congestion_receive_value, Advertised, client_send_rate,
                          parse_congestion_receive
    <2> QED
        BY <1>2, <2>1, <2>2, <2>3, <2>4
<1> QED
    BY <1>4, <1>5, Zenon

-----------------------------------------------------------------------------
\* A client that has just been made satisfies the invariant.
LEMMA HandshakeInvInit == Init => HandshakeInv
<1> SUFFICES ASSUME Init PROVE HandshakeInv
    BY Zenon
<1> USE Hy2HandshakeAssumption DEF Init, Conns
<1>1. TypeOK
    BY Zenon DEF TypeOK, NoHeader, Header
<1>2. MutexHeld /\ Progress /\ LiveIsKnown
    BY Zenon DEF MutexHeld, Progress, LiveIsKnown, Dialling
<1>3. Given /\ Negotiated
    BY Zenon DEF Given, Negotiated
<1> QED
    BY <1>1, <1>2, <1>3, Zenon DEF HandshakeInv

\* Steps of the client leave the server's state alone: what was negotiated stays
\* negotiated unless another connection is cached.
LEMMA NegotiatedKept ==
    ASSUME Negotiated, UNCHANGED <<config, cached, clientRate, serverVars>>
    PROVE  Negotiated'
<1>1. /\ config' = config /\ cached' = cached /\ clientRate' = clientRate
      /\ status' = status /\ answer' = answer /\ serverRate' = serverRate
    BY Zenon DEF serverVars
<1>2. server_send_rate(Asked)' = server_send_rate(Asked)
    BY <1>1, Zenon DEF Asked, server_send_rate, parse_congestion_receive
<1>3. ASSUME NEW n \in Conns
      PROVE  ClientRateOf(answer[n])' = ClientRateOf(answer[n])
    BY <1>1, Zenon DEF ClientRateOf, client_send_rate, parse_congestion_receive
<1>4. ASSUME NEW n \in Conns
      PROVE  congestion_receive_value(Advertised(serverRate[n]))' =
             congestion_receive_value(Advertised(serverRate[n]))
    BY <1>1, Zenon DEF congestion_receive_value, Advertised
<1> QED
    BY <1>1, <1>2, <1>3, <1>4, Zenon DEF Negotiated

\* The end of a call, at any point of it, keeps the invariant.
LEMMA FinishKeeps ==
    ASSUME HandshakeInv, NEW c \in Callers, NEW o \in {"proxied", "failed", "cancelled"},
           pc[c] \in {"waiting", "dialling", "authenticating", "opening"},
           o = "proxied" => pc[c] = "opening",
           Finish(c, o)
    PROVE  HandshakeInv'
<1> USE Hy2HandshakeAssumption DEF Conns
<1>1. TypeOK /\ MutexHeld /\ Progress /\ LiveIsKnown /\ Given /\ Negotiated
    BY Zenon DEF HandshakeInv
<1>2. /\ pc' = [pc EXCEPT ![c] = o]
      /\ holder' = Unlocked(c)
      /\ live' \subseteq live
      /\ cached' = cached /\ mine' = mine /\ config' = config
      /\ status' = status /\ answer' = answer
      /\ clientRate' = clientRate /\ serverRate' = serverRate
    BY Zenon DEF Finish, serverVars
<1>3. TypeOK'
    BY <1>1, <1>2, Zenon DEF TypeOK, Unlocked
<1>4. MutexHeld'
    BY <1>1, <1>2, Zenon DEF TypeOK, MutexHeld, Unlocked, Dialling
<1>5. Progress'
    BY <1>1, <1>2, Zenon DEF TypeOK, Progress, Over
<1>6. LiveIsKnown'
    <2>1. CASE holder = c
        <3>1. pc[c] \in {"dialling", "authenticating"} /\ cached # c
            BY <1>1, <2>1, Zenon DEF MutexHeld, Progress, Dialling, Over
        <3>2. c \notin live'
            BY <1>1, <3>1, Zenon DEF Progress, Finish
        <3> QED
            BY <1>1, <1>2, <2>1, <3>2, Zenon DEF LiveIsKnown, Unlocked
    <2>2. CASE holder # c
        BY <1>1, <1>2, <2>2, Zenon DEF LiveIsKnown, Unlocked
    <2> QED
        BY <2>1, <2>2, Zenon
<1>7. Given'
    BY <1>1, <1>2, Zenon DEF TypeOK, Given
<1>8. Negotiated'
    BY <1>1, <1>2, NegotiatedKept, Zenon DEF serverVars
<1> QED
    BY <1>3, <1>4, <1>5, <1>6, <1>7, <1>8, Zenon DEF HandshakeInv

\* Every step of a caller, of the server and of the network keeps it.
LEMMA HandshakeInvNext == HandshakeInv /\ [Next]_vars => HandshakeInv'
<1> SUFFICES ASSUME HandshakeInv, [Next]_vars PROVE HandshakeInv'
    BY Zenon
<1> USE Hy2HandshakeAssumption DEF Conns
<1>1. TypeOK /\ MutexHeld /\ Progress /\ LiveIsKnown /\ Given /\ Negotiated
    BY Zenon DEF HandshakeInv
<1>2. ASSUME NEW c \in Callers, Call(c) PROVE HandshakeInv'
    <2>1. TypeOK' /\ MutexHeld' /\ Progress' /\ LiveIsKnown' /\ Given'
        BY <1>1, <1>2 DEF TypeOK, MutexHeld, Progress, LiveIsKnown, Given, Dialling, Over, Call, serverVars
    <2>2. Negotiated'
        BY <1>1, <1>2, NegotiatedKept, Zenon DEF Call
    <2> QED
        BY <2>1, <2>2, Zenon DEF HandshakeInv
<1>3. ASSUME NEW c \in Callers, UseCached(c) PROVE HandshakeInv'
    <2>1. cached \in Conns /\ status[cached] = "established"
        BY <1>1, <1>3, Zenon DEF TypeOK, Given, UseCached
    <2>2. TypeOK' /\ MutexHeld' /\ Progress' /\ LiveIsKnown'
        BY <1>1, <1>3, <2>1 DEF TypeOK, MutexHeld, Progress, LiveIsKnown, Dialling, Over,
                                UseCached, serverVars
    <2>3. Given'
        BY <1>1, <1>3, <2>1, Zenon DEF TypeOK, Given, UseCached, serverVars
    <2>4. Negotiated'
        BY <1>1, <1>3, NegotiatedKept, Zenon DEF UseCached
    <2> QED
        BY <2>2, <2>3, <2>4, Zenon DEF HandshakeInv
<1>4. ASSUME NEW c \in Callers, StartDial(c) PROVE HandshakeInv'
    <2>1. TypeOK' /\ Progress' /\ LiveIsKnown' /\ Given'
        BY <1>1, <1>4 DEF TypeOK, Progress, LiveIsKnown, Given, Over, StartDial, serverVars
    <2>2. MutexHeld'
        BY <1>1, <1>4, Zenon DEF TypeOK, MutexHeld, Dialling, StartDial
    <2>3. Negotiated'
        BY <1>1, <1>4, NegotiatedKept, Zenon DEF StartDial
    <2> QED
        BY <2>1, <2>2, <2>3, Zenon DEF HandshakeInv
<1>5. ASSUME NEW c \in Callers, Dialled(c) PROVE HandshakeInv'
    <2>1. holder = c /\ cached # c
        BY <1>1, <1>5, Zenon DEF MutexHeld, Progress, Dialling, Over, Dialled
    <2>2. TypeOK' /\ Progress' /\ Given'
        BY <1>1, <1>5 DEF TypeOK, Progress, Given, Over, Dialled, serverVars
    <2>3. MutexHeld' /\ LiveIsKnown'
        BY <1>1, <1>5, <2>1, Zenon DEF TypeOK, MutexHeld, LiveIsKnown, Dialling, Dialled
    <2>4. Negotiated'
        BY <1>1, <1>5, NegotiatedKept, Zenon DEF Dialled
    <2> QED
        BY <2>2, <2>3, <2>4, Zenon DEF HandshakeInv
<1>6. ASSUME NEW c \in Callers, DialFails(c) \/ AuthFails(c) \/ Cancel(c) PROVE HandshakeInv'
    BY <1>6, FinishKeeps, Zenon DEF DialFails, AuthFails, Cancel
<1>7. ASSUME NEW c \in Callers, Open(c) PROVE HandshakeInv'
    BY <1>7, FinishKeeps, Zenon DEF Open
<1>8. ASSUME NEW c \in Callers, Authenticated(c) PROVE HandshakeInv'
    <2>1. holder = c /\ mine[c] = c /\ c \in live
        BY <1>1, <1>8, Zenon DEF MutexHeld, Progress, Dialling, Authenticated
    <2>2. /\ config \in Config /\ serverRate[c] \in Rates
          /\ answer[c] = congestion_receive_value(Advertised(serverRate[c]))
        BY <1>1, <1>8, Zenon DEF TypeOK, Negotiated, Authenticated
    <2>3. ClientRateOf(answer[c]) \in Rates
        BY <2>2, ClientRateType, Zenon
    <2>4. clientRate' = [clientRate EXCEPT ![c] = ClientRateOf(answer[c])]
        BY <1>8, Zenon DEF Authenticated, ClientRateOf
    <2>5. TypeOK'
        BY <1>1, <1>8, <2>1, <2>3, <2>4 DEF TypeOK, Authenticated, Unlocked, serverVars
    <2>6. MutexHeld' /\ LiveIsKnown'
        BY <1>1, <1>8, <2>1, Zenon DEF TypeOK, MutexHeld, LiveIsKnown, Dialling, Authenticated, Unlocked
    <2>7. Progress' /\ Given'
        BY <1>1, <1>8, <2>1 DEF TypeOK, Progress, Given, Over, Authenticated, serverVars
    <2>8. Negotiated'
        <3>1. /\ config' = config /\ cached' = c /\ status' = status /\ answer' = answer
              /\ serverRate' = serverRate /\ status[c] = "established"
            BY <1>8, Zenon DEF Authenticated, serverVars
        <3>2. /\ Asked' = Asked
              /\ server_send_rate(Asked)' = server_send_rate(Asked)
              /\ \A n \in Conns : ClientRateOf(answer[n])' = ClientRateOf(answer[n])
              /\ \A n \in Conns : congestion_receive_value(Advertised(serverRate[n]))' =
                                  congestion_receive_value(Advertised(serverRate[n]))
            BY <3>1, Zenon DEF Asked, ClientRateOf, server_send_rate, client_send_rate,
                        parse_congestion_receive, congestion_receive_value, Advertised
        <3>3. clientRate \in [Conns -> Rates]
            BY <1>1, Zenon DEF TypeOK
        <3> QED
            BY <1>1, <2>4, <3>1, <3>2, <3>3, Zenon DEF Negotiated
    <2> QED
        BY <2>5, <2>6, <2>7, <2>8, Zenon DEF HandshakeInv
<1>9. ASSUME NEW n \in Conns, Masquerade(n) PROVE HandshakeInv'
    <2>1. TypeOK' /\ MutexHeld' /\ Progress' /\ LiveIsKnown'
        BY <1>1, <1>9, Zenon DEF TypeOK, MutexHeld, Progress, LiveIsKnown, Masquerade
    <2>2. Given'
        BY <1>1, <1>9, Zenon DEF TypeOK, Given, Masquerade
    <2>3. Negotiated'
        <3>1. status \in [Conns -> {"new", "established", "masquerade"}]
            BY <1>1, Zenon DEF TypeOK
        <3>2. /\ config' = config /\ cached' = cached /\ clientRate' = clientRate
              /\ answer' = answer /\ serverRate' = serverRate
              /\ status[n] = "new" /\ status' = [status EXCEPT ![n] = "masquerade"]
            BY <1>9, Zenon DEF Masquerade
        <3>3. server_send_rate(Asked)' = server_send_rate(Asked)
            BY <3>2, Zenon DEF Asked, server_send_rate, parse_congestion_receive
        <3>4. ASSUME NEW m \in Conns
              PROVE  ClientRateOf(answer[m])' = ClientRateOf(answer[m])
            BY <3>2, Zenon DEF ClientRateOf, client_send_rate, parse_congestion_receive
        <3>5. ASSUME NEW m \in Conns
              PROVE  congestion_receive_value(Advertised(serverRate[m]))' =
                     congestion_receive_value(Advertised(serverRate[m]))
            BY <3>2, Zenon DEF congestion_receive_value, Advertised
        <3> QED
            BY <1>1, <3>1, <3>2, <3>3, <3>4, <3>5 DEF Negotiated
    <2> QED
        BY <2>1, <2>2, <2>3, Zenon DEF HandshakeInv
<1>10. ASSUME NEW n \in Conns, Establish(n) PROVE HandshakeInv'
    <2> DEFINE r == server_send_rate(Asked)
               a == congestion_receive_value(Advertised(r))
    <2>1. /\ status[n] = "new" /\ n \in live /\ config.password
          /\ status' = [status EXCEPT ![n] = "established"]
          /\ serverRate' = [serverRate EXCEPT ![n] = r]
          /\ answer' = [answer EXCEPT ![n] = a]
          /\ UNCHANGED <<config, holder, cached, pc, mine, live, clientRate>>
        BY <1>10, Zenon DEF Establish, Asked
    <2>2. r \in Rates /\ a \in Header
        BY <1>1, ServerRateType, ClientRateType, Zenon DEF TypeOK
    <2> HIDE DEF r, a
    <2>3. TypeOK'
        BY <1>1, <2>1, <2>2, Zenon DEF TypeOK
    <2>4. MutexHeld' /\ Progress' /\ LiveIsKnown'
        BY <1>1, <2>1, Zenon DEF MutexHeld, Progress, LiveIsKnown
    <2>5. Given'
        BY <1>1, <2>1, Zenon DEF TypeOK, Given
    <2>6. Negotiated'
        <3>1. /\ server_send_rate(Asked)' = r
              /\ \A m \in Conns : ClientRateOf(answer[m])' = ClientRateOf(answer'[m])
              /\ \A m \in Conns : congestion_receive_value(Advertised(serverRate[m]))' =
                                  congestion_receive_value(Advertised(serverRate'[m]))
            <4>1. server_send_rate(Asked)' = r
                BY <2>1, Zenon DEF r, Asked, server_send_rate, parse_congestion_receive
            <4>2. ASSUME NEW m \in Conns
                  PROVE  ClientRateOf(answer[m])' = ClientRateOf(answer'[m])
                BY <2>1 DEF ClientRateOf, client_send_rate, parse_congestion_receive
            <4>3. ASSUME NEW m \in Conns
                  PROVE  congestion_receive_value(Advertised(serverRate[m]))' =
                         congestion_receive_value(Advertised(serverRate'[m]))
                BY <2>1, Zenon DEF congestion_receive_value, Advertised
            <4> QED
                BY <4>1, <4>2, <4>3, Zenon
        <3>2. n # cached /\ clientRate[n] = 0
            BY <1>1, <2>1, Zenon DEF Given, Negotiated
        <3>3. /\ status \in [Conns -> {"new", "established", "masquerade"}]
              /\ serverRate \in [Conns -> Rates] /\ answer \in [Conns -> Header]
            BY <1>1, Zenon DEF TypeOK
        <3> QED
            BY <1>1, <2>1, <3>1, <3>2, <3>3 DEF Negotiated, r, a
    <2> QED
        BY <2>3, <2>4, <2>5, <2>6, Zenon DEF HandshakeInv
<1>11. ASSUME NEW n \in Conns, ConnectionLost(n) PROVE HandshakeInv'
    <2>1. TypeOK' /\ MutexHeld' /\ Progress' /\ LiveIsKnown' /\ Given'
        BY <1>1, <1>11, Zenon DEF TypeOK, MutexHeld, Progress, LiveIsKnown, Given, ConnectionLost, serverVars
    <2>2. Negotiated'
        BY <1>1, <1>11, NegotiatedKept, Zenon DEF ConnectionLost
    <2> QED
        BY <2>1, <2>2, Zenon DEF HandshakeInv
<1>12. CASE UNCHANGED vars
    <2>1. TypeOK' /\ MutexHeld' /\ Progress' /\ LiveIsKnown' /\ Given'
        BY <1>1, <1>12, Zenon DEF TypeOK, MutexHeld, Progress, LiveIsKnown, Given, vars
    <2>2. Negotiated'
        BY <1>1, <1>12, NegotiatedKept, Zenon DEF vars, serverVars
    <2> QED
        BY <2>1, <2>2, Zenon DEF HandshakeInv
<1> QED
    BY <1>2, <1>3, <1>4, <1>5, <1>6, <1>7, <1>8, <1>9, <1>10, <1>11, <1>12
    DEF Next, CallerStep, Respond

-----------------------------------------------------------------------------
\* The client never has two open connections, and only a caller that dials holds
\* the mutex of Client::connection.
THEOREM HandshakeSingleFlight == Spec => []SingleFlight
<1>1. HandshakeInv => SingleFlight
    <2> SUFFICES ASSUME HandshakeInv PROVE SingleFlight
        BY Zenon
    <2>1. TypeOK /\ MutexHeld /\ LiveIsKnown
        BY Zenon DEF HandshakeInv
    <2>2. holder # None => pc[holder] \in {"dialling", "authenticating"}
        BY <2>1, Zenon DEF TypeOK, MutexHeld, Dialling
    <2>3. \A m, n \in live : m = n
        BY <2>1, Hy2HandshakeAssumption DEF TypeOK, LiveIsKnown, Conns
    <2>4. live = {} \/ \E n \in live : live = {n}
        BY <2>3, Zenon
    <2>5. Cardinality(live) <= 1
        <3>1. CASE live = {}
            BY <3>1, FS_EmptySet
        <3>2. ASSUME NEW n \in live, live = {n} PROVE Cardinality(live) <= 1
            <4>1. Cardinality({n}) = 1
                BY FS_Singleton, Zenon
            <4> QED
                BY <3>2, <4>1
        <3> QED
            BY <2>4, <3>1, <3>2, Zenon
    <2> QED
        BY <2>2, <2>5, Zenon DEF SingleFlight
<1> QED
    BY <1>1, HandshakeInvInit, HandshakeInvNext, PTL DEF Spec

\* A caller only ever works with a connection that the server authenticated.
THEOREM HandshakeOnlyEstablished == Spec => []OnlyEstablished
<1>1. HandshakeInv => OnlyEstablished
    BY Zenon DEF HandshakeInv, Given, OnlyEstablished
<1> QED
    BY <1>1, HandshakeInvInit, HandshakeInvNext, PTL DEF Spec

\* Whatever the configured rates, the two ends settle on rates both can use.
THEOREM HandshakeRatesAgreed == Spec => []RatesAgreed
<1>1. HandshakeInv => RatesAgreed
    BY RatesOfNegotiation, Zenon DEF HandshakeInv
<1> QED
    BY <1>1, HandshakeInvInit, HandshakeInvNext, PTL DEF Spec

-----------------------------------------------------------------------------
(***************************************************************************)
(* SQuicAuth, for any number of streams and users, any capacity of the     *)
(* accept queue, and both kinds of authentication.                         *)
(***************************************************************************)

\* The first element of a queue and the others.
LEMMA QueueFacts ==
    ASSUME NEW S, NEW q \in Seq(S), q # <<>>
    PROVE  /\ Head(q) \in S /\ Head(q) = q[1] /\ Len(q) >= 1
           /\ Tail(q) \in Seq(S) /\ Len(Tail(q)) = Len(q) - 1
           /\ \A i \in 1..Len(Tail(q)) : Tail(q)[i] = q[i + 1]
OBVIOUS

\* The types are kept by every step of the connection's tasks.
THEOREM AuthTypeCorrect == AuthSpec => []AuthTypeOK
<1>1. AuthInit => AuthTypeOK
  BY SQuicAuthAssumption DEF AuthInit, AuthTypeOK, Request, Accepted, Label
<1>2. AuthTypeOK /\ [AuthNext]_squicAuthVars => AuthTypeOK'
  <2> SUFFICES ASSUME AuthTypeOK, [AuthNext]_squicAuthVars PROVE AuthTypeOK'
    BY Zenon
  <2> USE SQuicAuthAssumption DEF AuthTypeOK, Label, Accepted, Goto, authVars, outVars,
                                  historyVars, streamVars, kindVars
  <2>1. CASE RejectHandshake
    BY <2>1, Zenon DEF RejectHandshake
  <2>2. CASE LoopEnds
    BY <2>2, Zenon DEF LoopEnds
  <2>3. CASE Accept
    <3>1. /\ Head(queue) \in Accepted
          /\ Tail(queue) \in Seq(Accepted)
          /\ Len(Tail(queue)) = Len(queue) - 1
      BY <2>3, QueueFacts, Zenon DEF Accept
    <3>2. Len(queue') <= AcceptCap
      BY <2>3, <3>1 DEF Accept
    <3> QED
      BY <2>3, <3>1, <3>2 DEF Accept
  <2>4. ASSUME NEW s \in Streams, NEW r \in Request, Spawn(s, r) PROVE AuthTypeOK'
    BY <2>4, Zenon DEF Spawn
  <2>5. ASSUME NEW s \in Streams, ReadOpcode(s) PROVE AuthTypeOK'
    BY <2>5, Zenon DEF ReadOpcode
  <2>6. ASSUME NEW s \in Streams, Authenticate(s) PROVE AuthTypeOK'
    BY <2>6 DEF Authenticate
  <2>7. ASSUME NEW s \in Streams, Reject(s) PROVE AuthTypeOK'
    BY <2>7, Zenon DEF Reject
  <2>8. ASSUME NEW s \in Streams, WaitForSunnyAuth(s) PROVE AuthTypeOK'
    BY <2>8 DEF WaitForSunnyAuth, Borrow, Changed, TimedOut, SenderGone
  <2>9. ASSUME NEW s \in Streams, Serve(s) PROVE AuthTypeOK'
    BY <2>9 DEF Serve
  <2>10. ASSUME NEW s \in Streams, Push(s) PROVE AuthTypeOK'
    BY <2>10 DEF Push
  <2>11. ASSUME NEW s \in Streams, ReadFails(s) PROVE AuthTypeOK'
    BY <2>11, Zenon DEF ReadFails
  <2>12. CASE UNCHANGED squicAuthVars
    BY <2>12, Zenon DEF squicAuthVars
  <2> QED
    BY <2>1, <2>2, <2>3, <2>4, <2>5, <2>6, <2>7, <2>8, <2>9, <2>10, <2>11, <2>12, Zenon DEF AuthNext
<1> QED
  BY <1>1, <1>2, PTL DEF AuthSpec

(***************************************************************************)
(* The invariant behind OnlyAuthenticated. The watch channel says "ok"     *)
(* only for a user who presented a credential; a task past                 *)
(* wait_for_sunny_auth carries an authenticated user and keeps it, because *)
(* a task that has served something is done; under JLS a task exists only  *)
(* on a connection whose handshake authenticated its user.                 *)
(***************************************************************************)
PastWait == {"request", "push", "control"}

ChannelTrue == auth = "ok" => authUser \in presented

HandshakeTasks ==
    ~Sunny => \A s \in Streams : task[s] # "closed" => user[s] = jls /\ jls # NoUser

PastWaitAllowed == \A s \in Streams : task[s] \in PastWait => user[s] \in AuthenticatedUsers

ServedDone == \A s \in served : task[s] = "done"

AuthInv ==
    /\ ChannelTrue
    /\ HandshakeTasks
    /\ PastWaitAllowed
    /\ ServedDone
    /\ OnlyAuthenticated

\* Nobody loses the right to be acted for: credentials stay presented and
\* the user of the handshake does not change.
LEMMA AuthenticatedGrows ==
    ASSUME AuthTypeOK, [AuthNext]_squicAuthVars
    PROVE  /\ AuthenticatedUsers \subseteq AuthenticatedUsers'
           /\ jls' = jls /\ Sunny' = Sunny
<1>1. presented \subseteq presented' /\ jls' = jls /\ authentication' = authentication
  BY Zenon DEF AuthNext, squicAuthVars, RejectHandshake, LoopEnds, Accept, Spawn, ReadOpcode,
         Authenticate, Reject, WaitForSunnyAuth, Borrow, Changed, TimedOut, SenderGone, Serve,
         Push, ReadFails, authVars, kindVars
<1> QED
  BY <1>1, Zenon DEF AuthenticatedUsers, Sunny

\* What a step hands on or queues stays allowed, if the queue and what was
\* accepted hold nothing new that is not, and served tasks keep their user.
LEMMA OutputsStayAllowed ==
    ASSUME OnlyAuthenticated,
           AuthenticatedUsers \subseteq AuthenticatedUsers',
           \A item \in handed' : item \in handed \/ item.user \in AuthenticatedUsers',
           \A i \in 1..Len(queue') : queue'[i].user \in AuthenticatedUsers',
           \A q \in served' :
               (q \in served /\ user'[q] = user[q]) \/ user'[q] \in AuthenticatedUsers'
    PROVE  OnlyAuthenticated'
<1>1. \A item \in handed' : item.user \in AuthenticatedUsers'
  BY Zenon DEF OnlyAuthenticated
<1>2. \A q \in served' : user'[q] \in AuthenticatedUsers'
  BY Zenon DEF OnlyAuthenticated
<1> QED
  BY <1>1, <1>2, Zenon DEF OnlyAuthenticated

\* The queue is as allowed after a step that leaves it alone.
LEMMA QueueStays ==
    ASSUME OnlyAuthenticated, AuthenticatedUsers \subseteq AuthenticatedUsers', queue' = queue
    PROVE  \A i \in 1..Len(queue') : queue'[i].user \in AuthenticatedUsers'
BY Zenon DEF OnlyAuthenticated

\* A step that touches no task and not the watch channel keeps what is known
\* of the tasks.
LEMMA TasksStay ==
    ASSUME AuthInv, AuthenticatedUsers \subseteq AuthenticatedUsers', jls' = jls, Sunny' = Sunny,
           task' = task, user' = user, served' = served, auth' = auth, authUser' = authUser,
           presented' = presented
    PROVE  ChannelTrue' /\ HandshakeTasks' /\ PastWaitAllowed' /\ ServedDone'
<1>1. ChannelTrue'
  BY Zenon DEF AuthInv, ChannelTrue
<1>2. HandshakeTasks'
  BY Zenon DEF AuthInv, HandshakeTasks
<1>3. PastWaitAllowed'
  BY Zenon DEF AuthInv, PastWaitAllowed
<1>4. ServedDone'
  BY Zenon DEF AuthInv, ServedDone
<1> QED
  BY <1>1, <1>2, <1>3, <1>4, Zenon

\* A step of one task: it moves s from where it is not yet done to label, for
\* user u, and touches no other task.
LEMMA TaskStep ==
    ASSUME AuthTypeOK, AuthInv, AuthenticatedUsers \subseteq AuthenticatedUsers',
           jls' = jls, Sunny' = Sunny, ChannelTrue',
           NEW s \in Streams, NEW label \in Label, NEW u,
           task[s] # "done", Goto(s, label), user' = [user EXCEPT ![s] = u],
           ~Sunny => u = jls /\ jls # NoUser,
           label \in PastWait => u \in AuthenticatedUsers',
           served' = served \/ (served' = served \cup {s} /\ label = "done"
                                  /\ u \in AuthenticatedUsers'),
           \A i \in 1..Len(queue') : queue'[i].user \in AuthenticatedUsers',
           handed' = handed
    PROVE  AuthInv'
<1>1. /\ task'[s] = label /\ user'[s] = u
      /\ \A q \in Streams : q # s => task'[q] = task[q] /\ user'[q] = user[q]
  BY Zenon DEF Goto, AuthTypeOK
<1>2. served \subseteq Streams
  BY Zenon DEF AuthTypeOK
<1>3. s \notin served /\ \A q \in served : task[q] = "done"
  BY Zenon DEF AuthInv, ServedDone
<1>4. HandshakeTasks'
  BY <1>1, Zenon DEF AuthInv, HandshakeTasks
<1>5. PastWaitAllowed'
  BY <1>1, Zenon DEF AuthInv, PastWaitAllowed
<1>6. ServedDone'
  BY <1>1, <1>2, <1>3, Zenon DEF ServedDone
<1>7. \A q \in served' :
         (q \in served /\ user'[q] = user[q]) \/ user'[q] \in AuthenticatedUsers'
  BY <1>1, <1>2, <1>3, Zenon
<1>8. OnlyAuthenticated'
  BY <1>7, OutputsStayAllowed, Zenon DEF AuthInv
<1> QED
  BY <1>4, <1>5, <1>6, <1>8, Zenon DEF AuthInv

\* The same for a step that leaves the queue, the watch channel and the user
\* of the task alone, which is most of them.
LEMMA PlainTaskStep ==
    ASSUME AuthTypeOK, AuthInv, AuthenticatedUsers \subseteq AuthenticatedUsers',
           jls' = jls, Sunny' = Sunny, UNCHANGED authVars,
           NEW s \in Streams, NEW label \in Label,
           task[s] \notin {"closed", "done"}, Goto(s, label), user' = user,
           label \in PastWait => user[s] \in AuthenticatedUsers,
           served' = served \/ (served' = served \cup {s} /\ label = "done"
                                  /\ user[s] \in AuthenticatedUsers),
           queue' = queue, handed' = handed
    PROVE  AuthInv'
<1>1. user' = [user EXCEPT ![s] = user[s]]
  BY Zenon DEF AuthTypeOK
<1>2. ChannelTrue'
  BY Zenon DEF AuthInv, ChannelTrue, authVars
<1>3. ~Sunny => user[s] = jls /\ jls # NoUser
  BY Zenon DEF AuthInv, HandshakeTasks
<1>4. \A i \in 1..Len(queue') : queue'[i].user \in AuthenticatedUsers'
  BY QueueStays, Zenon DEF AuthInv
<1>5. label \in PastWait => user[s] \in AuthenticatedUsers'
  BY Zenon
<1>6. served' = served \/ (served' = served \cup {s} /\ label = "done"
                             /\ user[s] \in AuthenticatedUsers')
  BY Zenon
<1> QED
  BY <1>1, <1>2, <1>3, <1>4, <1>5, <1>6, TaskStep, Zenon

\* A server never accepts, routes or answers for a user who has not
\* authenticated on the connection.
THEOREM ServesOnlyAuthenticated == AuthSpec => []OnlyAuthenticated
<1>1. AuthInit => AuthInv
  <2> SUFFICES ASSUME AuthInit PROVE AuthInv
    BY Zenon
  <2>1. /\ task = [s \in Streams |-> "closed"] /\ served = {} /\ auth # "ok"
    BY Zenon DEF AuthInit
  <2>2. OnlyAuthenticated
    BY DEF AuthInit, OnlyAuthenticated
  <2> QED
    BY <2>1, <2>2, Zenon DEF AuthInv, ChannelTrue, HandshakeTasks, PastWaitAllowed, ServedDone, PastWait
<1>2. AuthTypeOK /\ AuthInv /\ [AuthNext]_squicAuthVars => AuthInv'
  <2> SUFFICES ASSUME AuthTypeOK, AuthInv, [AuthNext]_squicAuthVars PROVE AuthInv'
    BY Zenon
  <2>0. AuthenticatedUsers \subseteq AuthenticatedUsers' /\ jls' = jls /\ Sunny' = Sunny
    BY AuthenticatedGrows, Zenon
  <2>1. ASSUME UNCHANGED <<streamVars, authVars, outVars>> PROVE AuthInv'
    <3>1. ChannelTrue' /\ HandshakeTasks' /\ PastWaitAllowed' /\ ServedDone'
      BY <2>0, <2>1, TasksStay, Zenon DEF streamVars, authVars, outVars
    <3>2. OnlyAuthenticated'
      BY <2>0, <2>1, QueueStays, OutputsStayAllowed, Zenon DEF AuthInv, streamVars, outVars
    <3> QED
      BY <3>1, <3>2, Zenon DEF AuthInv
  <2>2. CASE RejectHandshake \/ LoopEnds
    BY <2>1, <2>2, Zenon DEF RejectHandshake, LoopEnds
  <2>3. CASE Accept
    <3>0. /\ queue # <<>> /\ handed' = handed \cup {Head(queue)} /\ queue' = Tail(queue)
          /\ UNCHANGED <<streamVars, authVars, served>>
      BY <2>3, Zenon DEF Accept
    <3>1. /\ Head(queue) = queue[1]
          /\ Len(queue) >= 1
          /\ Len(Tail(queue)) = Len(queue) - 1
          /\ \A i \in 1..Len(Tail(queue)) : Tail(queue)[i] = queue[i + 1]
      BY <3>0, QueueFacts, Zenon DEF AuthTypeOK
    <3>2. Len(queue) \in Nat /\ \A i \in 1..Len(queue) : queue[i].user \in AuthenticatedUsers'
      BY <2>0 DEF AuthInv, OnlyAuthenticated, AuthTypeOK
    <3>3. \A i \in 1..Len(queue') : queue'[i].user \in AuthenticatedUsers'
      <4> TAKE i \in 1..Len(queue')
      <4>1. i \in 1..Len(Tail(queue)) /\ queue'[i] = Tail(queue)[i]
        BY <3>0, Zenon
      <4>2. i + 1 \in 1..Len(queue)
        BY <3>1, <3>2, <4>1
      <4> QED
        BY <3>1, <3>2, <4>1, <4>2, Zenon
    <3>4. Head(queue).user \in AuthenticatedUsers'
      BY <3>1, <3>2
    <3>5. \A item \in handed' : item \in handed \/ item.user \in AuthenticatedUsers'
      BY <3>0, <3>4, Zenon
    <3>6. user' = user /\ served' = served
      BY <3>0, Zenon DEF streamVars
    <3>7. OnlyAuthenticated'
      BY <2>0, <3>3, <3>5, <3>6, OutputsStayAllowed, Zenon DEF AuthInv
    <3>8. ChannelTrue' /\ HandshakeTasks' /\ PastWaitAllowed' /\ ServedDone'
      BY <2>0, <3>0, TasksStay, Zenon DEF streamVars, authVars
    <3> QED
      BY <3>7, <3>8, Zenon DEF AuthInv
  <2>4. ASSUME NEW s \in Streams, NEW r \in Request, Spawn(s, r) PROVE AuthInv'
    <3>1. PICK label \in {"borrow", "opcode"} : Goto(s, label)
      BY <2>4, Zenon DEF Spawn
    <3>2. /\ task[s] # "done" /\ user' = [user EXCEPT ![s] = jls] /\ (Sunny \/ jls # NoUser)
          /\ UNCHANGED <<authVars, outVars>>
      BY <2>4, Zenon DEF Spawn
    <3>3. label \in Label /\ label \notin PastWait
      BY <3>1, Zenon DEF Label, PastWait
    <3>4. ChannelTrue'
      BY <3>2, Zenon DEF AuthInv, ChannelTrue, authVars
    <3>5. \A i \in 1..Len(queue') : queue'[i].user \in AuthenticatedUsers'
      BY <2>0, <3>2, QueueStays, Zenon DEF AuthInv, outVars
    <3>6. served' = served /\ handed' = handed
      BY <3>2, Zenon DEF outVars
    <3> QED
      BY <2>0, <3>1, <3>2, <3>3, <3>4, <3>5, <3>6, TaskStep, Zenon
  <2>5. ASSUME NEW s \in Streams, ReadOpcode(s) PROVE AuthInv'
    <3>1. /\ task[s] \notin {"closed", "done"} /\ UNCHANGED <<user, authVars, outVars>>
          /\ \E label \in {"credential", "done", "borrow"} : Goto(s, label)
      BY <2>5, Zenon DEF ReadOpcode
    <3> QED
      BY <2>0, <3>1, PlainTaskStep, Zenon DEF outVars, Label, PastWait
  <2>6. ASSUME NEW s \in Streams, Authenticate(s) PROVE AuthInv'
    <3>1. /\ task[s] \notin {"closed", "done"} /\ UNCHANGED <<user, outVars>>
          /\ \E label \in {"done", "reject"} : Goto(s, label)
      BY <2>6, Zenon DEF Authenticate
    <3>2. ChannelTrue'
      BY <2>6, Zenon DEF Authenticate, ChannelTrue
    <3>3. user' = [user EXCEPT ![s] = user[s]]
      BY <3>1, Zenon DEF AuthTypeOK
    <3>4. ~Sunny => user[s] = jls /\ jls # NoUser
      BY <3>1, Zenon DEF AuthInv, HandshakeTasks
    <3>5. \A i \in 1..Len(queue') : queue'[i].user \in AuthenticatedUsers'
      BY <2>0, <3>1, QueueStays, Zenon DEF AuthInv, outVars
    <3>6. PICK label \in {"done", "reject"} : Goto(s, label)
      BY <3>1, Zenon
    <3>7. label \in Label /\ label \notin PastWait
      BY <3>6, Zenon DEF Label, PastWait
    <3>8. served' = served /\ handed' = handed
      BY <3>1, Zenon DEF outVars
    <3> QED
      BY <2>0, <3>1, <3>2, <3>3, <3>4, <3>5, <3>6, <3>7, <3>8, TaskStep, Zenon
  <2>7. ASSUME NEW s \in Streams, Reject(s) PROVE AuthInv'
    <3>1. /\ task[s] \notin {"closed", "done"} /\ UNCHANGED <<user, authVars, outVars>>
          /\ Goto(s, "done")
      BY <2>7, Zenon DEF Reject
    <3> QED
      BY <2>0, <3>1, PlainTaskStep, Zenon DEF outVars, Label, PastWait
  <2>8. ASSUME NEW s \in Streams, Borrow(s) PROVE AuthInv'
    <3>0. task[s] \notin {"closed", "done"} /\ UNCHANGED <<authVars, outVars>>
      BY <2>8, Zenon DEF Borrow
    <3>1. CASE ~Sunny
      <4>1. Goto(s, "request") /\ user' = user
        BY <2>8, <3>1, Zenon DEF Borrow
      <4>2. user[s] \in AuthenticatedUsers
        BY <3>0, <3>1, Zenon DEF AuthInv, HandshakeTasks, AuthenticatedUsers
      <4> QED
        BY <2>0, <3>0, <4>1, <4>2, PlainTaskStep, Zenon DEF outVars, Label
    <3>2. CASE Sunny /\ auth = "ok"
      <4>1. Goto(s, "request") /\ user' = [user EXCEPT ![s] = authUser]
        BY <2>8, <3>2, Zenon DEF Borrow
      <4>2. authUser \in AuthenticatedUsers'
        BY <2>0, <3>2, Zenon DEF AuthInv, ChannelTrue, AuthenticatedUsers
      <4>3. ChannelTrue'
        BY <3>0, Zenon DEF AuthInv, ChannelTrue, authVars
      <4>4. \A i \in 1..Len(queue') : queue'[i].user \in AuthenticatedUsers'
        BY <2>0, <3>0, QueueStays, Zenon DEF AuthInv, outVars
      <4>5. "request" \in Label /\ served' = served /\ handed' = handed
        BY <3>0, Zenon DEF outVars, Label
      <4> QED
        BY <2>0, <3>0, <3>2, <4>1, <4>2, <4>3, <4>4, <4>5, TaskStep, Zenon
    <3>3. CASE Sunny /\ auth # "ok"
      <4>1. user' = user /\ \E label \in {"done", "sleep"} : Goto(s, label)
        BY <2>8, <3>3, Zenon DEF Borrow
      <4> QED
        BY <2>0, <3>0, <4>1, PlainTaskStep, Zenon DEF outVars, Label, PastWait
    <3> QED
      BY <3>1, <3>2, <3>3, Zenon
  <2>9. ASSUME NEW s \in Streams, Changed(s) \/ TimedOut(s) \/ SenderGone(s) PROVE AuthInv'
    <3>1. /\ task[s] \notin {"closed", "done"} /\ UNCHANGED <<user, authVars, outVars>>
          /\ \E label \in {"borrow", "done"} : Goto(s, label)
      BY <2>9, Zenon DEF Changed, TimedOut, SenderGone
    <3> QED
      BY <2>0, <3>1, PlainTaskStep, Zenon DEF outVars, Label, PastWait
  <2>10. ASSUME NEW s \in Streams, Serve(s) PROVE AuthInv'
    <3>1. /\ task[s] = "request" /\ UNCHANGED <<user, authVars, queue, handed>>
          /\ \/ served' = served \cup {s} /\ Goto(s, "done")
             \/ served' = served /\ Goto(s, "push")
      BY <2>10, Zenon DEF Serve
    <3>2. user[s] \in AuthenticatedUsers
      BY <3>1, Zenon DEF AuthInv, PastWaitAllowed, PastWait
    <3>3. CASE served' = served \cup {s} /\ Goto(s, "done")
      BY <2>0, <3>1, <3>2, <3>3, PlainTaskStep, Zenon DEF Label
    <3>4. CASE served' = served /\ Goto(s, "push")
      BY <2>0, <3>1, <3>2, <3>4, PlainTaskStep, Zenon DEF Label
    <3> QED
      BY <3>1, <3>3, <3>4, Zenon
  <2>11. ASSUME NEW s \in Streams, Push(s) PROVE AuthInv'
    <3>1. /\ task[s] = "push" /\ queue' = Append(queue, [stream |-> s, user |-> user[s]])
          /\ UNCHANGED <<user, authVars, handed, served>>
          /\ \E label \in {"control", "done"} : Goto(s, label)
      BY <2>11, Zenon DEF Push
    <3>2. user[s] \in AuthenticatedUsers'
      BY <2>0, <3>1, Zenon DEF AuthInv, PastWaitAllowed, PastWait
    <3>3. PICK item : item = [stream |-> s, user |-> user[s]]
      BY Zenon
    <3>4. item \in Accepted /\ item.user = user[s]
      BY <3>3, Zenon DEF AuthTypeOK, Accepted
    <3>5. queue \in Seq(Accepted) /\ queue' = Append(queue, item)
      BY <3>1, <3>3, Zenon DEF AuthTypeOK
    <3>6. /\ Len(queue) \in Nat /\ Len(queue') = Len(queue) + 1
          /\ queue'[Len(queue) + 1] = item
          /\ \A i \in 1..Len(queue) : queue'[i] = queue[i]
      BY <3>4, <3>5
    <3>7. \A i \in 1..Len(queue) : queue[i].user \in AuthenticatedUsers'
      BY <2>0, Zenon DEF AuthInv, OnlyAuthenticated
    <3>8. \A i \in 1..Len(queue') : queue'[i].user \in AuthenticatedUsers'
      BY <3>2, <3>4, <3>6, <3>7
    <3>9. PICK label \in {"control", "done"} : Goto(s, label)
      BY <3>1, Zenon
    <3>10. user' = [user EXCEPT ![s] = user[s]] /\ label \in Label
      BY <3>1, <3>9, Zenon DEF AuthTypeOK, Label
    <3>11. ChannelTrue' /\ (~Sunny => user[s] = jls /\ jls # NoUser)
      BY <3>1, Zenon DEF AuthInv, ChannelTrue, HandshakeTasks, authVars
    <3> QED
      BY <2>0, <3>1, <3>2, <3>8, <3>9, <3>10, <3>11, TaskStep, Zenon
  <2>12. ASSUME NEW s \in Streams, ReadFails(s) PROVE AuthInv'
    <3>1. /\ task[s] \notin {"closed", "done"} /\ UNCHANGED <<user, authVars, outVars>>
          /\ Goto(s, "done")
      BY <2>12, Zenon DEF ReadFails
    <3> QED
      BY <2>0, <3>1, PlainTaskStep, Zenon DEF outVars, Label, PastWait
  <2>13. CASE UNCHANGED squicAuthVars
    BY <2>1, <2>13, Zenon DEF squicAuthVars, streamVars, authVars, outVars
  <2> QED
    BY <2>2, <2>3, <2>4, <2>5, <2>6, <2>7, <2>8, <2>9, <2>10, <2>11, <2>12, <2>13, Zenon
       DEF AuthNext, WaitForSunnyAuth
<1>3. AuthInv => OnlyAuthenticated
  BY Zenon DEF AuthInv
<1> QED
  BY <1>1, <1>2, <1>3, AuthTypeCorrect, PTL DEF AuthSpec

(***************************************************************************)
(* The invariant behind AuthenticatedIsPrompt. The watch channel never     *)
(* goes back to "none", so a task spawned once it has a value finds one in *)
(* wait_for_sunny_auth and never sleeps; and the timeout ends the task it  *)
(* refuses, so no later stream is that task.                               *)
(***************************************************************************)
PromptInv ==
    /\ \A s \in prompt : auth # "none" /\ task[s] \notin {"closed", "sleep"}
    /\ \A s \in refused : task[s] = "done"
    /\ AuthenticatedIsPrompt

\* A stream opened after authentication succeeded is never refused by
\* SUNNY_AUTH_TIMEOUT, whatever the tasks of earlier streams do.
THEOREM PromptAfterAuthentication == AuthSpec => []AuthenticatedIsPrompt
<1>1. AuthInit => PromptInv
  BY Zenon DEF AuthInit, PromptInv, AuthenticatedIsPrompt
<1>2. AuthTypeOK /\ PromptInv /\ [AuthNext]_squicAuthVars => PromptInv'
  <2> SUFFICES ASSUME AuthTypeOK, PromptInv, [AuthNext]_squicAuthVars PROVE PromptInv'
    BY Zenon
  <2> USE DEF PromptInv, AuthenticatedIsPrompt, AuthTypeOK, Goto, authVars, outVars,
              historyVars, streamVars, kindVars
  <2>1. CASE RejectHandshake \/ LoopEnds \/ Accept
    BY <2>1, Zenon DEF RejectHandshake, LoopEnds, Accept
  <2>2. ASSUME NEW s \in Streams, NEW r \in Request, Spawn(s, r) PROVE PromptInv'
    BY <2>2, Zenon DEF Spawn
  <2>3. ASSUME NEW s \in Streams, ReadOpcode(s) PROVE PromptInv'
    BY <2>3, Zenon DEF ReadOpcode
  <2>4. ASSUME NEW s \in Streams, Authenticate(s) PROVE PromptInv'
    BY <2>4, Zenon DEF Authenticate
  <2>5. ASSUME NEW s \in Streams, Reject(s) \/ Serve(s) \/ Push(s) \/ ReadFails(s)
        PROVE  PromptInv'
    BY <2>5, Zenon DEF Reject, Serve, Push, ReadFails
  <2>6. ASSUME NEW s \in Streams, Borrow(s) PROVE PromptInv'
    BY <2>6, Zenon DEF Borrow
  <2>7. ASSUME NEW s \in Streams, Changed(s) \/ TimedOut(s) \/ SenderGone(s)
        PROVE  PromptInv'
    BY <2>7, Zenon DEF Changed, TimedOut, SenderGone
  <2>8. CASE UNCHANGED squicAuthVars
    BY <2>8, Zenon DEF squicAuthVars
  <2> QED
    BY <2>1, <2>2, <2>3, <2>4, <2>5, <2>6, <2>7, <2>8 DEF AuthNext, WaitForSunnyAuth
<1>3. PromptInv => AuthenticatedIsPrompt
  BY Zenon DEF PromptInv
<1> QED
  BY <1>1, <1>2, <1>3, AuthTypeCorrect, PTL DEF AuthSpec

-----------------------------------------------------------------------------
(***************************************************************************)
(* No wakeup is lost in IncomingUdpRegistry, for any number of waiters,    *)
(* control streams and ids.                                                *)
(***************************************************************************)

(***************************************************************************)
(* The registry and its callers keep their types.                          *)
(***************************************************************************)
THEOREM RegistryTypeCorrect == RegistrySpec => []RegistryTypeOK
<1>1. RegistryInit => RegistryTypeOK
  BY Zenon DEF RegistryInit, RegistryTypeOK, Waiting
<1>2. RegistryTypeOK /\ [RegistryNext]_registryVars => RegistryTypeOK'
  <2> SUFFICES ASSUME RegistryTypeOK, [RegistryNext]_registryVars PROVE RegistryTypeOK'
    BY Zenon
  <2> USE DEF RegistryTypeOK, Waiting
  <2>1. ASSUME NEW w \in Waiters, WaitStep(w) PROVE RegistryTypeOK'
    BY <2>1, Zenon DEF WaitStep, Arm, LookUp, CheckClosed, Wake
  <2>2. ASSUME NEW w \in Waiters, Return(w) PROVE RegistryTypeOK'
    BY <2>2, Zenon DEF Return
  <2>3. ASSUME NEW w \in Waiters, NEW id \in Ids, CallWait(w, id) PROVE RegistryTypeOK'
    BY <2>3, Zenon DEF CallWait
  <2>4. ASSUME NEW c \in Writers, NEW id \in Ids, Insert(c, id) PROVE RegistryTypeOK'
    BY <2>4, Zenon DEF Insert
  <2>5. ASSUME NEW c \in Writers, Notify(c) PROVE RegistryTypeOK'
    BY <2>5, Zenon DEF Notify, NotifyWaiters
  <2>6. ASSUME NEW c \in Writers, NEW ids \in SUBSET Ids, Remove(c, ids)
        PROVE  RegistryTypeOK'
    BY <2>6, Zenon DEF Remove
  <2>7. CASE CloseStore
    BY <2>7, Zenon DEF CloseStore
  <2>8. CASE CloseNotify
    BY <2>8, Zenon DEF CloseNotify, NotifyWaiters
  <2>9. CASE UNCHANGED registryVars
    BY <2>9, Zenon DEF registryVars
  <2> QED
    BY <2>1, <2>2, <2>3, <2>4, <2>5, <2>6, <2>7, <2>8, <2>9 DEF RegistryNext
<1> QED
  BY <1>1, <1>2, PTL DEF RegistrySpec

(***************************************************************************)
(* The invariant that carries the proof. A waiter that found no route and  *)
(* has not been woken since can only have missed an insertion whose writer *)
(* has yet to notify; the same holds of the closed flag once it has been   *)
(* read. It is stronger than NoLostWakeup in that it already speaks of a   *)
(* waiter between its lookup and its going to sleep.                       *)
(***************************************************************************)
MissedInsertion(w) ==
    waiter[w] \in {"check", "parked"} /\ ~woken[w] =>
        (want[w] \in routes => \E c \in Writers : writerPc[c] = "inserted")

MissedClose(w) ==
    waiter[w] = "parked" /\ ~woken[w] => (closed => closePc = "stored")

WakeupInv == \A w \in Waiters : MissedInsertion(w) /\ MissedClose(w)

(***************************************************************************)
(* A waiter that sleeps in wait is woken by whatever it waits for.         *)
(***************************************************************************)
THEOREM WakeupsAreNotLost == RegistrySpec => []NoLostWakeup
<1>1. RegistryInit => WakeupInv
  BY Zenon DEF RegistryInit, WakeupInv, MissedInsertion, MissedClose
<1>2. RegistryTypeOK /\ WakeupInv /\ [RegistryNext]_registryVars => WakeupInv'
  <2> SUFFICES ASSUME RegistryTypeOK, WakeupInv, [RegistryNext]_registryVars,
                      NEW v \in Waiters
               PROVE  MissedInsertion(v)' /\ MissedClose(v)'
    BY Zenon DEF WakeupInv
  <2> MissedInsertion(v) /\ MissedClose(v)
    BY Zenon DEF WakeupInv
  <2> USE DEF RegistryTypeOK, MissedInsertion, MissedClose
  <2>1. ASSUME NEW w \in Waiters, WaitStep(w)
        PROVE  MissedInsertion(v)' /\ MissedClose(v)'
    BY <2>1 DEF WaitStep, Arm, LookUp, CheckClosed, Wake
  <2>2. ASSUME NEW w \in Waiters, Return(w)
        PROVE  MissedInsertion(v)' /\ MissedClose(v)'
    BY <2>2, Zenon DEF Return
  <2>3. ASSUME NEW w \in Waiters, NEW id \in Ids, CallWait(w, id)
        PROVE  MissedInsertion(v)' /\ MissedClose(v)'
    BY <2>3, Zenon DEF CallWait
  <2>4. ASSUME NEW c \in Writers, NEW id \in Ids, Insert(c, id)
        PROVE  MissedInsertion(v)' /\ MissedClose(v)'
    BY <2>4, Zenon DEF Insert
  <2>5. ASSUME NEW c \in Writers, Notify(c)
        PROVE  MissedInsertion(v)' /\ MissedClose(v)'
    BY <2>5, Zenon DEF Notify, NotifyWaiters
  <2>6. ASSUME NEW c \in Writers, NEW ids \in SUBSET Ids, Remove(c, ids)
        PROVE  MissedInsertion(v)' /\ MissedClose(v)'
    BY <2>6, Zenon DEF Remove
  <2>7. CASE CloseStore
    BY <2>7, Zenon DEF CloseStore
  <2>8. CASE CloseNotify
    BY <2>8, Zenon DEF CloseNotify, NotifyWaiters
  <2>9. CASE UNCHANGED registryVars
    BY <2>9, Zenon DEF registryVars
  <2> QED
    BY <2>1, <2>2, <2>3, <2>4, <2>5, <2>6, <2>7, <2>8, <2>9 DEF RegistryNext
<1>3. WakeupInv => NoLostWakeup
  BY Zenon DEF WakeupInv, MissedInsertion, MissedClose, NoLostWakeup
<1> QED
  BY <1>1, <1>2, <1>3, RegistryTypeCorrect, PTL DEF RegistrySpec

-----------------------------------------------------------------------------
(***************************************************************************)
(* How long the application keeps a session is up to wait_inactive. It     *)
(* never gives one up too early, for any number of concurrent calls and    *)
(* any timeout. The action property alone says nothing of the instant a    *)
(* call compares with: what carries the argument is that the duration it   *)
(* will see is never longer than the session has really been quiet,        *)
(* whatever is sent or received after the clock is read.                   *)
(***************************************************************************)

\* What a call will find is at most the time since the last activity.
MarksBehind == \A w \in Calls : mark[w] <= age

QuietInv == TimersTypeOK /\ MarksBehind

\* The invariant holds at the start, when no call has been made.
LEMMA QuietInit == TimersInit => QuietInv
BY Hy2InactivityAssumption DEF TimersInit, QuietInv, TimersTypeOK, MarksBehind

\* Every step of a call, of the clock, of the connection and of the packets
\* that renew activity keeps the invariant.
LEMMA QuietStep == QuietInv /\ [TimersNext]_timerVars => QuietInv'
<1> SUFFICES ASSUME QuietInv, [TimersNext]_timerVars PROVE QuietInv'
    BY Zenon
<1> USE Hy2InactivityAssumption DEF QuietInv, TimersTypeOK, MarksBehind
<1>1. CASE Tick
    BY <1>1 DEF Tick
<1>2. CASE Touch
    BY <1>2 DEF Touch, InCall
<1>3. CASE ConnectionDies
    BY <1>3, Zenon DEF ConnectionDies
<1>4. ASSUME NEW w \in Calls, Step(w) PROVE QuietInv'
    <2>1. CASE ArmTimer(w)
        BY <2>1 DEF ArmTimer
    <2>2. CASE Slept(w)
        BY <2>2 DEF Slept
    <2>3. CASE Check(w)
        BY <2>3, Zenon DEF Check
    <2>4. CASE ActivityChanged(w)
        BY <2>4, Zenon DEF ActivityChanged
    <2>5. CASE ConnectionClosed(w)
        BY <2>5, Zenon DEF ConnectionClosed
    <2> QED
        BY <1>4, <2>1, <2>2, <2>3, <2>4, <2>5, Zenon DEF Step
<1>5. ASSUME NEW w \in Calls, WaitInactive(w) PROVE QuietInv'
    BY <1>5, Zenon DEF WaitInactive
<1>6. ASSUME NEW w \in Calls, CancelCall(w) PROVE QuietInv'
    BY <1>6, Zenon DEF CancelCall
<1>7. CASE UNCHANGED timerVars
    BY <1>7, Zenon DEF timerVars
<1> QED
    BY <1>1, <1>2, <1>3, <1>4, <1>5, <1>6, <1>7, Zenon DEF TimersNext

\* The timers keep their types, whatever the interleaving of wait_inactive
\* with send and recv.
THEOREM TimersTypeCorrect == TimersSpec => []TimersTypeOK
<1>1. QuietInv => TimersTypeOK
    BY Zenon DEF QuietInv
<1> QED
    BY <1>1, QuietInit, QuietStep, PTL DEF TimersSpec

\* A step that makes wait_inactive return is taken when the session has been
\* quiet for the timeout, or without its connection.
LEMMA ReturnIsRight ==
    ASSUME QuietInv, [TimersNext]_timerVars,
           NEW w \in Calls, InCall(w), at'[w] = "returned"
    PROVE  age >= Timeout \/ ~up
<1> USE Hy2InactivityAssumption DEF QuietInv, TimersTypeOK, MarksBehind, InCall
<1>1. CASE \E v \in Calls : Check(v)
    BY <1>1 DEF Check
<1>2. CASE \E v \in Calls : ConnectionClosed(v)
    BY <1>2, Zenon DEF ConnectionClosed
<1>3. CASE \/ Tick \/ Touch \/ ConnectionDies
           \/ UNCHANGED timerVars
    BY <1>3, Zenon DEF Tick, Touch, ConnectionDies, timerVars
<1>4. CASE \E v \in Calls :
              \/ ArmTimer(v) \/ Slept(v) \/ ActivityChanged(v)
              \/ WaitInactive(v) \/ CancelCall(v)
    BY <1>4, Zenon DEF ArmTimer, Slept, ActivityChanged, WaitInactive, CancelCall
<1> QED
    BY <1>1, <1>2, <1>3, <1>4, Zenon DEF TimersNext, Step

\* wait_inactive returns only from a session that has been quiet for the whole
\* timeout or has lost its connection.
THEOREM InactivityIsReal == TimersSpec => ReleasedWhenQuiet
<1>1. QuietInv /\ [TimersNext]_timerVars
        => [\A w \in Calls :
               InCall(w) /\ at'[w] = "returned" => age >= Timeout \/ ~up]_timerVars
    BY ReturnIsRight, Zenon
<1> QED
    BY <1>1, QuietInit, QuietStep, PTL DEF TimersSpec, ReleasedWhenQuiet
=============================================================================
