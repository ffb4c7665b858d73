----------------------------- MODULE TcpStreams -----------------------------
(***************************************************************************)
(* TCP connections proxied over an authenticated connection of Hysteria2,  *)
(* ShadowQUIC or SunnyQUIC: a bidirectional QUIC stream each. A Hysteria2  *)
(* client waits for the server's response; a SQuic client sends its        *)
(* request and goes on. Then both applications own the stream's two        *)
(* halves. Bytes arrive in order, in pieces of any size, followed by the   *)
(* end of the half once its writer finishes or drops it.                   *)
(***************************************************************************)
EXTENDS Wire

CONSTANTS
    Streams,            \* streams of the connection
    Ports,              \* ports of destinations
    Cuts,               \* how many bytes may be left over when a frame leaves
                        \* in pieces
    Paddings,           \* lengths of random padding
    MaxData             \* bound on the bytes each application writes

ASSUME TcpStreamsAssumption ==
    /\ Ports \subseteq Nat
    /\ Cuts \subseteq Nat
    /\ Paddings \subseteq 0..MaxPadding
    /\ MaxData \in Nat

\* The lengths that readers allow can be written down.
ASSUME LengthsEncodable ==
    /\ \A n \in 0..MaxAddress : Encodable(n)
    /\ \A n \in 0..MaxPadding : Encodable(n)

VARIABLES
    framing,            \* "hysteria2" or "squic"
    client,             \* the caller of connect, by stream
    want,               \* the destination it asked for
    out,                \* its request, as far as it is not written
    up,                 \* bytes on their way to the server
    upEnd,              \* their end follows
    server,             \* handle_stream, then the server's application
    got,                \* the destination the server understood
    serverOut, down, downEnd,   \* the same, the other way
    written,            \* bytes each application wrote: [client, server]
    read                \* bytes each one read

tcpVars == <<framing, client, want, out, up, upEnd, server, got, serverOut, down, downEnd,
             written, read>>

clientVars == <<client, want, out>>
serverVars == <<server, got, serverOut>>
dataVars == <<written, read>>

Destinations == [host : Hosts, port : Ports]
Nowhere == [host |-> 0, port |-> 0]

TcpInit ==
    /\ framing \in {"hysteria2", "squic"}
    /\ client = [s \in Streams |-> "idle"]
    /\ want = [s \in Streams |-> Nowhere]
    /\ out = [s \in Streams |-> <<>>]
    /\ up = [s \in Streams |-> <<>>]
    /\ upEnd = [s \in Streams |-> FALSE]
    /\ server = [s \in Streams |-> "none"]
    /\ got = [s \in Streams |-> Nowhere]
    /\ serverOut = [s \in Streams |-> <<>>]
    /\ down = [s \in Streams |-> <<>>]
    /\ downEnd = [s \in Streams |-> FALSE]
    /\ written = [s \in Streams |-> [client |-> 0, server |-> 0]]
    /\ read = [s \in Streams |-> [client |-> <<>>, server |-> <<>>]]

Hysteria2 == framing = "hysteria2"

\* The nth byte an application writes.
Data(n) == 200 + n

\* The sizes of the next piece of a frame.
Piece(bytes) == {n \in 1..Len(bytes) : Len(bytes) - n \in Cuts \cup {0}}

-----------------------------------------------------------------------------
\* Whether the request can be written down.
Encodes(a) == IF Hysteria2 THEN Len(Text(a)) <= MaxAddress ELSE AddressEncodes(a)

\* connect, as far as it can go at once
Connect(s, a, padding) ==
    /\ client[s] = "idle"
    /\ want' = [want EXCEPT ![s] = a]
    /\ IF Encodes(a)
       THEN /\ client' = [client EXCEPT ![s] = "requesting"]
            /\ out' = [out EXCEPT ![s] = IF Hysteria2 THEN EncodeRequest(a, padding)
                                                      ELSE EncodeConnect(a)]
            /\ UNCHANGED upEnd
       ELSE /\ client' = [client EXCEPT ![s] = "failed"]
            /\ upEnd' = [upEnd EXCEPT ![s] = TRUE]
            /\ UNCHANGED out
    /\ UNCHANGED <<framing, up, serverVars, down, downEnd, dataVars>>

WriteRequest(s, n) ==
    /\ client[s] = "requesting"
    /\ up' = [up EXCEPT ![s] = @ \o SubSeq(out[s], 1, n)]
    /\ out' = [out EXCEPT ![s] = SubSeq(@, n + 1, Len(@))]
    /\ client' = [client EXCEPT ![s] = IF n < Len(out[s]) THEN "requesting"
                                       ELSE IF Hysteria2 THEN "awaiting" ELSE "open"]
    /\ UNCHANGED <<framing, want, upEnd, serverVars, down, downEnd, dataVars>>

\* Both halves are dropped; what was not written yet is lost.
LeaveStream(s, label) ==
    /\ client' = [client EXCEPT ![s] = label]
    /\ out' = [out EXCEPT ![s] = <<>>]
    /\ upEnd' = [upEnd EXCEPT ![s] = TRUE]
    /\ down' = [down EXCEPT ![s] = <<>>]
    /\ UNCHANGED <<framing, want, up, serverVars, downEnd, dataVars>>

\* read_tcp_response
ReadResponse(s) ==
    /\ client[s] = "awaiting"
    /\ LET r == ParseResponse(down[s]) IN
       \/ /\ r.status = "ok" /\ r.value = 0
          /\ client' = [client EXCEPT ![s] = "open"]
          /\ down' = [down EXCEPT ![s] = r.rest]
          /\ UNCHANGED <<framing, want, out, up, upEnd, serverVars, downEnd, dataVars>>
       \/ /\ \/ r.status = "ok" /\ r.value # 0
             \/ r.status = "bad"
             \/ r.status = "more" /\ downEnd[s]
          /\ LeaveStream(s, "failed")

\* The future of connect, or the stream it returned, is dropped.
DropClientStream(s) ==
    /\ client[s] \in {"requesting", "awaiting", "open"}
    /\ LeaveStream(s, "dropped")

ClientWrites(s) ==
    /\ client[s] = "open" /\ written[s].client < MaxData
    /\ written' = [written EXCEPT ![s].client = @ + 1]
    /\ up' = [up EXCEPT ![s] = Append(@, Data(written[s].client + 1))]
    /\ UNCHANGED <<framing, clientVars, upEnd, serverVars, down, downEnd, read>>

ClientReads(s) ==
    /\ client[s] = "open" /\ down[s] # <<>>
    /\ read' = [read EXCEPT ![s].client = Append(@, Head(down[s]))]
    /\ down' = [down EXCEPT ![s] = Tail(@)]
    /\ UNCHANGED <<framing, clientVars, up, upEnd, serverVars, downEnd, written>>

-----------------------------------------------------------------------------
\* accept_bi returns the stream once something of it arrived.
AcceptBi(s) ==
    /\ server[s] = "none"
    /\ up[s] # <<>> \/ upEnd[s]
    /\ server' = [server EXCEPT ![s] = "reading"]
    /\ UNCHANGED <<framing, clientVars, up, upEnd, got, serverOut, down, downEnd, dataVars>>

LeaveServer(s, label) ==
    /\ server' = [server EXCEPT ![s] = label]
    /\ serverOut' = [serverOut EXCEPT ![s] = <<>>]
    /\ downEnd' = [downEnd EXCEPT ![s] = TRUE]
    /\ up' = [up EXCEPT ![s] = <<>>]
    /\ UNCHANGED <<framing, clientVars, upEnd, got, down, dataVars>>

Understood(s) == IF Hysteria2 THEN ParseRequest(up[s]) ELSE ParseConnect(up[s])

\* read_tcp_request, or the opcode and the address of CONNECT. Hysteria2
\* answers before the stream is handed on; a server of another make may
\* answer with an error.
ReadRequest(s, padding, status) ==
    /\ server[s] = "reading"
    /\ Understood(s).status = "ok"
    /\ got' = [got EXCEPT ![s] = Understood(s).value]
    /\ up' = [up EXCEPT ![s] = Understood(s).rest]
    /\ IF Hysteria2
       THEN /\ server' = [server EXCEPT ![s] = IF status = 0 THEN "responding" ELSE "refusing"]
            /\ serverOut' = [serverOut EXCEPT ![s] =
                                EncodeResponse(status, Copies(99, status), padding)]
       ELSE /\ server' = [server EXCEPT ![s] = "queued"]
            /\ UNCHANGED serverOut
    /\ UNCHANGED <<framing, clientVars, upEnd, down, downEnd, dataVars>>

RequestFails(s) ==
    /\ server[s] = "reading"
    /\ \/ Understood(s).status = "bad"
       \/ Understood(s).status = "more" /\ upEnd[s]
    /\ LeaveServer(s, "failed")

WriteResponse(s, n) ==
    /\ server[s] \in {"responding", "refusing"}
    /\ serverOut[s] # <<>>
    /\ down' = [down EXCEPT ![s] = @ \o SubSeq(serverOut[s], 1, n)]
    /\ serverOut' = [serverOut EXCEPT ![s] = SubSeq(@, n + 1, Len(@))]
    /\ server' = [server EXCEPT ![s] =
                    IF n = Len(serverOut[s]) /\ @ = "responding" THEN "queued" ELSE @]
    /\ UNCHANGED <<framing, clientVars, up, upEnd, got, downEnd, dataVars>>

\* The client is gone and its half stopped before the response is written.
ResponseFails(s) ==
    /\ server[s] \in {"responding", "refusing"}
    /\ client[s] \in {"dropped", "failed"}
    /\ LeaveServer(s, "failed")

\* The stream is dropped: after an error response, when Server is gone and
\* nobody can accept, or by the application.
DropServerStream(s) ==
    /\ \/ server[s] = "refusing" /\ serverOut[s] = <<>>
       \/ server[s] \in {"queued", "accepted"}
    /\ LeaveServer(s, "dropped")

\* Server::accept hands the stream to the application.
AcceptStream(s) ==
    /\ server[s] = "queued"
    /\ server' = [server EXCEPT ![s] = "accepted"]
    /\ UNCHANGED <<framing, clientVars, up, upEnd, got, serverOut, down, downEnd, dataVars>>

ServerWrites(s) ==
    /\ server[s] = "accepted" /\ written[s].server < MaxData
    /\ written' = [written EXCEPT ![s].server = @ + 1]
    /\ down' = [down EXCEPT ![s] = Append(@, Data(written[s].server + 1))]
    /\ UNCHANGED <<framing, clientVars, up, upEnd, serverVars, downEnd, read>>

ServerReads(s) ==
    /\ server[s] = "accepted" /\ up[s] # <<>>
    /\ read' = [read EXCEPT ![s].server = Append(@, Head(up[s]))]
    /\ up' = [up EXCEPT ![s] = Tail(@)]
    /\ UNCHANGED <<framing, clientVars, upEnd, serverVars, down, downEnd, written>>

-----------------------------------------------------------------------------
ClientStep(s) == (\E n \in Piece(out[s]) : WriteRequest(s, n)) \/ ReadResponse(s)

ServerStep(s) ==
    \/ AcceptBi(s) \/ RequestFails(s) \/ ResponseFails(s)
    \/ \E padding \in Paddings, status \in {0, 1} : ReadRequest(s, padding, status)
    \/ \E n \in Piece(serverOut[s]) : WriteResponse(s, n)
    \/ server[s] = "refusing" /\ DropServerStream(s)

TcpNext ==
    \E s \in Streams :
        \/ \E a \in Destinations, padding \in Paddings : Connect(s, a, padding)
        \/ ClientStep(s) \/ DropClientStream(s) \/ ClientWrites(s) \/ ClientReads(s)
        \/ ServerStep(s) \/ AcceptStream(s) \/ DropServerStream(s)
        \/ ServerWrites(s) \/ ServerReads(s)

-----------------------------------------------------------------------------
(***************************************************************************)
(* The server dials the destination the client asked for, whatever the     *)
(* length of the address and of the padding and wherever the request was   *)
(* cut on its way; an IP address comes out in the spelling of the standard *)
(* library. And connect never returns a stream whose request the server    *)
(* did not understand, or refused.                                         *)
(***************************************************************************)
RightDestination ==
    \A s \in Streams :
        LET asked == [want[s] EXCEPT !.host = IF want[s] = Nowhere THEN 0 ELSE Canonical[@]] IN
        /\ got[s] \in {Nowhere, asked}
        /\ Hysteria2 /\ client[s] = "open" =>
               got[s] = asked /\ server[s] \in {"queued", "accepted", "dropped"}

(***************************************************************************)
(* What an application reads from a proxied stream is what the other one   *)
(* wrote, from its first byte on: requests, responses and their padding    *)
(* are consumed to the byte, and nothing sent right behind them is eaten.  *)
(***************************************************************************)
StreamsIntact ==
    \A s \in Streams :
        /\ read[s].server = [i \in 1..Len(read[s].server) |-> Data(i)]
        /\ Len(read[s].server) <= written[s].client
        /\ read[s].client = [i \in 1..Len(read[s].client) |-> Data(i)]
        /\ Len(read[s].client) <= written[s].server

(***************************************************************************)
(* connect returns: the server answers or drops every stream it can read a *)
(* request or an end from, also when the request ends in its middle.       *)
(***************************************************************************)
ConnectReturns ==
    \A s \in Streams : client[s] \in {"requesting", "awaiting"}
                           ~> client[s] \notin {"requesting", "awaiting"}
=============================================================================
